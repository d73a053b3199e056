--------------------------- MODULE IndexBuildSteps ---------------------------
(***************************************************************************)
(* Why a published index is complete, for every number of threads, rows    *)
(* and calls, wherever the jobs are coordinated by what they hold until    *)
(* they have committed: the store-wide write lock, or, on RocksDB, the     *)
(* relation's lock.                                                        *)
(*                                                                         *)
(* With the store-wide lock one transaction is open at a time, and it is   *)
(* enough that what it would commit is complete (Alone).  On RocksDB many  *)
(* are open.  What a transaction writes is then seen as a change of the    *)
(* rows together with the change of the entries that goes with it (Delta), *)
(* which does not depend on the other entries of the index; two changes    *)
(* that write nothing in common can be made in either order, so a commit   *)
(* that finds no conflict keeps the index complete.  ::reindex writes      *)
(* every entry that is wrong or could become so (Heal).                    *)
(***************************************************************************)
EXTENDS IndexBuild, TLAPS

RocksJobs == {"single", "import", "reindex", "drop", "hnsw"}
StoreLockJobs ==
  {"single", "governed", "multi", "script", "import", "create", "reindex", "drop"}

\* The jobs that run are coordinated with each other on the engine they run on.
Coordinated ==
  \/ Engine!Exclusive /\ setting.jobs \subseteq StoreLockJobs
  \/ setting.engine = "rocksdb" /\ setting.jobs \subseteq RocksJobs

AnyId == 0..MaxId
IdxThings == {IdxThing(i, e) : i \in AnyId, e \in Entries}
Things == {RowThing(k) : k \in Keys} \union IdxThings \union {CatThing}

RowsType == [Keys -> Vals \union {0}]
CatType == [pub : AnyId, kind : {"tree", "search"}, named : AnyId, next : Nat]
TxType ==
  [open : BOOLEAN, stale : SUBSET Things, row : [Keys -> Vals \union {0, Same}],
   put : SUBSET IdxThings, del : SUBSET IdxThings, cat : CatType \union {NoCat},
   locked : SUBSET {CatThing}, warned : BOOLEAN, heals : BOOLEAN]
ProcType ==
  [job : RocksJobs \union StoreLockJobs \union {"idle"}, pc : Nat, tx : TxType,
   id : AnyId, seen : SUBSET Entries]

Types ==
  /\ rows \in RowsType /\ idx \in [Ids -> SUBSET Entries]
  /\ cat \in CatType /\ stranded \in BOOLEAN
  /\ lock \in [shared : SUBSET Procs, excl : Procs \union {Nobody}]
  /\ building \in BOOLEAN
  /\ proc \in [Procs -> ProcType]
  /\ \A p \in Procs : proc[p].job # "idle" => proc[p].pc \in 1..Len(Program[proc[p].job])

-----------------------------------------------------------------------------
(* What a transaction makes of the rows and of the index. *)

\* Row e[1] is there, with e[2]: an index that is complete has the entry.
Holds(rw, e) == rw[e[1]] = e[2]

After(rw, tx) == [k \in Keys |-> IF tx.row[k] = Same THEN rw[k] ELSE tx.row[k]]
Puts(tx, id, e) == IdxThing(id, e) \in tx.put
Dels(tx, id, e) == IdxThing(id, e) \in tx.del
Touches(tx, id, e) == Puts(tx, id, e) \/ Dels(tx, id, e)
Seen(es, tx, id) == {e \in Entries : Puts(tx, id, e) \/ (e \in es /\ ~Dels(tx, id, e))}

\* The entries written are those that the rows written call for.
Delta(tx, id, rw) ==
  \A e \in Entries :
    /\ Puts(tx, id, e) => Holds(After(rw, tx), e)
    /\ Dels(tx, id, e) => ~Holds(After(rw, tx), e)
    /\ ~Touches(tx, id, e) => (Holds(rw, e) <=> Holds(After(rw, tx), e))

\* Every entry that is not written is right as it is.
Heal(tx, id, rw, es) ==
  \A e \in Entries : ~Touches(tx, id, e) => (e \in es <=> Holds(rw, e))

\* Only entries of rows that are written too.
Local(tx, id) == \A e \in Entries : Touches(tx, id, e) => tx.row[e[1]] # Same

OnlyAt(tx, id) == \A i \in AnyId, e \in Entries : Touches(tx, i, e) => i = id

Full(es, rw) == \A e \in Entries : e \in es <=> Holds(rw, e)

NoRows(tx) == \A k \in Keys : tx.row[k] = Same
Bare(tx) == tx.put = {} /\ tx.del = {}
Blank(tx) ==
  NoRows(tx) /\ Bare(tx) /\ tx.cat = NoCat /\ tx.locked = {} /\ ~tx.warned /\ ~tx.heals
Clean(tx) == Written(tx) \intersect tx.stale = {}

-----------------------------------------------------------------------------
(* RocksDB: how far a thread is, and what its transaction has written. *)

OpenAt(q) ==
  \/ q.job \in {"single", "import"} /\ q.pc \in {3, 4}
  \/ q.job \in {"reindex", "drop"} /\ q.pc \in {2, 3, 4, 5}
  \/ q.job = "hnsw" /\ q.pc \in {4, 5, 11, 12}

Unworked(q) ==
  \/ q.job \in {"single", "import"} /\ q.pc = 3
  \/ q.job \in {"reindex", "drop"} /\ q.pc \in {2, 3}
  \/ q.job = "hnsw" /\ q.pc \in {4, 11}

Shape(q) ==
  /\ q.job \in RocksJobs \union {"idle"}
  /\ q.tx.open <=> OpenAt(q)
  /\ ~q.tx.open => q.tx = NoTx
  /\ Unworked(q) => Blank(q.tx)

\* :put, :rm and import_relations, before they commit.
Writer(q, c, rw) ==
  q.job \in {"single", "import"} /\ q.pc = 4 =>
    /\ q.tx.cat = NoCat /\ q.tx.locked = {} /\ ~q.tx.heals
    /\ c.pub # 0 /\ ~q.tx.warned =>
         Local(q.tx, c.pub) /\ (Clean(q.tx) => Delta(q.tx, c.pub, rw))

Reindexer(q, c, rw, ix, st) ==
  q.job = "reindex" /\ q.pc \in {4, 5} =>
    /\ NoRows(q.tx) /\ q.tx.cat = NoCat /\ q.tx.locked = {CatThing} /\ ~q.tx.warned
    /\ \/ Bare(q.tx) /\ ~q.tx.heals
       \/ /\ c.pub # 0 /\ OnlyAt(q.tx, c.pub)
          /\ q.tx.heals /\ Clean(q.tx) =>
               Delta(q.tx, c.pub, rw) /\ Heal(q.tx, c.pub, rw, ix[c.pub])
          /\ ~q.tx.heals => st

Dropper(q, c) ==
  q.job = "drop" /\ q.pc \in {4, 5} =>
    /\ NoRows(q.tx) /\ q.tx.locked = {CatThing} /\ ~q.tx.warned /\ ~q.tx.heals
    /\ q.tx.cat = [c EXCEPT !.pub = 0, !.named = 0]
    /\ c.pub # 0 /\ OnlyAt(q.tx, c.pub)

\* The HNSW build, from phase A to the end of phase D.
Builder(q, c, rw, ix) ==
  /\ q.job = "hnsw" /\ q.pc = 5 =>
       /\ NoRows(q.tx) /\ Bare(q.tx) /\ q.tx.locked = {CatThing}
       /\ ~q.tx.warned /\ ~q.tx.heals
       /\ c.pub = 0 /\ q.id = c.next /\ q.id \in Ids /\ q.tx.cat = Named(c)
  /\ q.job = "hnsw" /\ q.pc \in 6..12 =>
       /\ c.pub = 0 /\ q.id = c.named /\ q.id \in Ids
       /\ ix[q.id] = IF q.pc <= 8 THEN {} ELSE q.seen
  /\ q.job = "hnsw" /\ q.pc = 12 =>
       /\ NoRows(q.tx) /\ q.tx.locked = {CatThing} /\ ~q.tx.warned
       /\ q.tx.cat = [c EXCEPT !.pub = q.id, !.kind = "search"]
       /\ OnlyAt(q.tx, q.id)
       /\ Full(Seen(ix[q.id], q.tx, q.id), rw)

\* No transaction writes to an index relation that is not published yet.
Foreign(q, c) ==
  \A i \in AnyId, e \in Entries : Touches(q.tx, i, e) =>
    i # 0 /\ i < c.next /\ (c.pub = 0 /\ q.job # "hnsw" => i # c.named)

Sound(q, c, rw, ix, st) ==
  /\ Shape(q) /\ Writer(q, c, rw) /\ Reindexer(q, c, rw, ix, st)
  /\ Dropper(q, c) /\ Builder(q, c, rw, ix) /\ Foreign(q, c)

Threads == \A p \in Procs : Sound(proc[p], cat, rows, idx, stranded)

Catalog ==
  /\ cat.named < cat.next /\ cat.next # 0
  /\ cat.pub # 0 => cat.named = cat.pub
  /\ \A i \in Ids : cat.next <= i => idx[i] = {}

Complete == cat.pub # 0 /\ ~stranded => Full(idx[cat.pub], rows)

\* Who may write rows holds the relation's lock shared; who publishes holds it alone.
Locks ==
  /\ \A p \in Procs : proc[p].job \in {"single", "import"} /\ proc[p].pc \in 2..5 => p \in lock.shared
  /\ \A p \in Procs : proc[p].job = "hnsw" /\ proc[p].pc \in 10..13 => lock.excl = p
  /\ lock.excl # Nobody => lock.shared = {}

\* The catalog row is locked by one transaction, and one build of the index runs.
OneHolder ==
  \A p, r \in Procs : CatThing \in proc[p].tx.locked /\ CatThing \in proc[r].tx.locked => p = r

OneBuild ==
  /\ \A p \in Procs : proc[p].job = "hnsw" /\ proc[p].pc > 1 => building
  /\ \A p, r \in Procs : proc[p].job = "hnsw" /\ proc[p].pc > 1
                           /\ proc[r].job = "hnsw" /\ proc[r].pc > 1 => p = r

Together ==
  /\ setting.engine = "rocksdb" /\ setting.jobs \subseteq RocksJobs
  /\ Types /\ Threads /\ Catalog /\ Complete /\ Locks /\ OneHolder /\ OneBuild

-----------------------------------------------------------------------------
(* One transaction at a time. *)

OpenAtAlone(q) ==
  \/ q.job \in {"single", "import"} /\ q.pc \in {3, 4}
  \/ q.job = "script" /\ q.pc \in {3, 4, 5}
  \/ q.job = "multi" /\ q.pc \in {2, 3}
  \/ q.job \in {"governed", "create", "reindex", "drop"} /\ q.pc \in {2, 3, 4, 5}

\* What the transaction would commit is complete.
Ready(q, c, rw, ix, st) ==
  LET d == IF q.tx.cat = NoCat THEN c ELSE q.tx.cat
  IN  /\ d.named < d.next /\ c.next <= d.next
      /\ d.pub # 0 => d.named = d.pub
      /\ \A i \in AnyId, e \in Entries : Touches(q.tx, i, e) => i < d.next
      /\ d.pub # 0 /\ ~q.tx.warned /\ (st => q.tx.heals) =>
           Full(Seen(ix[d.pub], q.tx, d.pub), After(rw, q.tx))

Alone ==
  /\ Engine!Exclusive /\ setting.jobs \subseteq StoreLockJobs
  /\ Types /\ Catalog /\ Complete
  /\ \A p \in Procs :
       /\ proc[p].job \in StoreLockJobs \union {"idle"}
       /\ proc[p].tx.open <=> OpenAtAlone(proc[p])
       /\ ~proc[p].tx.open => proc[p].tx = NoTx
       /\ proc[p].tx.open => Ready(proc[p], cat, rows, idx, stranded)
  /\ \A p, r \in Procs : proc[p].tx.open /\ proc[r].tx.open => p = r

IInv == Together \/ Alone

-----------------------------------------------------------------------------
(* Lemmas about transactions. *)

LEMMA SameThing ==
  ASSUME NEW i, NEW j, NEW e, NEW es
  PROVE  IdxThing(i, e) \in {IdxThing(j, x) : x \in es} <=> i = j /\ e \in es
  BY DEF IdxThing

LEMMA EntryIff ==
  ASSUME NEW rw \in RowsType
  PROVE  EntriesOf(rw) \in SUBSET Entries /\ \A e \in Entries : e \in EntriesOf(rw) <=> Holds(rw, e)
  <1>1. \A v \in Vals : v # 0
    BY IndexAssumption
  <1>2. \A e \in Entries : e[1] \in Keys /\ e[2] \in Vals /\ e = <<e[1], e[2]>>
    BY DEF Entries
  <1>3. EntriesOf(rw) \in SUBSET Entries
    BY DEF EntriesOf, Entries, RowsType
  <1>4. ASSUME NEW e \in Entries PROVE e \in EntriesOf(rw) <=> Holds(rw, e)
    <2>1. ASSUME Holds(rw, e) PROVE e \in EntriesOf(rw)
      BY <1>1, <1>2, <2>1 DEF EntriesOf, Holds
    <2>2. ASSUME e \in EntriesOf(rw) PROVE Holds(rw, e)
      BY <2>2 DEF EntriesOf, Holds
    <2> QED
      BY <2>1, <2>2
  <1> QED
    BY <1>3, <1>4

LEMMA FullIsEntries ==
  ASSUME NEW rw \in RowsType, NEW es \in SUBSET Entries, Full(es, rw)
  PROVE  es = EntriesOf(rw)
  BY EntryIff DEF Full

LEMMA AfterType ==
  ASSUME NEW rw \in RowsType, NEW t \in TxType
  PROVE  After(rw, t) \in RowsType /\ \A k \in Keys : After(rw, t)[k] = IF t.row[k] = Same THEN rw[k] ELSE t.row[k]
  <1>1. \A k \in Keys : t.row[k] \in Vals \union {0, Same}
    BY DEF TxType
  <1> QED
    BY <1>1 DEF After, RowsType

LEMMA PutFacts ==
  ASSUME NEW tx \in TxType, NEW id \in AnyId, NEW es \in SUBSET Entries, NEW t, t = Put(tx, id, es)
  PROVE  /\ t \in TxType
         /\ t.open = tx.open /\ t.stale = tx.stale /\ t.row = tx.row /\ t.cat = tx.cat
         /\ t.locked = tx.locked /\ t.warned = tx.warned /\ t.heals = tx.heals
         /\ \A i \in AnyId, e \in Entries :
              /\ Puts(t, i, e) <=> Puts(tx, i, e) \/ (i = id /\ e \in es)
              /\ Dels(t, i, e) <=> Dels(tx, i, e) /\ ~(i = id /\ e \in es)
  <1> DEFINE new == {IdxThing(id, e) : e \in es}
  <1>1. new \in SUBSET IdxThings
    BY DEF IdxThings
  <1>2. \A i, e : IdxThing(i, e) \in new <=> i = id /\ e \in es
    BY SameThing
  <1>3. t = [tx EXCEPT !.put = @ \union new, !.del = @ \ new]
    BY DEF Put
  <1> HIDE DEF new
  <1>4. t \in TxType /\ t.put = tx.put \union new /\ t.del = tx.del \ new
        /\ t.open = tx.open /\ t.stale = tx.stale /\ t.row = tx.row /\ t.cat = tx.cat
        /\ t.locked = tx.locked /\ t.warned = tx.warned /\ t.heals = tx.heals
    BY <1>1, <1>3, Zenon DEF TxType
  <1> QED
    BY <1>2, <1>4 DEF Puts, Dels

LEMMA DelFacts ==
  ASSUME NEW tx \in TxType, NEW id \in AnyId, NEW es \in SUBSET Entries, NEW t, t = Del(tx, id, es)
  PROVE  /\ t \in TxType
         /\ t.open = tx.open /\ t.stale = tx.stale /\ t.row = tx.row /\ t.cat = tx.cat
         /\ t.locked = tx.locked /\ t.warned = tx.warned /\ t.heals = tx.heals
         /\ \A i \in AnyId, e \in Entries :
              /\ Puts(t, i, e) <=> Puts(tx, i, e) /\ ~(i = id /\ e \in es)
              /\ Dels(t, i, e) <=> Dels(tx, i, e) \/ (i = id /\ e \in es)
  <1> DEFINE old == {IdxThing(id, e) : e \in es}
  <1>1. old \in SUBSET IdxThings
    BY DEF IdxThings
  <1>2. \A i, e : IdxThing(i, e) \in old <=> i = id /\ e \in es
    BY SameThing
  <1>3. t = [tx EXCEPT !.put = @ \ old, !.del = @ \union old]
    BY DEF Del
  <1> HIDE DEF old
  <1>4. t \in TxType /\ t.put = tx.put \ old /\ t.del = tx.del \union old
        /\ t.open = tx.open /\ t.stale = tx.stale /\ t.row = tx.row /\ t.cat = tx.cat
        /\ t.locked = tx.locked /\ t.warned = tx.warned /\ t.heals = tx.heals
    BY <1>1, <1>3, Zenon DEF TxType
  <1> QED
    BY <1>2, <1>4 DEF Puts, Dels

\* Transactions that write nothing in common.
Apart(t, u) ==
  /\ \A k \in Keys : t.row[k] = Same \/ u.row[k] = Same
  /\ \A i \in AnyId, e \in Entries : ~(Touches(t, i, e) /\ Touches(u, i, e))

LEMMA ApartIfDisjoint ==
  ASSUME NEW t \in TxType, NEW u \in TxType, Written(t) \intersect Written(u) = {}
  PROVE  Apart(t, u)
  <1>1. \A x : ~(x \in Written(t) /\ x \in Written(u))
    OBVIOUS
  <1>2. \A k \in Keys : t.row[k] # Same => RowThing(k) \in Written(t)
    BY DEF Written
  <1>3. \A k \in Keys : u.row[k] # Same => RowThing(k) \in Written(u)
    BY DEF Written
  <1>4. \A i \in AnyId, e \in Entries : Touches(t, i, e) => IdxThing(i, e) \in Written(t)
    BY DEF Written, Touches, Puts, Dels
  <1>5. \A i \in AnyId, e \in Entries : Touches(u, i, e) => IdxThing(i, e) \in Written(u)
    BY DEF Written, Touches, Puts, Dels
  <1> QED
    BY <1>1, <1>2, <1>3, <1>4, <1>5, Zenon DEF Apart

\* What a transaction would write stays what its rows call for when another one
\* that it has nothing in common with commits.
LEMMA DeltaMerge ==
  ASSUME NEW t \in TxType, NEW u \in TxType, NEW rw \in RowsType, NEW id \in AnyId,
         Apart(t, u), Delta(t, id, rw), Local(t, id) \/ Delta(u, id, rw)
  PROVE  Delta(t, id, After(rw, u))
  <1> DEFINE rv == After(rw, u)
             rt == After(rw, t)
             rb == After(rv, t)
  <1>0. rv \in RowsType
    BY AfterType
  <1>1. \A k \in Keys : /\ rv[k] = IF u.row[k] = Same THEN rw[k] ELSE u.row[k]
                        /\ rt[k] = IF t.row[k] = Same THEN rw[k] ELSE t.row[k]
                        /\ rb[k] = IF t.row[k] = Same THEN rv[k] ELSE t.row[k]
    BY <1>0, AfterType
  <1>2. \A k \in Keys : t.row[k] = Same \/ u.row[k] = Same
    BY DEF Apart
  <1>3. \A e \in Entries : e[1] \in Keys
    BY DEF Entries
  <1>4. \A e \in Entries : ~(Touches(t, id, e) /\ Touches(u, id, e))
    BY DEF Apart
  <1>5. \A e \in Entries : /\ Puts(t, id, e) => Holds(rt, e)
                           /\ Dels(t, id, e) => ~Holds(rt, e)
                           /\ ~Touches(t, id, e) => (Holds(rw, e) <=> Holds(rt, e))
    BY DEF Delta
  <1>6. \A e \in Entries : Touches(t, id, e) => t.row[e[1]] # Same \/ (Holds(rw, e) <=> Holds(rv, e))
    BY <1>4 DEF Local, Delta
  <1> SUFFICES ASSUME NEW e \in Entries
               PROVE  /\ Puts(t, id, e) => Holds(rb, e)
                      /\ Dels(t, id, e) => ~Holds(rb, e)
                      /\ ~Touches(t, id, e) => (Holds(rv, e) <=> Holds(rb, e))
    BY DEF Delta
  <1> HIDE DEF rv, rt, rb
  <1>7. Touches(t, id, e) => (Holds(rb, e) <=> Holds(rt, e))
    BY <1>1, <1>3, <1>6 DEF Holds
  <1>8. ~Touches(t, id, e) => (Holds(rv, e) <=> Holds(rb, e))
    BY <1>1, <1>2, <1>3, <1>5 DEF Holds
  <1> QED
    BY <1>5, <1>7, <1>8 DEF Touches

\* A commit brings the index up to date if it was so wherever the transaction does
\* not write.
LEMMA DeltaFull ==
  ASSUME NEW t \in TxType, NEW rw \in RowsType, NEW id \in AnyId, NEW es \in SUBSET Entries,
         Delta(t, id, rw), Heal(t, id, rw, es)
  PROVE  Full(Seen(es, t, id), After(rw, t))
  BY DEF Delta, Heal, Full, Seen, Touches

LEMMA FullHeals ==
  ASSUME NEW t, NEW id, NEW rw, NEW es, Full(es, rw)
  PROVE  Heal(t, id, rw, es)
  BY DEF Full, Heal

\* ... and what ::reindex would leave alone stays right.
LEMMA HealMerge ==
  ASSUME NEW t \in TxType, NEW u \in TxType, NEW rw \in RowsType, NEW id \in AnyId,
         NEW es \in SUBSET Entries, Apart(t, u), Delta(u, id, rw), Heal(t, id, rw, es)
  PROVE  Heal(t, id, After(rw, u), Seen(es, u, id))
  BY DEF Apart, Delta, Heal, Seen, Touches

LEMMA NoRowsAfter ==
  ASSUME NEW t \in TxType, NEW rw \in RowsType, NoRows(t)
  PROVE  After(rw, t) = rw
  BY DEF After, RowsType, NoRows

LEMMA SeenElsewhere ==
  ASSUME NEW t \in TxType, NEW i \in AnyId, NEW es \in SUBSET Entries,
         \A e \in Entries : ~Touches(t, i, e)
  PROVE  Seen(es, t, i) = es
  BY DEF Seen, Touches

LEMMA BareTouches ==
  ASSUME NEW t \in TxType, Bare(t)
  PROVE  \A i, e : ~Touches(t, i, e)
  BY DEF Bare, Touches, Puts, Dels

LEMMA NoCatIsNone == \A c \in CatType : c # NoCat
  <1> SUFFICES ASSUME NEW c \in CatType, c = NoCat PROVE FALSE
    OBVIOUS
  <1>1. "next" \in DOMAIN c
    BY DEF CatType
  <1>2. DOMAIN NoCat = {"pub"}
    BY DEF NoCat
  <1> QED
    BY <1>1, <1>2

LEMMA NoTxType == NoTx \in TxType /\ NoTx.put = {} /\ NoTx.del = {} /\ NoTx.locked = {} /\ NoTx.open = FALSE
  BY DEF NoTx, TxType

-----------------------------------------------------------------------------
(* The programs, and what one step makes of a thread. *)

AllJobs == RocksJobs \union StoreLockJobs

Last(j) == CASE j \in {"single", "governed", "import", "create", "reindex", "drop"} -> 5
             [] j = "multi" -> 3
             [] j = "script" -> 6
             [] OTHER -> 14

LEMMA LastIs ==
  /\ \A j \in {"single", "governed", "import", "create", "reindex", "drop"} : Last(j) = 5
  /\ Last("multi") = 3 /\ Last("script") = 6 /\ Last("hnsw") = 14
  BY DEF Last

\* Where each step is.
StepAt(j, n, step) ==
  /\ step = "Shared" => \/ j \in {"single", "script", "import"} /\ n = 1
                        \/ j \in {"governed", "drop"} /\ n = 2
  /\ step = "Exclusive" => (j \in {"create", "reindex"} /\ n = 2) \/ (j = "hnsw" /\ n \in {2, 9})
  /\ step = "Open" => \/ j \in {"single", "script", "import"} /\ n = 2
                      \/ j \in {"governed", "multi", "create", "reindex", "drop"} /\ n = 1
                      \/ j = "hnsw" /\ n \in {3, 10}
  /\ step = "Write" => \/ j \in {"single", "governed"} /\ n = 3
                       \/ j = "multi" /\ n = 2
                       \/ j = "script" /\ n = 4
  /\ step = "Import" => j = "import" /\ n = 3
  /\ step = "Create" => j \in {"script", "create"} /\ n = 3
  /\ step = "Reindex" => j = "reindex" /\ n = 3
  /\ step = "Drop" => j = "drop" /\ n = 3
  /\ step = "Release" => \/ j \in {"single", "import"} /\ n = 5
                         \/ j = "script" /\ n = 6
                         \/ j \in {"governed", "create", "reindex", "drop"} /\ n = 4
                         \/ j = "hnsw" /\ n \in {6, 13}
  /\ step = "Commit" => \/ j \in {"single", "import"} /\ n = 4
                        \/ j = "multi" /\ n = 3
                        \/ j \in {"script", "governed", "create", "reindex", "drop"} /\ n = 5
                        \/ j = "hnsw" /\ n \in {5, 12}
  /\ step = "Enlist" => j = "hnsw" /\ n = 1
  /\ step = "Prepare" => j = "hnsw" /\ n = 4
  /\ step = "Scan" => j = "hnsw" /\ n = 7
  /\ step = "Ingest" => j = "hnsw" /\ n = 8
  /\ step = "Reconcile" => j = "hnsw" /\ n = 11
  /\ step = "Delist" => j = "hnsw" /\ n = 14

LEMMA ProgramSteps ==
  ASSUME NEW j \in AllJobs
  PROVE  Len(Program[j]) = Last(j) /\ \A n \in 1..Len(Program[j]) : StepAt(j, n, Program[j][n])
  <1>1. CASE j = "single"
    <2>1. Program[j] = Single /\ Len(Single) = 5 /\ Last(j) = 5
      BY <1>1 DEF Program, Single, Last
    <2>2. /\ Single[1] = "Shared" /\ Single[2] = "Open" /\ Single[3] = "Write" /\ Single[4] = "Commit"
          /\ Single[5] = "Release"
      BY DEF Single
    <2>3. ASSUME NEW n \in 1..5 PROVE StepAt(j, n, Single[n])
      <3>1. n \in {1, 2, 3, 4, 5}
        BY SMTT(20), Z3T(20)
      <3> QED
        BY <1>1, <2>2, <3>1 DEF StepAt
    <2> QED
      BY <2>1, <2>3
  <1>2. CASE j = "governed"
    <2>1. Program[j] = Governed /\ Len(Governed) = 5 /\ Last(j) = 5
      BY <1>2 DEF Program, Governed, Last
    <2>2. /\ Governed[1] = "Open" /\ Governed[2] = "Shared" /\ Governed[3] = "Write" /\ Governed[4] = "Release"
          /\ Governed[5] = "Commit"
      BY DEF Governed
    <2>3. ASSUME NEW n \in 1..5 PROVE StepAt(j, n, Governed[n])
      <3>1. n \in {1, 2, 3, 4, 5}
        OBVIOUS
      <3> QED
        BY <1>2, <2>2, <3>1 DEF StepAt
    <2> QED
      BY <2>1, <2>3
  <1>3. CASE j = "multi"
    <2>1. Program[j] = Multi /\ Len(Multi) = 3 /\ Last(j) = 3
      BY <1>3 DEF Program, Multi, Last
    <2>2. /\ Multi[1] = "Open" /\ Multi[2] = "Write" /\ Multi[3] = "Commit"
      BY DEF Multi
    <2>3. ASSUME NEW n \in 1..3 PROVE StepAt(j, n, Multi[n])
      <3>1. n \in {1, 2, 3}
        OBVIOUS
      <3> QED
        BY <1>3, <2>2, <3>1 DEF StepAt
    <2> QED
      BY <2>1, <2>3
  <1>4. CASE j = "script"
    <2>1. Program[j] = Script /\ Len(Script) = 6 /\ Last(j) = 6
      BY <1>4 DEF Program, Script, Last
    <2>2. /\ Script[1] = "Shared" /\ Script[2] = "Open" /\ Script[3] = "Create" /\ Script[4] = "Write"
          /\ Script[5] = "Commit" /\ Script[6] = "Release"
      BY DEF Script
    <2>3. ASSUME NEW n \in 1..6 PROVE StepAt(j, n, Script[n])
      <3>1. n \in {1, 2, 3, 4, 5, 6}
        BY SMTT(20), Z3T(20)
      <3> QED
        BY <1>4, <2>2, <3>1 DEF StepAt
    <2> QED
      BY <2>1, <2>3
  <1>5. CASE j = "import"
    <2>1. Program[j] = Import /\ Len(Import) = 5 /\ Last(j) = 5
      BY <1>5 DEF Program, Import, Last
    <2>2. /\ Import[1] = "Shared" /\ Import[2] = "Open" /\ Import[3] = "Import" /\ Import[4] = "Commit"
          /\ Import[5] = "Release"
      BY DEF Import
    <2>3. ASSUME NEW n \in 1..5 PROVE StepAt(j, n, Import[n])
      <3>1. n \in {1, 2, 3, 4, 5}
        OBVIOUS
      <3> QED
        BY <1>5, <2>2, <3>1 DEF StepAt
    <2> QED
      BY <2>1, <2>3
  <1>6. CASE j = "create"
    <2>1. Program[j] = SysCreate /\ Len(SysCreate) = 5 /\ Last(j) = 5
      BY <1>6 DEF Program, SysCreate, Last
    <2>2. /\ SysCreate[1] = "Open" /\ SysCreate[2] = "Exclusive" /\ SysCreate[3] = "Create" /\ SysCreate[4] = "Release"
          /\ SysCreate[5] = "Commit"
      BY DEF SysCreate
    <2>3. ASSUME NEW n \in 1..5 PROVE StepAt(j, n, SysCreate[n])
      <3>1. n \in {1, 2, 3, 4, 5}
        OBVIOUS
      <3> QED
        BY <1>6, <2>2, <3>1 DEF StepAt
    <2> QED
      BY <2>1, <2>3
  <1>7. CASE j = "reindex"
    <2>1. Program[j] = SysReindex /\ Len(SysReindex) = 5 /\ Last(j) = 5
      BY <1>7 DEF Program, SysReindex, Last
    <2>2. /\ SysReindex[1] = "Open" /\ SysReindex[2] = "Exclusive" /\ SysReindex[3] = "Reindex" /\ SysReindex[4] = "Release"
          /\ SysReindex[5] = "Commit"
      BY DEF SysReindex
    <2>3. ASSUME NEW n \in 1..5 PROVE StepAt(j, n, SysReindex[n])
      <3>1. n \in {1, 2, 3, 4, 5}
        OBVIOUS
      <3> QED
        BY <1>7, <2>2, <3>1 DEF StepAt
    <2> QED
      BY <2>1, <2>3
  <1>8. CASE j = "drop"
    <2>1. Program[j] = SysDrop /\ Len(SysDrop) = 5 /\ Last(j) = 5
      BY <1>8 DEF Program, SysDrop, Last
    <2>2. /\ SysDrop[1] = "Open" /\ SysDrop[2] = "Shared" /\ SysDrop[3] = "Drop" /\ SysDrop[4] = "Release"
          /\ SysDrop[5] = "Commit"
      BY DEF SysDrop
    <2>3. ASSUME NEW n \in 1..5 PROVE StepAt(j, n, SysDrop[n])
      <3>1. n \in {1, 2, 3, 4, 5}
        OBVIOUS
      <3> QED
        BY <1>8, <2>2, <3>1 DEF StepAt
    <2> QED
      BY <2>1, <2>3
  <1>9. CASE j = "hnsw"
    <2>1. Program[j] = Nonblocking /\ Len(Nonblocking) = 14 /\ Last(j) = 14
      BY <1>9 DEF Program, Nonblocking, Last
    <2>2. /\ Nonblocking[1] = "Enlist" /\ Nonblocking[2] = "Exclusive" /\ Nonblocking[3] = "Open" /\ Nonblocking[4] = "Prepare"
          /\ Nonblocking[5] = "Commit" /\ Nonblocking[6] = "Release" /\ Nonblocking[7] = "Scan" /\ Nonblocking[8] = "Ingest"
          /\ Nonblocking[9] = "Exclusive" /\ Nonblocking[10] = "Open" /\ Nonblocking[11] = "Reconcile" /\ Nonblocking[12] = "Commit"
          /\ Nonblocking[13] = "Release" /\ Nonblocking[14] = "Delist"
      BY DEF Nonblocking
    <2>3. ASSUME NEW n \in 1..14 PROVE StepAt(j, n, Nonblocking[n])
      <3>1. n \in {1, 2, 3, 4, 5, 6, 7, 8, 9, 10, 11, 12, 13, 14}
        BY SMTT(20), Z3T(20)
      <3> QED
        BY <1>9, <2>2, <3>1 DEF StepAt
    <2> QED
      BY <2>1, <2>3
  <1> QED
    BY <1>1, <1>2, <1>3, <1>4, <1>5, <1>6, <1>7, <1>8, <1>9 DEF AllJobs, RocksJobs, StoreLockJobs

\* A running thread and where it is.
LEMMA Placed ==
  ASSUME Types, NEW p \in Procs, NEW step, At(p, step)
  PROVE  /\ proc[p] \in ProcType /\ proc[p].job \in AllJobs /\ proc[p].job # "idle"
         /\ StepAt(proc[p].job, proc[p].pc, step)
         /\ Len(Program[proc[p].job]) = Last(proc[p].job)
  <1>1. proc[p] \in ProcType
    BY DEF Types
  <1>2. proc[p].job \in AllJobs /\ proc[p].job # "idle"
    BY <1>1 DEF At, ProcType, AllJobs
  <1>3. proc[p].pc \in 1..Len(Program[proc[p].job]) /\ Program[proc[p].job][proc[p].pc] = step
    BY <1>2 DEF At, Types
  <1> QED
    BY <1>1, <1>2, <1>3, ProgramSteps

Alike(p) == \A r \in Procs : r # p => proc'[r] = proc[r]

LEMMA IdleType == Idle \in ProcType /\ Idle.job = "idle" /\ Idle.pc = 0 /\ Idle.tx = NoTx
  BY NoTxType, IndexAssumption, SMTT(20), Z3T(20) DEF Idle, ProcType, AnyId

LEMMA AdvanceFacts ==
  ASSUME Types, NEW p \in Procs, NEW q \in ProcType, Advance(p, q),
         q.job = proc[p].job, q.pc = proc[p].pc, q.job \in AllJobs, q.job # "idle"
  PROVE  /\ proc' \in [Procs -> ProcType] /\ Alike(p)
         /\ \A r \in Procs : proc'[r].job # "idle" => proc'[r].pc \in 1..Len(Program[proc'[r].job])
         /\ q.pc = Last(q.job) => proc'[p] = Idle
         /\ q.pc # Last(q.job) => /\ proc'[p].job = q.job /\ proc'[p].pc = q.pc + 1
                                  /\ proc'[p].tx = q.tx /\ proc'[p].id = q.id
                                  /\ proc'[p].seen = q.seen
  <1> DEFINE n == IF q.pc = Len(Program[q.job]) THEN Idle ELSE [q EXCEPT !.pc = @ + 1]
  <1>0. proc \in [Procs -> ProcType]
        /\ \A r \in Procs : proc[r].job # "idle" => proc[r].pc \in 1..Len(Program[proc[r].job])
    BY DEF Types
  <1>1. Len(Program[q.job]) = Last(q.job)
    BY ProgramSteps
  <1>2. q.pc \in Nat /\ q.pc + 1 \in Nat
    BY SMTT(20), Z3T(20) DEF ProcType
  <1>3. n \in ProcType
    BY <1>2, IdleType DEF ProcType
  <1>4. proc' = [proc EXCEPT ![p] = n]
    BY DEF Advance
  <1>5. q.pc # Last(q.job) => /\ n.job = q.job /\ n.pc = q.pc + 1 /\ n.tx = q.tx
                              /\ n.id = q.id /\ n.seen = q.seen
    BY <1>1 DEF ProcType
  <1>6. q.pc = Last(q.job) => n = Idle
    BY <1>1
  <1>7. n.job # "idle" => n.pc \in 1..Len(Program[n.job])
    <2>1. CASE q.pc = Last(q.job)
      BY <1>6, <2>1, IdleType, Zenon
    <2>2. CASE q.pc # Last(q.job)
      <3>1. q.pc \in 1..Last(q.job) /\ Last(q.job) \in Nat
        BY <1>0, <1>1 DEF Last
      <3> QED
        BY <1>1, <1>2, <1>5, <2>2, <3>1, SMTT(20), Z3T(20)
    <2> QED
      BY <2>1, <2>2
  <1> HIDE DEF n
  <1>8. proc'[p] = n /\ Alike(p) /\ proc' \in [Procs -> ProcType]
    BY <1>0, <1>3, <1>4 DEF Alike
  <1>9. \A r \in Procs : proc'[r].job # "idle" => proc'[r].pc \in 1..Len(Program[proc'[r].job])
    BY <1>0, <1>7, <1>8, Zenon DEF Alike
  <1> QED
    BY <1>5, <1>6, <1>8, <1>9

-----------------------------------------------------------------------------
(* What statements make of their transaction. *)

LEMMA SeenFacts ==
  ASSUME NEW tx
  PROVE  /\ RowsSeen(tx) = After(rows, tx)
         /\ \A k \in Keys : Row(tx, k) = After(rows, tx)[k]
         /\ \A id : IdxSeen(tx, id) = Seen(idx[id], tx, id)
  BY DEF RowsSeen, Row, After, IdxSeen, Seen, Puts, Dels

LEMMA CatSeen ==
  ASSUME Types, NEW tx \in TxType
  PROVE  Cat(tx) \in CatType /\ Cat(tx).pub \in AnyId /\ Cat(tx).named \in AnyId /\ Cat(tx).next \in Nat
  <1>1. Cat(tx) \in CatType
    BY DEF Types, TxType, Cat
  <1> QED
    BY <1>1 DEF CatType

\* Everything of the transaction but its rows, its entries and its warning.
Rest(t, tx) ==
  t.open = tx.open /\ t.stale = tx.stale /\ t.cat = tx.cat /\ t.locked = tx.locked /\ t.heals = tx.heals

LEMMA RowFacts ==
  ASSUME NEW tx \in TxType, NEW k \in Keys, NEW v \in Vals \union {0}, NEW t, t = WithRow(tx, k, v)
  PROVE  /\ t \in TxType /\ Rest(t, tx) /\ t.warned = tx.warned
         /\ t.put = tx.put /\ t.del = tx.del
         /\ \A j \in Keys : t.row[j] = IF j = k THEN v ELSE tx.row[j]
  <1>1. tx.row \in [Keys -> Vals \union {0, Same}]
    BY DEF TxType
  <1>2. [tx.row EXCEPT ![k] = v] \in [Keys -> Vals \union {0, Same}]
    BY <1>1
  <1>3. t = [tx EXCEPT !.row = [tx.row EXCEPT ![k] = v]]
    BY DEF WithRow
  <1>4. t \in TxType /\ Rest(t, tx) /\ t.warned = tx.warned /\ t.put = tx.put /\ t.del = tx.del
        /\ t.row = [tx.row EXCEPT ![k] = v]
    BY <1>2, <1>3 DEF TxType, Rest
  <1> QED
    BY <1>1, <1>4

\* The entries of a row that is given the value v and was old.
Maintains(t, tx, id, k, old, v) ==
  \A i \in AnyId, e \in Entries :
    /\ Puts(t, i, e) <=> \/ Puts(tx, i, e) /\ ~(i = id /\ e[1] = k /\ e[2] = old /\ old # v)
                         \/ i = id /\ e[1] = k /\ e[2] = v
    /\ Dels(t, i, e) <=> /\ Dels(tx, i, e) \/ (i = id /\ e[1] = k /\ e[2] = old /\ old # v)
                         /\ ~(i = id /\ e[1] = k /\ e[2] = v)

LEMMA EntryFacts ==
  ASSUME Types, NEW tx \in TxType, NEW k \in Keys, NEW v \in Vals \union {0},
         NEW t, t = WithRow(WithEntry(tx, k, v), k, v)
  PROVE  /\ t \in TxType /\ Rest(t, tx) /\ t.warned = tx.warned
         /\ \A j \in Keys : t.row[j] = IF j = k THEN v ELSE tx.row[j]
         /\ Maintains(t, tx, Cat(tx).pub, k, After(rows, tx)[k], v)
  <1> DEFINE r == After(rows, tx)[k]
             id == Cat(tx).pub
             old == IF r \in {0, v} THEN {} ELSE {<<k, r>>}
             new == IF v = 0 THEN {} ELSE {<<k, v>>}
             d == Del(tx, id, old)
             u == Put(d, id, new)
  <1>0. r \in Vals \union {0} /\ id \in AnyId /\ \A x \in Vals : x # 0
    BY AfterType, CatSeen, IndexAssumption, SMTT(20), Z3T(20) DEF Types, RowsType
  <1>1. old \in SUBSET Entries /\ new \in SUBSET Entries
    BY <1>0, SMTT(20), Z3T(20) DEF Entries
  <1>2. \A e \in Entries : /\ e \in old <=> e[1] = k /\ e[2] = r /\ r # v
                           /\ e \in new <=> e[1] = k /\ e[2] = v
    BY <1>0, SMTT(20), Z3T(20) DEF Entries
  <1>3. WithEntry(tx, k, v) = u
    BY SeenFacts DEF WithEntry
  <1>4. d = Del(tx, id, old)
    OBVIOUS
  <1>5. u = Put(d, id, new)
    OBVIOUS
  <1> HIDE DEF old, new, d, u, id, r
  <1>6. /\ d \in TxType /\ Rest(d, tx) /\ d.warned = tx.warned /\ d.row = tx.row
        /\ \A i \in AnyId, e \in Entries :
              /\ Puts(d, i, e) <=> Puts(tx, i, e) /\ ~(i = id /\ e \in old)
              /\ Dels(d, i, e) <=> Dels(tx, i, e) \/ (i = id /\ e \in old)
    BY <1>0, <1>1, <1>4, DelFacts, SMTT(20), Z3T(20) DEF Rest
  <1>7. /\ u \in TxType /\ Rest(u, d) /\ u.warned = d.warned /\ u.row = d.row
        /\ \A i \in AnyId, e \in Entries :
              /\ Puts(u, i, e) <=> Puts(d, i, e) \/ (i = id /\ e \in new)
              /\ Dels(u, i, e) <=> Dels(d, i, e) /\ ~(i = id /\ e \in new)
    BY <1>0, <1>1, <1>5, <1>6, PutFacts, SMTT(20), Z3T(20) DEF Rest
  <1>8. t = WithRow(u, k, v)
    BY <1>3
  <1>9. /\ t \in TxType /\ Rest(t, u) /\ t.warned = u.warned
        /\ t.put = u.put /\ t.del = u.del
        /\ \A j \in Keys : t.row[j] = IF j = k THEN v ELSE u.row[j]
    BY <1>7, <1>8, RowFacts, SMTT(20), Z3T(20)
  <1>10. \A i \in AnyId, e \in Entries : (Puts(t, i, e) <=> Puts(u, i, e)) /\ (Dels(t, i, e) <=> Dels(u, i, e))
    BY <1>9 DEF Puts, Dels
  <1>11. Maintains(t, tx, id, k, r, v)
    BY <1>2, <1>6, <1>7, <1>10, Zenon DEF Maintains
  <1>12. Rest(t, tx)
    BY <1>6, <1>7, <1>9 DEF Rest
  <1> QED
    BY <1>6, <1>7, <1>9, <1>11, <1>12 DEF id, r

\* The transaction takes the catalog row, and may change it.
Takes(t, tx) ==
  t.open = tx.open /\ t.stale = tx.stale /\ t.row = tx.row /\ t.warned = tx.warned /\ t.locked = {CatThing}

Taking(tx, c, h) == [tx EXCEPT !.cat = c, !.locked = @ \union {CatThing}, !.heals = h]

LEMMA LockFacts ==
  ASSUME NEW tx \in TxType, NEW c \in CatType \union {NoCat}, NEW h \in BOOLEAN
  PROVE  /\ Taking(tx, c, h) \in TxType /\ Takes(Taking(tx, c, h), tx)
         /\ Taking(tx, c, h).cat = c /\ Taking(tx, c, h).heals = h
         /\ Taking(tx, c, h).put = tx.put /\ Taking(tx, c, h).del = tx.del
  <1>1. tx.locked \union {CatThing} = {CatThing}
    BY DEF TxType
  <1> QED
    BY <1>1, Zenon DEF TxType, Takes, Taking

-----------------------------------------------------------------------------
(* The kinds of steps, by what they change. *)

In(p, step) == proc[p].job \in AllJobs /\ StepAt(proc[p].job, proc[p].pc, step)

\* The same, of the thread that takes the step.
LEMMA InFacts ==
  ASSUME NEW p
  PROVE  /\ \A s : In(p, s) => proc[p].job \in AllJobs
         /\ In(p, "Shared") => \/ proc[p].job \in {"single", "script", "import"} /\ proc[p].pc = 1
                               \/ proc[p].job \in {"governed", "drop"} /\ proc[p].pc = 2
         /\ In(p, "Exclusive") => \/ proc[p].job \in {"create", "reindex"} /\ proc[p].pc = 2
                                  \/ proc[p].job = "hnsw" /\ proc[p].pc \in {2, 9}
         /\ In(p, "Open") => \/ proc[p].job \in {"single", "script", "import"} /\ proc[p].pc = 2
                             \/ proc[p].job \in {"governed", "multi", "create", "reindex", "drop"} /\ proc[p].pc = 1
                             \/ proc[p].job = "hnsw" /\ proc[p].pc \in {3, 10}
         /\ In(p, "Write") => \/ proc[p].job \in {"single", "governed"} /\ proc[p].pc = 3
                              \/ proc[p].job = "multi" /\ proc[p].pc = 2
                              \/ proc[p].job = "script" /\ proc[p].pc = 4
         /\ In(p, "Import") => proc[p].job = "import" /\ proc[p].pc = 3
         /\ In(p, "Create") => proc[p].job \in {"script", "create"} /\ proc[p].pc = 3
         /\ In(p, "Reindex") => proc[p].job = "reindex" /\ proc[p].pc = 3
         /\ In(p, "Drop") => proc[p].job = "drop" /\ proc[p].pc = 3
         /\ In(p, "Release") => \/ proc[p].job \in {"single", "import"} /\ proc[p].pc = 5
                                \/ proc[p].job = "script" /\ proc[p].pc = 6
                                \/ proc[p].job \in {"governed", "create", "reindex", "drop"} /\ proc[p].pc = 4
                                \/ proc[p].job = "hnsw" /\ proc[p].pc \in {6, 13}
         /\ In(p, "Commit") => \/ proc[p].job \in {"single", "import"} /\ proc[p].pc = 4
                               \/ proc[p].job = "multi" /\ proc[p].pc = 3
                               \/ proc[p].job \in {"script", "governed", "create", "reindex", "drop"} /\ proc[p].pc = 5
                               \/ proc[p].job = "hnsw" /\ proc[p].pc \in {5, 12}
         /\ In(p, "Enlist") => proc[p].job = "hnsw" /\ proc[p].pc = 1
         /\ In(p, "Prepare") => proc[p].job = "hnsw" /\ proc[p].pc = 4
         /\ In(p, "Scan") => proc[p].job = "hnsw" /\ proc[p].pc = 7
         /\ In(p, "Ingest") => proc[p].job = "hnsw" /\ proc[p].pc = 8
         /\ In(p, "Reconcile") => proc[p].job = "hnsw" /\ proc[p].pc = 11
         /\ In(p, "Delist") => proc[p].job = "hnsw" /\ proc[p].pc = 14
  BY Zenon DEF In, StepAt

Statements == {"Open", "Write", "Import", "Create", "Reindex", "Drop", "Prepare", "Reconcile"}

\* A job ends with its commit, with the release of its lock or by leaving the build.
LEMMA NotLast ==
  ASSUME NEW p, NEW s \in Statements \union {"Shared", "Exclusive", "Enlist", "Scan", "Ingest"}, In(p, s)
  PROVE  proc[p].pc # Last(proc[p].job)
  <1>1. CASE s = "Shared"
    BY <1>1, InFacts, LastIs, SMTT(20), Z3T(20)
  <1>2. CASE s = "Exclusive"
    BY <1>2, InFacts, LastIs, SMTT(20), Z3T(20)
  <1>3. CASE s = "Open"
    BY <1>3, InFacts, LastIs, SMTT(20), Z3T(20)
  <1>4. CASE s = "Write"
    BY <1>4, InFacts, LastIs, SMTT(20), Z3T(20)
  <1>5. CASE s \in {"Import", "Create", "Reindex", "Drop"}
    <2>1. proc[p].pc = 3 /\ proc[p].job \in {"import", "script", "create", "reindex", "drop"}
      BY <1>5, InFacts, Zenon
    <2> QED
      BY <2>1, LastIs, SMTT(20), Z3T(20)
  <1>6. CASE s \in {"Enlist", "Prepare", "Scan", "Ingest", "Reconcile"}
    <2>1. proc[p].job = "hnsw" /\ (proc[p].pc = 1 \/ proc[p].pc = 4 \/ proc[p].pc = 7 \/ proc[p].pc = 8 \/ proc[p].pc = 11)
      BY <1>6, InFacts, Zenon
    <2> QED
      BY <2>1, LastIs, SMTT(20), Z3T(20)
  <1> QED
    BY <1>1, <1>2, <1>3, <1>4, <1>5, <1>6, Zenon DEF Statements

Keeps == UNCHANGED <<setting, rows, idx, cat, stranded>>
Moves(p) == Alike(p) /\ proc'[p].job = proc[p].job /\ proc'[p].pc = proc[p].pc + 1

\* The lock, the in-progress mark, or the scan of an HNSW build.
Slides(p) ==
  /\ Keeps /\ Moves(p) /\ proc'[p].tx = proc[p].tx /\ proc'[p].id = proc[p].id
  /\ ~In(p, "Scan") => proc'[p].seen = proc[p].seen
  /\ \/ /\ In(p, "Shared") /\ lock.excl = Nobody /\ building' = building
        /\ lock'.shared = lock.shared \union {p} /\ lock'.excl = lock.excl
     \/ /\ In(p, "Exclusive") /\ lock.excl = Nobody /\ lock.shared = {} /\ building' = building
        /\ lock'.shared = {} /\ lock'.excl = p
     \/ In(p, "Release") /\ lock' = Without(p) /\ building' = building
     \/ In(p, "Enlist") /\ lock' = lock /\ ~building /\ building'
     \/ In(p, "Scan") /\ lock' = lock /\ building' = building /\ proc'[p].seen = EntriesOf(rows)

\* The end of a job, good or bad, or the start of one.
Ends(p) ==
  /\ Keeps /\ Alike(p) /\ proc'[p].tx = NoTx
  /\ proc'[p].job \in setting.jobs \union {"idle"} /\ proc'[p].pc \in {0, 1}
  /\ proc'[p].job # "idle" => proc'[p].pc = 1
  /\ lock' = lock \/ lock' = Without(p)
  /\ \/ building' = building
     \/ proc[p].job = "hnsw" /\ (proc[p].tx.open \/ proc[p].pc > 1) /\ ~building'
  /\ proc[p].job # "idle" => proc'[p].job = "idle"

Opens(p) ==
  /\ Keeps /\ Moves(p) /\ proc'[p].id = proc[p].id /\ proc'[p].seen = proc[p].seen
  /\ lock' = lock /\ building' = building
  /\ In(p, "Open") /\ (Engine!Exclusive => OpenTxs = {})
  /\ proc'[p].tx = [NoTx EXCEPT !.open = TRUE]

PutsRow(t, tx, k, v) ==
  /\ Rest(t, tx) /\ \A j \in Keys : t.row[j] = IF j = k THEN v ELSE tx.row[j]
  /\ \/ Cat(tx).pub = 0 /\ t.put = tx.put /\ t.del = tx.del /\ t.warned = tx.warned
     \/ Cat(tx).pub # 0 /\ t.put = tx.put /\ t.del = tx.del /\ t.warned
     \/ Cat(tx).pub # 0 /\ t.warned = tx.warned
          /\ Maintains(t, tx, Cat(tx).pub, k, After(rows, tx)[k], v)

MakesIndex(t, tx, c) ==
  /\ c.pub = 0 /\ c.next \in Ids
  /\ Takes(t, tx) /\ t.heals
  /\ t.cat \in CatType /\ t.cat.pub = c.next /\ t.cat.named = c.next /\ t.cat.next = c.next + 1
  /\ \A i \in AnyId, e \in Entries :
       /\ Puts(t, i, e) <=> Puts(tx, i, e) \/ (i = c.next /\ Holds(After(rows, tx), e))
       /\ Dels(t, i, e) <=> Dels(tx, i, e) /\ ~(i = c.next /\ Holds(After(rows, tx), e))

Rebuilds(t, tx, c) ==
  /\ Takes(t, tx) /\ t.cat = tx.cat
  /\ \/ (c.pub = 0 \/ c.kind = "tree") /\ t.heals = tx.heals /\ t.put = tx.put /\ t.del = tx.del
     \/ /\ c.pub # 0 /\ t.heals
        /\ \A i \in AnyId, e \in Entries :
             /\ Puts(t, i, e) <=> IF i = c.pub THEN Holds(After(rows, tx), e) ELSE Puts(tx, i, e)
             /\ Dels(t, i, e) <=> IF i = c.pub THEN /\ Dels(tx, i, e) \/ e \in Seen(idx[i], tx, i)
                                                    /\ ~Holds(After(rows, tx), e)
                                  ELSE Dels(tx, i, e)

DropsIndex(t, tx, c) ==
  /\ c.pub # 0 /\ c.named # 0
  /\ Takes(t, tx) /\ t.heals = tx.heals /\ t.cat = [c EXCEPT !.pub = 0, !.named = 0]
  /\ \A i \in AnyId, e \in Entries :
       /\ Puts(t, i, e) <=> Puts(tx, i, e) /\ i # c.named
       /\ Dels(t, i, e) <=> Dels(tx, i, e) \/ (i = c.named /\ e \in Seen(idx[i], tx, i))

Publishes(t, tx, c, id, seen) ==
  /\ c.pub = 0
  /\ Takes(t, tx) /\ t.heals /\ t.cat = [c EXCEPT !.pub = id, !.kind = "search"]
  /\ \A i \in AnyId, e \in Entries :
       /\ Puts(t, i, e) <=>
            \/ Puts(tx, i, e) /\ ~(i = id /\ e \in seen /\ ~Holds(After(rows, tx), e))
            \/ i = id /\ e \notin seen /\ Holds(After(rows, tx), e)
       /\ Dels(t, i, e) <=>
            /\ Dels(tx, i, e) \/ (i = id /\ e \in seen /\ ~Holds(After(rows, tx), e))
            /\ ~(i = id /\ e \notin seen /\ Holds(After(rows, tx), e))

\* A statement in the transaction.
InPlace(p) ==
  Keeps /\ Moves(p) /\ proc'[p].seen = proc[p].seen /\ lock' = lock /\ building' = building

Writes(p) ==
  /\ InPlace(p) /\ proc'[p].id = proc[p].id /\ (In(p, "Write") \/ In(p, "Import"))
  /\ \E k \in Keys, v \in Vals \union {0} : PutsRow(proc'[p].tx, proc[p].tx, k, v)

Defines(p) ==
  /\ InPlace(p) /\ CatFree(p)
  /\ ~In(p, "Prepare") => proc'[p].id = proc[p].id
  /\ \/ In(p, "Create") /\ MakesIndex(proc'[p].tx, proc[p].tx, Cat(proc[p].tx))
     \/ In(p, "Reindex") /\ Rebuilds(proc'[p].tx, proc[p].tx, Cat(proc[p].tx))
     \/ In(p, "Drop") /\ DropsIndex(proc'[p].tx, proc[p].tx, Cat(proc[p].tx))
     \/ /\ In(p, "Prepare") /\ Takes(proc'[p].tx, proc[p].tx)
        /\ proc'[p].tx.put = proc[p].tx.put /\ proc'[p].tx.del = proc[p].tx.del
        /\ proc'[p].tx.heals = proc[p].tx.heals
        /\ Cat(proc[p].tx).pub = 0 /\ Cat(proc[p].tx).next \in Ids
        /\ proc'[p].id = Cat(proc[p].tx).next /\ proc'[p].tx.cat = Named(Cat(proc[p].tx))
     \/ In(p, "Reconcile") /\ Cat(proc[p].tx).pub # 0
     \/ In(p, "Reconcile") /\ Publishes(proc'[p].tx, proc[p].tx, Cat(proc[p].tx), proc[p].id, proc[p].seen)

Ingests(p) ==
  /\ In(p, "Ingest") /\ Moves(p) /\ UNCHANGED <<setting, rows, cat, stranded, lock, building>>
  /\ proc'[p].tx = proc[p].tx /\ proc'[p].id = proc[p].id /\ proc'[p].seen = proc[p].seen
  /\ idx' = [idx EXCEPT ![proc[p].id] = @ \union proc[p].seen]

\* What the commit of tx makes of another open transaction.
Overtaken(t, u, tx) ==
  /\ t.open = u.open /\ t.row = u.row /\ t.put = u.put /\ t.del = u.del /\ t.cat = u.cat
  /\ t.locked = u.locked /\ t.warned = u.warned
  /\ t.stale = u.stale \union Written(tx) /\ t.heals = (u.heals /\ ~tx.warned)

Commits(p) ==
  /\ In(p, "Commit") /\ UNCHANGED <<setting, lock, building>>
  /\ Engine!Validates => (Written(proc[p].tx) \union proc[p].tx.locked) \intersect proc[p].tx.stale = {}
  /\ rows' = After(rows, proc[p].tx)
  /\ idx' = [i \in Ids |-> Seen(idx[i], proc[p].tx, i)]
  /\ cat' = Cat(proc[p].tx)
  /\ stranded' = (proc[p].tx.warned \/ (stranded /\ ~proc[p].tx.heals))
  /\ proc'[p].tx = NoTx
  /\ proc[p].pc = Last(proc[p].job) => proc'[p] = Idle
  /\ proc[p].pc # Last(proc[p].job) =>
       /\ proc'[p].job = proc[p].job /\ proc'[p].pc = proc[p].pc + 1
       /\ proc'[p].id = proc[p].id /\ proc'[p].seen = proc[p].seen
  /\ \A r \in Procs : r # p =>
       /\ ~proc[r].tx.open => proc'[r] = proc[r]
       /\ proc'[r].job = proc[r].job /\ proc'[r].pc = proc[r].pc
       /\ proc'[r].id = proc[r].id /\ proc'[r].seen = proc[r].seen
       /\ proc[r].tx.open => Overtaken(proc'[r].tx, proc[r].tx, proc[p].tx)

Crashes ==
  /\ Keeps /\ proc' = [p \in Procs |-> Idle]
  /\ lock'.shared = {} /\ lock'.excl = Nobody /\ ~building'

Kind(p) ==
  Slides(p) \/ Ends(p) \/ Opens(p) \/ Writes(p) \/ Defines(p) \/ Ingests(p) \/ Commits(p)

-----------------------------------------------------------------------------
(* Every step is of one of these kinds, and keeps the types. *)

\* What the steps that move one thread on have in common.
LEMMA MoveTypes ==
  ASSUME Types, proc' \in [Procs -> ProcType],
         \A r \in Procs : proc'[r].job # "idle" => proc'[r].pc \in 1..Len(Program[proc'[r].job]),
         UNCHANGED <<setting, rows, idx, cat, stranded>>,
         lock' \in [shared : SUBSET Procs, excl : Procs \union {Nobody}], building' \in BOOLEAN
  PROVE  Types'
  BY Zenon DEF Types

LEMMA WithoutType ==
  ASSUME Types, NEW p \in Procs
  PROVE  /\ Without(p) \in [shared : SUBSET Procs, excl : Procs \union {Nobody}]
         /\ Without(p).shared = lock.shared \ {p}
         /\ Without(p).excl = IF lock.excl = p THEN Nobody ELSE lock.excl
  BY DEF Without, Types

LEMMA SlideKinds ==
  ASSUME Types, NEW p \in Procs,
         Shared(p) \/ Exclusive(p) \/ Release(p) \/ Scan(p) \/ Delist(p) \/ Enlist(p)
  PROVE  Types' /\ (Slides(p) \/ Ends(p))
  <1>0. lock \in [shared : SUBSET Procs, excl : Procs \union {Nobody}] /\ building \in BOOLEAN
    BY DEF Types
  <1> DEFINE Advanced == /\ proc' \in [Procs -> ProcType] /\ Alike(p)
                         /\ \A r \in Procs : proc'[r].job # "idle" => proc'[r].pc \in 1..Len(Program[proc'[r].job])
             Ended == proc[p].pc = Last(proc[p].job) /\ proc'[p] = Idle
             Moved == proc[p].pc # Last(proc[p].job) /\ Moves(p) /\ proc'[p].tx = proc[p].tx /\ proc'[p].id = proc[p].id
  <1>1. ASSUME NEW step, At(p, step), Advance(p, proc[p])
        PROVE  Advanced /\ In(p, step) /\ (Ended \/ (Moved /\ proc'[p].seen = proc[p].seen))
    <2>1. /\ proc[p] \in ProcType /\ proc[p].job \in AllJobs /\ proc[p].job # "idle"
          /\ StepAt(proc[p].job, proc[p].pc, step)
      BY <1>1, Placed, Zenon
    <2> QED
      BY <1>1, <2>1, AdvanceFacts, Zenon DEF In, Moves
  <1>2. ASSUME Ended, Advanced, Keeps, lock' = Without(p) \/ lock' = lock,
               building' = building \/ (In(p, "Delist") /\ ~building'),
               proc[p].job # "idle"
        PROVE  Ends(p)
    <2>1. In(p, "Delist") => proc[p].job = "hnsw" /\ proc[p].pc > 1
      BY InFacts, SMTT(20), Z3T(20)
    <2> QED
      BY <1>2, <2>1, IdleType, Zenon, SMTT(20) DEF Ends
  <1>3. CASE Shared(p)
    <2>1. At(p, "Shared") /\ Advance(p, proc[p]) /\ Keeps /\ building' = building /\ lock.excl = Nobody
      BY <1>3 DEF Shared, Keeps
    <2>2. lock' = [lock EXCEPT !.shared = @ \union {p}]
      BY <1>3 DEF Shared
    <2>3. /\ lock' \in [shared : SUBSET Procs, excl : Procs \union {Nobody}]
          /\ lock'.shared = lock.shared \union {p} /\ lock'.excl = lock.excl
      BY <1>0, <2>2
    <2>4. Advanced /\ In(p, "Shared") /\ (Ended \/ (Moved /\ proc'[p].seen = proc[p].seen))
      BY <1>1, <2>1, Zenon
    <2>5. ~Ended
      BY <2>4, NotLast, Zenon, SMTT(20)
    <2> QED
      BY <1>0, <2>1, <2>3, <2>4, <2>5, MoveTypes DEF Slides, Keeps
  <1>4. CASE Exclusive(p)
    <2>1. /\ At(p, "Exclusive") /\ Advance(p, proc[p]) /\ Keeps /\ building' = building
          /\ lock.excl = Nobody /\ lock.shared = {}
      BY <1>4 DEF Exclusive, Keeps
    <2>2. lock' = [lock EXCEPT !.excl = p]
      BY <1>4 DEF Exclusive
    <2>3. /\ lock' \in [shared : SUBSET Procs, excl : Procs \union {Nobody}]
          /\ lock'.shared = {} /\ lock'.excl = p
      BY <1>0, <2>1, <2>2
    <2>4. Advanced /\ In(p, "Exclusive") /\ (Ended \/ (Moved /\ proc'[p].seen = proc[p].seen))
      BY <1>1, <2>1, Zenon
    <2>5. ~Ended
      BY <2>4, NotLast, Zenon
    <2> QED
      BY <1>0, <2>1, <2>3, <2>4, <2>5, MoveTypes DEF Slides, Keeps
  <1>5. CASE Release(p)
    <2>1. At(p, "Release") /\ Advance(p, proc[p]) /\ Keeps /\ building' = building /\ lock' = Without(p)
      BY <1>5 DEF Release, Keeps
    <2>4. Advanced /\ In(p, "Release") /\ (Ended \/ (Moved /\ proc'[p].seen = proc[p].seen))
      BY <1>1, <2>1, Zenon
    <2>5. Types'
      BY <1>0, <2>1, <2>4, WithoutType, MoveTypes, Zenon DEF Keeps
    <2>6. CASE Ended
      BY <1>2, <2>1, <2>4, <2>5, <2>6, Zenon DEF At
    <2>7. CASE Moved /\ proc'[p].seen = proc[p].seen
      BY <2>1, <2>4, <2>5, <2>7, Zenon, SMTT(20) DEF Slides
    <2> QED
      BY <2>4, <2>6, <2>7
  <1>6. CASE Scan(p)
    <2>0. proc[p] \in ProcType
      BY DEF Types
    <2> DEFINE q == [proc[p] EXCEPT !.seen = EntriesOf(rows)]
    <2>1. At(p, "Scan") /\ Advance(p, q) /\ Keeps /\ building' = building /\ lock' = lock
      BY <1>6 DEF Scan, Keeps
    <2>2. In(p, "Scan") /\ proc[p].job \in AllJobs /\ proc[p].job # "idle"
      BY <2>1, Placed, Zenon DEF In
    <2>3. EntriesOf(rows) \in SUBSET Entries
      BY EntryIff DEF Types
    <2>4. /\ q \in ProcType /\ q.job = proc[p].job /\ q.pc = proc[p].pc /\ q.tx = proc[p].tx
          /\ q.id = proc[p].id /\ q.seen = EntriesOf(rows)
      BY <2>0, <2>3 DEF ProcType
    <2>5. proc[p].pc # Last(proc[p].job)
      BY <2>2, NotLast, Zenon
    <2> HIDE DEF q
    <2>6. Advanced /\ Moves(p) /\ proc'[p].tx = proc[p].tx /\ proc'[p].id = proc[p].id
          /\ proc'[p].seen = EntriesOf(rows)
      BY <2>1, <2>2, <2>4, <2>5, AdvanceFacts, Zenon, SMTT(20) DEF Moves
    <2> QED
      BY <1>0, <2>1, <2>2, <2>6, MoveTypes, Zenon DEF Slides, Keeps
  <1>7. CASE Delist(p)
    <2>1. At(p, "Delist") /\ Advance(p, proc[p]) /\ Keeps /\ ~building' /\ lock' = lock /\ building' \in BOOLEAN
      BY <1>7, Zenon DEF Delist, Keeps
    <2>4. Advanced /\ In(p, "Delist") /\ (Ended \/ Moved)
      BY <1>1, <2>1, Zenon
    <2>5. Types'
      BY <1>0, <2>1, <2>4, MoveTypes, Zenon DEF Keeps
    <2>6. proc[p].pc = Last(proc[p].job)
      BY <2>4, InFacts, LastIs, Zenon
    <2> QED
      BY <1>2, <2>1, <2>4, <2>5, <2>6 DEF At
  <1>8. CASE Enlist(p)
    <2>1. At(p, "Enlist") /\ Keeps /\ lock' = lock
      BY <1>8 DEF Enlist, Keeps
    <2>2. In(p, "Enlist") /\ proc[p].job # "idle"
      BY <2>1, Placed, Zenon, SMTT(20) DEF In
    <2>3. CASE building
      <3>1. proc' = [proc EXCEPT ![p] = Idle] /\ building' = building
        BY <1>8, <2>3 DEF Enlist
      <3>2. proc \in [Procs -> ProcType]
            /\ \A r \in Procs : proc[r].job # "idle" => proc[r].pc \in 1..Len(Program[proc[r].job])
        BY DEF Types
      <3>3. proc' \in [Procs -> ProcType] /\ proc'[p] = Idle /\ Alike(p)
        BY <3>1, <3>2, IdleType DEF Alike
      <3>4. \A r \in Procs : proc'[r].job # "idle" => proc'[r].pc \in 1..Len(Program[proc'[r].job])
        BY <3>2, <3>3, IdleType, Zenon DEF Alike
      <3>5. Types'
        BY <1>0, <2>1, <3>1, <3>3, <3>4, MoveTypes, Zenon DEF Keeps
      <3> QED
        BY <2>1, <2>2, <3>1, <3>3, <3>5, IdleType DEF Ends
    <2>4. CASE ~building
      <3>1. Advance(p, proc[p]) /\ building' /\ building' \in BOOLEAN
        BY <1>8, <2>4 DEF Enlist
      <3>2. Advanced /\ (Ended \/ (Moved /\ proc'[p].seen = proc[p].seen))
        BY <1>1, <2>1, <3>1, Zenon
      <3>3. ~Ended
        BY <2>2, NotLast, Zenon
      <3>4. Types'
        BY <1>0, <2>1, <3>1, <3>2, MoveTypes, Zenon DEF Keeps
      <3> QED
        BY <2>1, <2>2, <2>4, <3>1, <3>2, <3>3, <3>4, Zenon DEF Slides
    <2> QED
      BY <2>3, <2>4
  <1> QED
    BY <1>3, <1>4, <1>5, <1>6, <1>7, <1>8

LEMMA EndKinds ==
  ASSUME Types, NEW p \in Procs,
         \/ proc[p].job # "idle" /\ Fail(p)
              /\ (proc[p].job = "hnsw" => proc[p].tx.open \/ proc[p].pc > 1)
         \/ setting.jobs \subseteq AllJobs /\ \E job \in setting.jobs : Call(p, job)
  PROVE  Types' /\ Ends(p)
  <1>0. /\ lock \in [shared : SUBSET Procs, excl : Procs \union {Nobody}] /\ building \in BOOLEAN
        /\ proc \in [Procs -> ProcType]
        /\ \A r \in Procs : proc[r].job # "idle" => proc[r].pc \in 1..Len(Program[proc[r].job])
    BY DEF Types
  <1>1. ASSUME NEW q \in ProcType, proc' = [proc EXCEPT ![p] = q],
               q.job # "idle" => q.pc \in 1..Len(Program[q.job])
        PROVE  /\ proc' \in [Procs -> ProcType] /\ proc'[p] = q /\ Alike(p)
               /\ \A r \in Procs : proc'[r].job # "idle" => proc'[r].pc \in 1..Len(Program[proc'[r].job])
    <2>1. proc' \in [Procs -> ProcType] /\ proc'[p] = q /\ Alike(p)
      BY <1>0, <1>1 DEF Alike
    <2> QED
      BY <1>0, <1>1, <2>1, Zenon DEF Alike
  <1>2. CASE proc[p].job # "idle" /\ Fail(p) /\ (proc[p].job = "hnsw" => proc[p].tx.open \/ proc[p].pc > 1)
    <2>1. /\ Keeps /\ lock' = Without(p) /\ proc' = [proc EXCEPT ![p] = Idle]
          /\ building' = (building /\ proc[p].job # "hnsw")
      BY <1>2 DEF Fail, Keeps
    <2>2. /\ proc' \in [Procs -> ProcType] /\ proc'[p] = Idle /\ Alike(p)
          /\ \A r \in Procs : proc'[r].job # "idle" => proc'[r].pc \in 1..Len(Program[proc'[r].job])
      BY <1>1, <2>1, IdleType, Zenon
    <2>3. Types'
      BY <1>0, <2>1, <2>2, WithoutType, MoveTypes, Zenon DEF Keeps
    <2> QED
      BY <1>0, <1>2, <2>1, <2>2, <2>3, IdleType, Zenon DEF Ends
  <1>3. ASSUME setting.jobs \subseteq AllJobs, NEW job \in setting.jobs, Call(p, job)
        PROVE  Types' /\ Ends(p)
    <2> DEFINE q == [Idle EXCEPT !.job = job, !.pc = 1]
    <2>1. Keeps /\ lock' = lock /\ building' = building /\ proc' = [proc EXCEPT ![p] = q] /\ proc[p].job = "idle"
      BY <1>3, Zenon DEF Call, Keeps
    <2>2. q \in ProcType /\ q.job = job /\ q.pc = 1 /\ q.tx = NoTx /\ job \in AllJobs
      BY <1>3, IdleType, Zenon DEF ProcType, AllJobs
    <2>3. q.pc \in 1..Len(Program[q.job])
      BY <2>2, ProgramSteps, SMTT(20), Z3T(20) DEF Last
    <2> HIDE DEF q
    <2>4. /\ proc' \in [Procs -> ProcType] /\ proc'[p] = q /\ Alike(p)
          /\ \A r \in Procs : proc'[r].job # "idle" => proc'[r].pc \in 1..Len(Program[proc'[r].job])
      BY <1>1, <2>1, <2>2, <2>3, Zenon
    <2>5. Types'
      BY <1>0, <2>1, <2>4, MoveTypes, Zenon DEF Keeps
    <2> QED
      BY <1>3, <2>1, <2>2, <2>4, <2>5 DEF Ends
  <1> QED
    BY <1>2, <1>3

\* A step of a transaction, and what becomes of the thread.
LEMMA InTxFacts ==
  ASSUME Types, NEW p \in Procs, NEW step, NEW t \in TxType, At(p, step),
         step \in Statements, NEW q \in ProcType,
         q.job = proc[p].job, q.pc = proc[p].pc, q.tx = t, q.seen = proc[p].seen,
         Advance(p, q), UNCHANGED <<setting, rows, idx, cat, stranded, lock, building, calls>>
  PROVE  Types' /\ InPlace(p) /\ In(p, step) /\ proc'[p].tx = t /\ proc'[p].id = q.id
  <1>1. In(p, step) /\ proc[p].job \in AllJobs /\ proc[p].job # "idle"
    BY Placed, Zenon DEF In
  <1>2. proc[p].pc # Last(proc[p].job)
    BY <1>1, NotLast, Zenon
  <1>3. /\ proc' \in [Procs -> ProcType] /\ Alike(p)
        /\ \A r \in Procs : proc'[r].job # "idle" => proc'[r].pc \in 1..Len(Program[proc'[r].job])
        /\ proc'[p].job = q.job /\ proc'[p].pc = q.pc + 1
        /\ proc'[p].tx = q.tx /\ proc'[p].id = q.id /\ proc'[p].seen = q.seen
    BY <1>1, <1>2, AdvanceFacts, Zenon
  <1>4. lock \in [shared : SUBSET Procs, excl : Procs \union {Nobody}] /\ building \in BOOLEAN
    BY Zenon DEF Types
  <1>5. Types'
    BY <1>3, <1>4, MoveTypes, Zenon
  <1> QED
    BY <1>1, <1>3, <1>5, Zenon DEF InPlace, Moves, Keeps

LEMMA WithTx ==
  ASSUME NEW q \in ProcType, NEW t \in TxType, NEW n, n = [q EXCEPT !.tx = t]
  PROVE  n \in ProcType /\ n.job = q.job /\ n.pc = q.pc /\ n.tx = t /\ n.id = q.id /\ n.seen = q.seen
  BY DEF ProcType

LEMMA StatementFacts ==
  ASSUME Types, NEW p \in Procs, NEW step, NEW t \in TxType, InTx(p, step, t),
         step \in Statements
  PROVE  Types' /\ InPlace(p) /\ In(p, step) /\ proc'[p].tx = t /\ proc'[p].id = proc[p].id
  <1> DEFINE q == [proc[p] EXCEPT !.tx = t]
  <1>1. At(p, step) /\ Advance(p, q) /\ UNCHANGED <<setting, rows, idx, cat, stranded, lock, building, calls>>
    BY DEF InTx
  <1>2. proc[p] \in ProcType
    BY DEF Types
  <1>3. q \in ProcType /\ q.job = proc[p].job /\ q.pc = proc[p].pc /\ q.tx = t /\ q.id = proc[p].id /\ q.seen = proc[p].seen
    BY <1>2, WithTx, SMTT(20), Z3T(20)
  <1> HIDE DEF q
  <1> QED
    BY <1>1, <1>3, InTxFacts

LEMMA OpenKind ==
  ASSUME Types, NEW p \in Procs, Open(p)
  PROVE  Types' /\ Opens(p)
  <1> DEFINE t == [NoTx EXCEPT !.open = TRUE]
  <1>1. t \in TxType
    BY NoTxType, Zenon DEF TxType
  <1>2. InTx(p, "Open", t) /\ (Engine!Exclusive => OpenTxs = {})
    BY DEF Open, InTx
  <1>3. proc'[p].tx = t /\ Types' /\ InPlace(p) /\ In(p, "Open") /\ proc'[p].id = proc[p].id
    BY <1>1, <1>2, StatementFacts, Zenon, SMTT(20) DEF Statements
  <1> QED
    BY <1>2, <1>3 DEF Opens, InPlace

LEMMA WriteKinds ==
  ASSUME Types, NEW p \in Procs, NEW k \in Keys, NEW v \in Vals \union {0},
         Write(p, k, v) \/ ImportRow(p, k, v)
  PROVE  Types' /\ Writes(p)
  <1> DEFINE tx == proc[p].tx
             a == WithRow(tx, k, v)
             b == WithRow(WithEntry(tx, k, v), k, v)
             w == [WithRow(tx, k, v) EXCEPT !.warned = TRUE]
  <1>1. tx \in TxType
    BY DEF Types, ProcType
  <1>2. /\ a \in TxType /\ Rest(a, tx) /\ a.warned = tx.warned /\ a.put = tx.put /\ a.del = tx.del
        /\ \A j \in Keys : a.row[j] = IF j = k THEN v ELSE tx.row[j]
    BY <1>1, RowFacts, SMTT(20), Z3T(20)
  <1>3. /\ b \in TxType /\ Rest(b, tx) /\ b.warned = tx.warned
        /\ \A j \in Keys : b.row[j] = IF j = k THEN v ELSE tx.row[j]
        /\ Maintains(b, tx, Cat(tx).pub, k, After(rows, tx)[k], v)
    BY <1>1, EntryFacts
  <1>4. w = [a EXCEPT !.warned = TRUE]
    OBVIOUS
  <1>5. \/ (Cat(tx).pub = 0) /\ (InTx(p, "Write", a) \/ InTx(p, "Import", a))
        \/ (Cat(tx).pub # 0) /\ (InTx(p, "Write", b) \/ InTx(p, "Import", b))
        \/ (Cat(tx).pub # 0) /\ InTx(p, "Import", w)
    BY DEF Write, ImportRow
  <1> HIDE DEF a, b, w
  <1>6. /\ w \in TxType /\ Rest(w, a) /\ w.warned /\ w.put = a.put /\ w.del = a.del /\ w.row = a.row
    BY <1>2, <1>4, Zenon DEF TxType, Rest
  <1> HIDE DEF tx
  <1>7. (Cat(tx).pub = 0 => PutsRow(a, tx, k, v)) /\ (Cat(tx).pub # 0 => PutsRow(b, tx, k, v) /\ PutsRow(w, tx, k, v))
    BY <1>2, <1>3, <1>6, Zenon, SMTT(20) DEF PutsRow, Rest
  <1>8. ASSUME NEW t \in TxType, PutsRow(t, tx, k, v), InTx(p, "Write", t) \/ InTx(p, "Import", t)
        PROVE  Types' /\ Writes(p)
    <2>1. Types' /\ InPlace(p) /\ (In(p, "Write") \/ In(p, "Import")) /\ proc'[p].tx = t /\ proc'[p].id = proc[p].id
      BY <1>8, StatementFacts DEF Statements
    <2> QED
      BY <1>8, <2>1, Zenon DEF Writes, tx
  <1> QED
    BY <1>2, <1>3, <1>5, <1>6, <1>7, <1>8, Zenon

LEMMA CatUpdates ==
  ASSUME NEW c \in CatType
  PROVE  /\ c.next \in Ids => /\ Named(c) \in CatType /\ Named(c).pub = c.pub
                              /\ Named(c).named = c.next /\ Named(c).next = c.next + 1
                              /\ Named(c).kind = c.kind
         /\ \A id \in AnyId, kind \in {"tree", "search"} :
              /\ [c EXCEPT !.pub = id, !.kind = kind] \in CatType
              /\ [c EXCEPT !.pub = id, !.kind = kind].pub = id
              /\ [c EXCEPT !.pub = id, !.kind = kind].named = c.named
              /\ [c EXCEPT !.pub = id, !.kind = kind].next = c.next
         /\ [c EXCEPT !.pub = 0, !.named = 0] \in CatType
         /\ [c EXCEPT !.pub = 0, !.named = 0].pub = 0
         /\ [c EXCEPT !.pub = 0, !.named = 0].named = 0
         /\ [c EXCEPT !.pub = 0, !.named = 0].next = c.next
  <1>1. 0 \in AnyId /\ Ids \subseteq AnyId
    BY IndexAssumption, SMTT(20), Z3T(20) DEF AnyId, Ids
  <1>2. ASSUME c.next \in Ids
        PROVE  /\ Named(c) \in CatType /\ Named(c).pub = c.pub
               /\ Named(c).named = c.next /\ Named(c).next = c.next + 1
               /\ Named(c).kind = c.kind
    <2>1. c.next \in AnyId /\ c.next + 1 \in Nat
      BY <1>1, <1>2, SMTT(20), Z3T(20) DEF CatType
    <2>2. Named(c) = [c EXCEPT !.named = c.next, !.next = c.next + 1]
      BY DEF Named
    <2> QED
      BY <2>1, <2>2, Zenon DEF CatType
  <1>3. ASSUME NEW id \in AnyId, NEW kind \in {"tree", "search"}
        PROVE  /\ [c EXCEPT !.pub = id, !.kind = kind] \in CatType
               /\ [c EXCEPT !.pub = id, !.kind = kind].pub = id
               /\ [c EXCEPT !.pub = id, !.kind = kind].named = c.named
               /\ [c EXCEPT !.pub = id, !.kind = kind].next = c.next
    BY Zenon DEF CatType
  <1>4. /\ [c EXCEPT !.pub = 0, !.named = 0] \in CatType
        /\ [c EXCEPT !.pub = 0, !.named = 0].pub = 0
        /\ [c EXCEPT !.pub = 0, !.named = 0].named = 0
        /\ [c EXCEPT !.pub = 0, !.named = 0].next = c.next
    BY <1>1, Zenon DEF CatType
  <1> QED
    BY <1>2, <1>3, <1>4, Zenon

LEMMA CreateKind ==
  ASSUME Types, NEW p \in Procs, NEW kind \in {"tree", "search"}, Create(p, kind)
  PROVE  Types' /\ Defines(p)
  <1> DEFINE tx == proc[p].tx
             c == Cat(tx)
             es == EntriesOf(RowsSeen(tx))
             u == Put(tx, c.next, es)
             n == [Named(c) EXCEPT !.pub = c.next, !.kind = kind]
             t == [u EXCEPT !.cat = n, !.locked = @ \union {CatThing}, !.heals = TRUE]
  <1>0. CatFree(p) /\ c.pub = 0 /\ c.next \in Ids /\ InTx(p, "Create", t)
    BY DEF Create
  <1>1. tx \in TxType
    BY DEF Types, ProcType
  <1>2. c \in CatType /\ Ids \subseteq AnyId
    BY <1>1, CatSeen, SMTT(20), Z3T(20) DEF AnyId, Ids
  <1>3. n \in CatType /\ n.pub = c.next /\ n.named = c.next /\ n.next = c.next + 1
    <2>1. Named(c) \in CatType /\ Named(c).named = c.next /\ Named(c).next = c.next + 1 /\ c.next \in AnyId
      BY <1>0, <1>2, CatUpdates, Zenon, SMTT(20)
    <2> QED
      BY <2>1, Zenon DEF CatType
  <1>4. es \in SUBSET Entries /\ \A e \in Entries : e \in es <=> Holds(After(rows, tx), e)
    BY <1>1, SeenFacts, AfterType, EntryIff DEF Types
  <1> HIDE DEF es, n, c, tx
  <1>5. /\ u \in TxType
        /\ u.open = tx.open /\ u.stale = tx.stale /\ u.row = tx.row /\ u.warned = tx.warned
        /\ \A i \in AnyId, e \in Entries :
              /\ Puts(u, i, e) <=> Puts(tx, i, e) \/ (i = c.next /\ e \in es)
              /\ Dels(u, i, e) <=> Dels(tx, i, e) /\ ~(i = c.next /\ e \in es)
    BY <1>0, <1>1, <1>2, <1>4, PutFacts, SMTT(20), Z3T(20)
  <1> HIDE DEF u
  <1>6. t \in TxType /\ Takes(t, u) /\ t.cat = n /\ t.heals /\ t.put = u.put /\ t.del = u.del
    <2>1. t = Taking(u, n, TRUE)
      BY DEF Taking
    <2>3. /\ Taking(u, n, TRUE) \in TxType /\ Takes(Taking(u, n, TRUE), u)
          /\ Taking(u, n, TRUE).cat = n /\ Taking(u, n, TRUE).heals = TRUE
          /\ Taking(u, n, TRUE).put = u.put /\ Taking(u, n, TRUE).del = u.del
      BY <1>3, <1>5, <2>1, LockFacts, Zenon
    <2> QED
      BY <1>3, <1>5, <2>1, <2>3, Zenon
  <1> HIDE DEF t
  <1>7. \A i \in AnyId, e \in Entries : (Puts(t, i, e) <=> Puts(u, i, e)) /\ (Dels(t, i, e) <=> Dels(u, i, e))
    BY <1>6 DEF Puts, Dels
  <1>8. Takes(t, tx)
    BY <1>5, <1>6, Zenon, SMTT(20) DEF Takes
  <1>9. MakesIndex(t, tx, c)
    <2>1. \A i \in AnyId, e \in Entries :
            /\ Puts(t, i, e) <=> Puts(tx, i, e) \/ (i = c.next /\ Holds(After(rows, tx), e))
            /\ Dels(t, i, e) <=> Dels(tx, i, e) /\ ~(i = c.next /\ Holds(After(rows, tx), e))
      BY <1>4, <1>5, <1>7, Zenon, SMTT(20)
    <2> QED
      BY <1>0, <1>3, <1>6, <1>8, <2>1, Zenon DEF MakesIndex
  <1>10. Types' /\ InPlace(p) /\ In(p, "Create") /\ proc'[p].tx = t /\ proc'[p].id = proc[p].id
    BY <1>0, <1>6, StatementFacts DEF Statements
  <1> QED
    BY <1>0, <1>9, <1>10, Zenon DEF Defines, c, tx

LEMMA ReindexKind ==
  ASSUME Types, NEW p \in Procs, Reindex(p)
  PROVE  Types' /\ Defines(p)
  <1> DEFINE tx == proc[p].tx
             c == Cat(tx)
             es == EntriesOf(RowsSeen(tx))
             old == IdxSeen(tx, c.pub)
             d == Del(tx, c.pub, old)
             u == Put(d, c.pub, es)
             s == [tx EXCEPT !.locked = @ \union {CatThing}]
             t == [u EXCEPT !.locked = @ \union {CatThing}, !.heals = TRUE]
  <1>0. /\ CatFree(p)
        /\ \/ (c.pub = 0 \/ c.kind = "tree") /\ InTx(p, "Reindex", s)
           \/ c.pub # 0 /\ InTx(p, "Reindex", t)
    BY DEF Reindex
  <1>1. tx \in TxType
    BY DEF Types, ProcType
  <1>2. c.pub \in AnyId
    BY <1>1, CatSeen, Zenon, SMTT(20)
  <1>4. es \in SUBSET Entries /\ \A e \in Entries : e \in es <=> Holds(After(rows, tx), e)
    BY <1>1, SeenFacts, AfterType, EntryIff DEF Types
  <1>5. old \in SUBSET Entries /\ old = Seen(idx[c.pub], tx, c.pub)
    BY SeenFacts, Zenon DEF IdxSeen
  <1>6. ASSUME NEW x \in TxType
        PROVE  \A h \in BOOLEAN : [x EXCEPT !.locked = @ \union {CatThing}, !.heals = h]
                  = [x EXCEPT !.cat = x.cat, !.locked = @ \union {CatThing}, !.heals = h]
    BY Zenon DEF TxType
  <1>7. s = [tx EXCEPT !.locked = @ \union {CatThing}, !.heals = tx.heals] /\ tx.heals \in BOOLEAN
    BY <1>1, Zenon DEF TxType
  <1> HIDE DEF es, old, c, tx
  <1>9. s \in TxType /\ Takes(s, tx) /\ s.cat = tx.cat /\ s.heals = tx.heals /\ s.put = tx.put /\ s.del = tx.del
    <2>1. tx.cat \in CatType \union {NoCat}
      BY <1>1 DEF TxType
    <2>2. s = Taking(tx, tx.cat, tx.heals)
      BY <1>1, <1>6, <1>7, Zenon, SMTT(20) DEF Taking
    <2> QED
      BY <1>1, <1>7, <2>1, <2>2, LockFacts, SMTT(20), Z3T(20)
  <1>10. /\ d \in TxType /\ d.cat = tx.cat
         /\ d.open = tx.open /\ d.stale = tx.stale /\ d.row = tx.row /\ d.warned = tx.warned
         /\ \A i \in AnyId, e \in Entries :
              /\ Puts(d, i, e) <=> Puts(tx, i, e) /\ ~(i = c.pub /\ e \in old)
              /\ Dels(d, i, e) <=> Dels(tx, i, e) \/ (i = c.pub /\ e \in old)
    BY <1>1, <1>2, <1>5, DelFacts, SMTT(20), Z3T(20)
  <1> HIDE DEF d
  <1>11. /\ u \in TxType /\ u.cat = tx.cat
         /\ u.open = tx.open /\ u.stale = tx.stale /\ u.row = tx.row /\ u.warned = tx.warned
         /\ \A i \in AnyId, e \in Entries :
              /\ Puts(u, i, e) <=> Puts(d, i, e) \/ (i = c.pub /\ e \in es)
              /\ Dels(u, i, e) <=> Dels(d, i, e) /\ ~(i = c.pub /\ e \in es)
    BY <1>2, <1>4, <1>10, PutFacts, SMTT(20), Z3T(20)
  <1> HIDE DEF u
  <1>12. t \in TxType /\ Takes(t, u) /\ t.cat = u.cat /\ t.heals /\ t.put = u.put /\ t.del = u.del
    <2>1. u.cat \in CatType \union {NoCat}
      BY <1>11 DEF TxType
    <2>2. t = Taking(u, u.cat, TRUE)
      BY <1>6, <1>11, Zenon DEF Taking
    <2>3. /\ Taking(u, u.cat, TRUE) \in TxType /\ Takes(Taking(u, u.cat, TRUE), u)
          /\ Taking(u, u.cat, TRUE).cat = u.cat /\ Taking(u, u.cat, TRUE).heals = TRUE
          /\ Taking(u, u.cat, TRUE).put = u.put /\ Taking(u, u.cat, TRUE).del = u.del
      BY <1>11, <2>1, <2>2, LockFacts, Zenon, SMTT(20)
    <2> QED
      BY <1>11, <2>1, <2>2, <2>3, Zenon, SMTT(20)
  <1> HIDE DEF t, s
  <1>13. \A i \in AnyId, e \in Entries : (Puts(t, i, e) <=> Puts(u, i, e)) /\ (Dels(t, i, e) <=> Dels(u, i, e))
    BY <1>12 DEF Puts, Dels
  <1>14. Takes(t, tx) /\ t.cat = tx.cat
    BY <1>11, <1>12, Zenon DEF Takes
  <1>15. \A i \in AnyId, e \in Entries :
           /\ Puts(t, i, e) <=> IF i = c.pub THEN Holds(After(rows, tx), e) ELSE Puts(tx, i, e)
           /\ Dels(t, i, e) <=> IF i = c.pub THEN /\ Dels(tx, i, e) \/ e \in Seen(idx[i], tx, i)
                                                  /\ ~Holds(After(rows, tx), e)
                                ELSE Dels(tx, i, e)
    <2>1. \A e \in Entries : Puts(tx, c.pub, e) => e \in old
      BY <1>5 DEF Seen
    <2> QED
      BY <1>4, <1>5, <1>10, <1>11, <1>13, <2>1, Zenon, SMTT(20)
  <1>16. CASE (c.pub = 0 \/ c.kind = "tree") /\ InTx(p, "Reindex", s)
    <2>1. Types' /\ InPlace(p) /\ In(p, "Reindex") /\ proc'[p].tx = s /\ proc'[p].id = proc[p].id
      BY <1>9, <1>16, StatementFacts, Zenon DEF Statements
    <2>2. Rebuilds(s, tx, c)
      BY <1>9, <1>16 DEF Rebuilds
    <2> QED
      BY <1>0, <2>1, <2>2, Zenon, SMTT(20) DEF Defines, c, tx
  <1>17. CASE c.pub # 0 /\ InTx(p, "Reindex", t)
    <2>1. Types' /\ InPlace(p) /\ In(p, "Reindex") /\ proc'[p].tx = t /\ proc'[p].id = proc[p].id
      BY <1>12, <1>17, StatementFacts, Zenon DEF Statements
    <2>2. Rebuilds(t, tx, c)
      BY <1>12, <1>14, <1>15, <1>17, Zenon DEF Rebuilds
    <2> QED
      BY <1>0, <2>1, <2>2, Zenon DEF Defines, c, tx
  <1> QED
    BY <1>0, <1>16, <1>17, Zenon, SMTT(20)

LEMMA DropKind ==
  ASSUME Types, NEW p \in Procs, Drop(p)
  PROVE  Types' /\ Defines(p)
  <1> DEFINE tx == proc[p].tx
             c == Cat(tx)
             old == IdxSeen(tx, c.named)
             d == Del(tx, c.named, old)
             n == [c EXCEPT !.pub = 0, !.named = 0]
             t == [d EXCEPT !.cat = n, !.locked = @ \union {CatThing}]
  <1>0. CatFree(p) /\ c.pub # 0 /\ c.named # 0 /\ InTx(p, "Drop", t)
    BY DEF Drop
  <1>1. tx \in TxType
    BY DEF Types, ProcType
  <1>2. c \in CatType /\ c.named \in AnyId
    BY <1>1, CatSeen
  <1>3. n \in CatType
    BY <1>2, CatUpdates, Zenon
  <1>4. n = [c EXCEPT !.pub = 0, !.named = 0]
    OBVIOUS
  <1>5. old \in SUBSET Entries /\ old = Seen(idx[c.named], tx, c.named)
    BY SeenFacts, Zenon DEF IdxSeen
  <1> HIDE DEF old, c, tx, n
  <1>6. /\ d \in TxType /\ d.heals = tx.heals
        /\ d.open = tx.open /\ d.stale = tx.stale /\ d.row = tx.row /\ d.warned = tx.warned
        /\ \A i \in AnyId, e \in Entries :
              /\ Puts(d, i, e) <=> Puts(tx, i, e) /\ ~(i = c.named /\ e \in old)
              /\ Dels(d, i, e) <=> Dels(tx, i, e) \/ (i = c.named /\ e \in old)
    BY <1>1, <1>2, <1>5, DelFacts, SMTT(20), Z3T(20)
  <1> HIDE DEF d
  <1>7. t \in TxType /\ Takes(t, d) /\ t.cat = n /\ t.heals = d.heals /\ t.put = d.put /\ t.del = d.del
    <2>1. d.heals \in BOOLEAN
      BY <1>6 DEF TxType
    <2>2. t = Taking(d, n, d.heals)
      BY <1>6, Zenon DEF TxType, Taking
    <2> QED
      BY <1>3, <1>6, <2>1, <2>2, LockFacts, SMTT(20), Z3T(20)
  <1> HIDE DEF t
  <1>8. \A i \in AnyId, e \in Entries : (Puts(t, i, e) <=> Puts(d, i, e)) /\ (Dels(t, i, e) <=> Dels(d, i, e))
    BY <1>7 DEF Puts, Dels
  <1>9. Takes(t, tx) /\ t.heals = tx.heals
    BY <1>6, <1>7, Zenon DEF Takes
  <1>10. \A i \in AnyId, e \in Entries :
           /\ Puts(t, i, e) <=> Puts(tx, i, e) /\ i # c.named
           /\ Dels(t, i, e) <=> Dels(tx, i, e) \/ (i = c.named /\ e \in Seen(idx[i], tx, i))
    <2>1. \A e \in Entries : Puts(tx, c.named, e) => e \in old
      BY <1>5 DEF Seen
    <2> QED
      BY <1>5, <1>6, <1>8, <2>1, Zenon
  <1>11. DropsIndex(t, tx, c)
    BY <1>0, <1>4, <1>7, <1>9, <1>10, Zenon DEF DropsIndex
  <1>12. Types' /\ InPlace(p) /\ In(p, "Drop") /\ proc'[p].tx = t /\ proc'[p].id = proc[p].id
    BY <1>0, <1>7, StatementFacts DEF Statements
  <1> QED
    BY <1>0, <1>11, <1>12, Zenon DEF Defines, c, tx

LEMMA PrepareKind ==
  ASSUME Types, NEW p \in Procs, Prepare(p)
  PROVE  Types' /\ Defines(p)
  <1> DEFINE q == proc[p]
             tx == q.tx
             c == Cat(tx)
             n == Named(c)
             t == Taking(tx, n, tx.heals)
             m == [q EXCEPT !.id = c.next, !.tx.cat = Named(c), !.tx.locked = @ \union {CatThing}]
  <1>0. /\ At(p, "Prepare") /\ CatFree(p) /\ c.pub = 0 /\ c.next \in Ids /\ Advance(p, m)
        /\ UNCHANGED <<setting, rows, idx, cat, stranded, lock, building, calls>>
    BY DEF Prepare
  <1>1. q \in ProcType /\ tx \in TxType
    BY DEF Types, ProcType
  <1>2. c \in CatType /\ c.next \in AnyId
    BY <1>0, <1>1, CatSeen, SMTT(20), Z3T(20) DEF AnyId, Ids
  <1>3. n \in CatType /\ n = Named(c)
    BY <1>0, <1>2, CatUpdates, Zenon
  <1> HIDE DEF n, c
  <1>4. tx.heals \in BOOLEAN
    BY <1>1, Zenon DEF TxType
  <1>5. /\ t \in TxType /\ Takes(t, tx) /\ t.cat = n /\ t.heals = tx.heals
        /\ t.put = tx.put /\ t.del = tx.del
    BY <1>1, <1>3, <1>4, LockFacts, SMTT(20), Z3T(20)
  <1>6. /\ m \in ProcType /\ m.job = q.job /\ m.pc = q.pc /\ m.id = c.next /\ m.seen = q.seen
        /\ m.tx = t
    <2>1. t = [tx EXCEPT !.cat = n, !.locked = @ \union {CatThing}]
      BY <1>1, Zenon DEF Taking, TxType
    <2>2. m = [q EXCEPT !.id = c.next, !.tx = [tx EXCEPT !.cat = n, !.locked = @ \union {CatThing}]]
      BY <1>1, <1>3, Zenon, SMTT(20) DEF TxType, ProcType
    <2> HIDE DEF t, tx, m
    <2> QED
      BY <1>1, <1>2, <1>5, <2>1, <2>2, Zenon DEF ProcType
  <1> HIDE DEF m, t
  <1>7. Types' /\ InPlace(p) /\ In(p, "Prepare") /\ proc'[p].tx = t /\ proc'[p].id = c.next
    BY <1>0, <1>5, <1>6, InTxFacts DEF Statements
  <1> QED
    BY <1>0, <1>3, <1>5, <1>7, Zenon DEF Defines, c

LEMMA ReconcileKind ==
  ASSUME Types, NEW p \in Procs, Reconcile(p)
  PROVE  Types' /\ Defines(p)
  <1> DEFINE q == proc[p]
             tx == q.tx
             c == Cat(tx)
             now == EntriesOf(RowsSeen(tx))
             seen == q.seen
             id == q.id
             old == IdxSeen(tx, id)
             e1 == Del(tx, id, old)
             a == [e1 EXCEPT !.locked = @ \union {CatThing}]
             gone == seen \ now
             more == now \ seen
             d == Del(tx, id, gone)
             u == Put(d, id, more)
             n == [c EXCEPT !.pub = id, !.kind = "search"]
             t == [u EXCEPT !.cat = n, !.locked = @ \union {CatThing}, !.heals = TRUE]
  <1>0. /\ CatFree(p)
        /\ \/ c.pub # 0 /\ InTx(p, "Reconcile", a)
           \/ c.pub = 0 /\ InTx(p, "Reconcile", t)
    BY DEF Reconcile
  <1>1. q \in ProcType /\ tx \in TxType /\ id \in AnyId /\ seen \in SUBSET Entries
    BY DEF Types, ProcType
  <1>2. c \in CatType
    BY <1>1, CatSeen
  <1>3. n \in CatType /\ n = [c EXCEPT !.pub = id, !.kind = "search"]
    BY <1>1, <1>2, CatUpdates, Zenon
  <1>4. now \in SUBSET Entries /\ \A e \in Entries : e \in now <=> Holds(After(rows, tx), e)
    BY <1>1, SeenFacts, AfterType, EntryIff, Zenon, SMTT(20) DEF Types
  <1>5. /\ gone \in SUBSET Entries /\ more \in SUBSET Entries
        /\ \A e \in Entries : /\ e \in gone <=> e \in seen /\ ~Holds(After(rows, tx), e)
                              /\ e \in more <=> e \notin seen /\ Holds(After(rows, tx), e)
    BY <1>1, <1>4
  <1>6. old \in SUBSET Entries
    BY DEF IdxSeen
  <1> HIDE DEF now, old, gone, more, n, c, tx, id
  <1>7. a \in TxType
    <2>1. e1 \in TxType
      BY <1>1, <1>6, DelFacts, Zenon, SMTT(20)
    <2> HIDE DEF e1
    <2> QED
      BY <2>1 DEF TxType
  <1>8. /\ d \in TxType
        /\ d.open = tx.open /\ d.stale = tx.stale /\ d.row = tx.row /\ d.warned = tx.warned
        /\ \A i \in AnyId, e \in Entries :
              /\ Puts(d, i, e) <=> Puts(tx, i, e) /\ ~(i = id /\ e \in gone)
              /\ Dels(d, i, e) <=> Dels(tx, i, e) \/ (i = id /\ e \in gone)
    BY <1>1, <1>5, DelFacts
  <1> HIDE DEF d
  <1>9. /\ u \in TxType
        /\ u.open = tx.open /\ u.stale = tx.stale /\ u.row = tx.row /\ u.warned = tx.warned
        /\ \A i \in AnyId, e \in Entries :
              /\ Puts(u, i, e) <=> Puts(d, i, e) \/ (i = id /\ e \in more)
              /\ Dels(u, i, e) <=> Dels(d, i, e) /\ ~(i = id /\ e \in more)
    <2>1. d \in TxType /\ id \in AnyId /\ more \in SUBSET Entries /\ u = Put(d, id, more)
      BY <1>1, <1>5, <1>8
    <2> HIDE DEF u
    <2>2. /\ u \in TxType
          /\ u.open = d.open /\ u.stale = d.stale /\ u.row = d.row /\ u.warned = d.warned
          /\ \A i \in AnyId, e \in Entries :
                /\ Puts(u, i, e) <=> Puts(d, i, e) \/ (i = id /\ e \in more)
                /\ Dels(u, i, e) <=> Dels(d, i, e) /\ ~(i = id /\ e \in more)
      BY <2>1, PutFacts, SMTT(20), Z3T(20)
    <2> QED
      BY <1>8, <2>2, Zenon, SMTT(20)
  <1> HIDE DEF u
  <1>10. t \in TxType /\ Takes(t, u) /\ t.cat = n /\ t.heals /\ t.put = u.put /\ t.del = u.del
    <2>0. u \in TxType /\ n \in CatType \union {NoCat}
      BY <1>3, <1>9
    <2>1. t = Taking(u, n, TRUE)
      BY DEF Taking
    <2>2. /\ Taking(u, n, TRUE) \in TxType /\ Takes(Taking(u, n, TRUE), u)
          /\ Taking(u, n, TRUE).cat = n /\ Taking(u, n, TRUE).heals = TRUE
          /\ Taking(u, n, TRUE).put = u.put /\ Taking(u, n, TRUE).del = u.del
      BY <2>0, LockFacts, Zenon
    <2> QED
      BY <2>1, <2>2, Zenon
  <1> HIDE DEF t, a
  <1>11. \A i \in AnyId, e \in Entries : (Puts(t, i, e) <=> Puts(u, i, e)) /\ (Dels(t, i, e) <=> Dels(u, i, e))
    BY <1>10 DEF Puts, Dels
  <1>12. Takes(t, tx)
    BY <1>9, <1>10 DEF Takes
  <1>13. \A i \in AnyId, e \in Entries :
           /\ Puts(t, i, e) <=>
                \/ Puts(tx, i, e) /\ ~(i = id /\ e \in seen /\ ~Holds(After(rows, tx), e))
                \/ i = id /\ e \notin seen /\ Holds(After(rows, tx), e)
           /\ Dels(t, i, e) <=>
                /\ Dels(tx, i, e) \/ (i = id /\ e \in seen /\ ~Holds(After(rows, tx), e))
                /\ ~(i = id /\ e \notin seen /\ Holds(After(rows, tx), e))
    BY <1>5, <1>8, <1>9, <1>11, Zenon
  <1>14. CASE c.pub # 0 /\ InTx(p, "Reconcile", a)
    <2>1. Types' /\ InPlace(p) /\ In(p, "Reconcile") /\ proc'[p].id = proc[p].id
      BY <1>7, <1>14, StatementFacts DEF Statements
    <2> QED
      BY <1>0, <1>14, <2>1, Zenon DEF Defines, c, tx
  <1>15. CASE c.pub = 0 /\ InTx(p, "Reconcile", t)
    <2>1. Types' /\ InPlace(p) /\ In(p, "Reconcile") /\ proc'[p].tx = t /\ proc'[p].id = proc[p].id
      BY <1>10, <1>15, StatementFacts DEF Statements
    <2>2. Publishes(t, tx, c, id, seen)
      BY <1>3, <1>10, <1>12, <1>13, <1>15, Zenon, SMTT(20) DEF Publishes
    <2> QED
      BY <1>0, <2>1, <2>2, Zenon, SMTT(20) DEF Defines, c, tx, id
  <1> QED
    BY <1>0, <1>14, <1>15, Zenon

LEMMA IngestKind ==
  ASSUME Types, NEW p \in Procs, Ingest(p)
  PROVE  Types' /\ Ingests(p)
  <1>1. /\ At(p, "Ingest") /\ Advance(p, proc[p]) /\ UNCHANGED <<setting, rows, cat, stranded, lock, building>>
        /\ idx' = [idx EXCEPT ![proc[p].id] = @ \union proc[p].seen]
    BY DEF Ingest
  <1>2. proc[p] \in ProcType /\ proc[p].job \in AllJobs /\ proc[p].job # "idle" /\ In(p, "Ingest")
    BY <1>1, Placed, Zenon DEF In
  <1>3. proc[p].pc # Last(proc[p].job)
    BY <1>2, NotLast, Zenon
  <1>4. /\ proc' \in [Procs -> ProcType] /\ Alike(p)
        /\ \A r \in Procs : proc'[r].job # "idle" => proc'[r].pc \in 1..Len(Program[proc'[r].job])
        /\ Moves(p) /\ proc'[p].tx = proc[p].tx /\ proc'[p].id = proc[p].id /\ proc'[p].seen = proc[p].seen
    BY <1>1, <1>2, <1>3, AdvanceFacts, Zenon DEF Moves
  <1>5. idx' \in [Ids -> SUBSET Entries]
    <2>1. idx \in [Ids -> SUBSET Entries] /\ proc[p].seen \in SUBSET Entries
      BY <1>2 DEF Types, ProcType
    <2> QED
      BY <1>1, <2>1, Zenon
  <1>6. Types'
    BY <1>1, <1>4, <1>5, Zenon DEF Types
  <1> QED
    BY <1>1, <1>2, <1>4, <1>6, Zenon, SMTT(20) DEF Ingests

LEMMA WrittenType == ASSUME NEW tx \in TxType PROVE Written(tx) \in SUBSET Things
  BY DEF Written, TxType, Things

LEMMA CommitKind ==
  ASSUME Types, NEW p \in Procs, Commit(p)
  PROVE  Types' /\ Commits(p)
  <1> DEFINE q == proc[p]
             tx == q.tx
             w == Written(tx)
             other(r) == IF r # p /\ proc[r].tx.open
                         THEN [proc[r] EXCEPT !.tx.stale = @ \union w, !.tx.heals = @ /\ ~tx.warned]
                         ELSE proc[r]
             done == [q EXCEPT !.tx = NoTx, !.pc = @ + 1]
             mine == IF q.pc = Len(Program[q.job]) THEN Idle ELSE done
  <1>0. /\ At(p, "Commit") /\ UNCHANGED <<setting, lock, building>>
        /\ Engine!Validates => (Written(tx) \union tx.locked) \intersect tx.stale = {}
        /\ rows' = RowsSeen(tx) /\ idx' = [i \in Ids |-> IdxSeen(tx, i)] /\ cat' = Cat(tx)
        /\ stranded' = (tx.warned \/ (stranded /\ ~tx.heals))
        /\ proc' = [[r \in Procs |-> other(r)] EXCEPT ![p] = mine]
    BY Zenon DEF Commit
  <1>1. /\ proc \in [Procs -> ProcType] /\ q \in ProcType /\ tx \in TxType /\ w \in SUBSET Things
        /\ \A r \in Procs : proc[r].job # "idle" => proc[r].pc \in 1..Len(Program[proc[r].job])
    BY WrittenType DEF Types, ProcType
  <1>2. In(p, "Commit") /\ q.job \in AllJobs /\ q.job # "idle" /\ Len(Program[q.job]) = Last(q.job)
    BY <1>0, Placed, Zenon DEF In
  <1>3. rows' = After(rows, tx) /\ idx' = [i \in Ids |-> Seen(idx[i], tx, i)]
    BY <1>0, SeenFacts, Zenon
  <1>4. rows' \in RowsType /\ idx' \in [Ids -> SUBSET Entries] /\ cat' \in CatType /\ stranded' \in BOOLEAN
    <2>1. rows' \in RowsType
      BY <1>1, <1>3, AfterType DEF Types
    <2>2. idx' \in [Ids -> SUBSET Entries]
      BY <1>0, Zenon DEF IdxSeen
    <2>3. cat' \in CatType /\ stranded' \in BOOLEAN
      BY <1>0, <1>1, CatSeen, Zenon
    <2> QED
      BY <2>1, <2>2, <2>3, Zenon, SMTT(20)
  <1> HIDE DEF w
  <1>5. ASSUME NEW r \in Procs
        PROVE  /\ other(r) \in ProcType /\ other(r).job = proc[r].job /\ other(r).pc = proc[r].pc
               /\ other(r).id = proc[r].id /\ other(r).seen = proc[r].seen
               /\ r # p /\ proc[r].tx.open =>
                    /\ other(r).tx.open = proc[r].tx.open /\ other(r).tx.row = proc[r].tx.row
                    /\ other(r).tx.put = proc[r].tx.put /\ other(r).tx.del = proc[r].tx.del
                    /\ other(r).tx.cat = proc[r].tx.cat /\ other(r).tx.locked = proc[r].tx.locked
                    /\ other(r).tx.warned = proc[r].tx.warned
                    /\ other(r).tx.stale = proc[r].tx.stale \union w
                    /\ other(r).tx.heals = (proc[r].tx.heals /\ ~tx.warned)
               /\ ~proc[r].tx.open => other(r) = proc[r]
    <2> DEFINE y == proc[r]
               x == y.tx
               z == [x EXCEPT !.stale = @ \union w, !.heals = @ /\ ~tx.warned]
               o == [y EXCEPT !.tx = z]
    <2>1. y \in ProcType /\ x \in TxType
      BY <1>1 DEF ProcType
    <2>2. [y EXCEPT !.tx.stale = @ \union w, !.tx.heals = @ /\ ~tx.warned] = o
      BY <2>1, Zenon DEF ProcType, TxType
    <2>3. r # p /\ x.open => other(r) = o
      BY <2>2
    <2>4. ~(r # p /\ x.open) => other(r) = y
      OBVIOUS
    <2> HIDE DEF other, x, y, tx
    <2>5. z \in TxType /\ z.open = x.open /\ z.row = x.row /\ z.put = x.put /\ z.del = x.del /\ z.cat = x.cat
          /\ z.locked = x.locked /\ z.warned = x.warned /\ z.stale = x.stale \union w
          /\ z.heals = (x.heals /\ ~tx.warned)
      BY <1>1, <2>1, Zenon DEF TxType
    <2> HIDE DEF z
    <2>6. o \in ProcType /\ o.job = y.job /\ o.pc = y.pc /\ o.tx = z /\ o.id = y.id /\ o.seen = y.seen
      BY <2>1, <2>5, Zenon DEF ProcType
    <2> HIDE DEF o
    <2> QED
      BY <2>1, <2>3, <2>4, <2>5, <2>6, Zenon DEF x, y
  <1>6. /\ mine \in ProcType /\ mine.tx = NoTx
        /\ q.pc = Last(q.job) => mine = Idle
        /\ q.pc # Last(q.job) => /\ mine.job = q.job /\ mine.pc = q.pc + 1
                                 /\ mine.id = q.id /\ mine.seen = q.seen
    <2>1. q.pc \in Nat /\ q.pc + 1 \in Nat
      BY <1>1, SMTT(20), Z3T(20) DEF ProcType
    <2>2. done \in ProcType /\ done.tx = NoTx /\ done.job = q.job /\ done.pc = q.pc + 1 /\ done.id = q.id /\ done.seen = q.seen
      BY <1>1, <2>1, NoTxType, Zenon DEF ProcType
    <2> HIDE DEF done
    <2> QED
      BY <1>2, <2>2, IdleType
  <1>7. mine.job # "idle" => mine.pc \in 1..Len(Program[mine.job])
    <2>1. CASE q.pc = Last(q.job)
      BY <1>6, <2>1, IdleType, Zenon
    <2>2. CASE q.pc # Last(q.job)
      <3>1. q.pc \in 1..Last(q.job) /\ Last(q.job) \in Nat
        BY <1>1, <1>2 DEF Last
      <3> HIDE DEF mine
      <3> QED
        BY <1>2, <1>6, <2>2, <3>1, SMTT(20), Z3T(20)
    <2> QED
      BY <2>1, <2>2
  <1> HIDE DEF other, mine
  <1>8. proc' \in [Procs -> ProcType] /\ proc'[p] = mine /\ \A r \in Procs : r # p => proc'[r] = other(r)
    BY <1>0, <1>5, <1>6, Zenon
  <1>9. \A r \in Procs : proc'[r].job # "idle" => proc'[r].pc \in 1..Len(Program[proc'[r].job])
    <2> SUFFICES ASSUME NEW r \in Procs, proc'[r].job # "idle"
                 PROVE  proc'[r].pc \in 1..Len(Program[proc'[r].job])
      OBVIOUS
    <2>1. CASE r = p
      BY <1>7, <1>8, <2>1
    <2>2. CASE r # p
      <3>1. proc'[r].job = proc[r].job /\ proc'[r].pc = proc[r].pc
        BY <1>5, <1>8, <2>2, Zenon, SMTT(20)
      <3> QED
        BY <1>1, <3>1
    <2> QED
      BY <2>1, <2>2
  <1>10. lock' \in [shared : SUBSET Procs, excl : Procs \union {Nobody}] /\ building' \in BOOLEAN
    BY <1>0 DEF Types
  <1>11. Types'
    BY <1>4, <1>8, <1>9, <1>10, Zenon, SMTT(20) DEF Types
  <1>12. \A r \in Procs : r # p =>
       /\ ~proc[r].tx.open => proc'[r] = proc[r]
       /\ proc'[r].job = proc[r].job /\ proc'[r].pc = proc[r].pc
       /\ proc'[r].id = proc[r].id /\ proc'[r].seen = proc[r].seen
       /\ proc[r].tx.open => Overtaken(proc'[r].tx, proc[r].tx, proc[p].tx)
    BY <1>5, <1>8, SMTT(20), Z3T(20) DEF Overtaken, w
  <1> QED
    BY <1>0, <1>2, <1>3, <1>6, <1>8, <1>11, <1>12, Zenon DEF Commits

LEMMA CrashKind ==
  ASSUME Types, Crash
  PROVE  Types' /\ Crashes
  <1>1. /\ Keeps /\ proc' = [p \in Procs |-> Idle] /\ lock' = [shared |-> {}, excl |-> Nobody] /\ building' = FALSE
    BY DEF Crash, Keeps
  <1>2. /\ proc' \in [Procs -> ProcType] /\ building' \in BOOLEAN
        /\ \A r \in Procs : proc'[r].job # "idle" => proc'[r].pc \in 1..Len(Program[proc'[r].job])
    BY <1>1, IdleType, Zenon
  <1>3. lock' \in [shared : SUBSET Procs, excl : Procs \union {Nobody}]
    BY <1>1
  <1>4. Types'
    BY <1>1, <1>2, <1>3, MoveTypes, Zenon DEF Keeps
  <1> QED
    BY <1>1, <1>4 DEF Crashes

LEMMA NextKinds ==
  ASSUME Types, Next, setting.jobs \subseteq AllJobs
  PROVE  Types' /\ (Crashes \/ \E p \in Procs : Kind(p))
  <1>1. CASE Crash
    BY <1>1, CrashKind, Zenon
  <1>2. ASSUME NEW p \in Procs, NEW job \in setting.jobs, Call(p, job)
        PROVE  Types' /\ Kind(p)
    BY <1>2, EndKinds DEF Kind
  <1>3. ASSUME NEW p \in Procs, Abort(p)
        PROVE  Types' /\ Kind(p)
    <2>1. proc[p].tx.open /\ Fail(p)
      BY <1>3 DEF Abort
    <2>2. CASE proc[p].job # "idle"
      BY <2>1, <2>2, EndKinds, Zenon, SMTT(20) DEF Kind
    <2>3. CASE proc[p].job = "idle"
      <3>1. /\ Keeps /\ lock' = Without(p) /\ proc' = [proc EXCEPT ![p] = Idle] /\ building' = building
        BY <2>1, <2>3 DEF Fail, Keeps, Types
      <3>2. /\ lock \in [shared : SUBSET Procs, excl : Procs \union {Nobody}] /\ building \in BOOLEAN
            /\ proc \in [Procs -> ProcType]
            /\ \A r \in Procs : proc[r].job # "idle" => proc[r].pc \in 1..Len(Program[proc[r].job])
        BY DEF Types
      <3>3. proc' \in [Procs -> ProcType] /\ proc'[p] = Idle /\ Alike(p)
        BY <3>1, <3>2, IdleType DEF Alike
      <3>4. \A r \in Procs : proc'[r].job # "idle" => proc'[r].pc \in 1..Len(Program[proc'[r].job])
        BY <3>2, <3>3, IdleType, Zenon DEF Alike
      <3>5. Types'
        BY <3>1, <3>2, <3>3, <3>4, WithoutType, MoveTypes, Zenon, SMTT(20) DEF Keeps
      <3> QED
        BY <2>3, <3>1, <3>3, <3>5, IdleType, Zenon, SMTT(20) DEF Ends, Kind
    <2> QED
      BY <2>2, <2>3
  <1>4. ASSUME NEW p \in Procs, Conflict(p) \/ Refuse(p)
        PROVE  Types' /\ Kind(p)
    <2>1. Fail(p) /\ (At(p, "Commit") \/ At(p, "Create") \/ At(p, "Prepare") \/ At(p, "Drop"))
      BY <1>4 DEF Conflict, Refuse
    <2>2. In(p, "Commit") \/ In(p, "Create") \/ In(p, "Prepare") \/ In(p, "Drop")
      BY <2>1, Placed, Zenon, SMTT(20) DEF In
    <2>3. proc[p].job = "hnsw" => proc[p].pc > 1
      BY <2>2, InFacts, SMTT(20), Z3T(20)
    <2>4. proc[p].job # "idle"
      BY <2>1 DEF At
    <2> QED
      BY <2>1, <2>3, <2>4, EndKinds, Zenon, SMTT(20) DEF Kind
  <1>5. ASSUME NEW p \in Procs, Step(p)
        PROVE  Types' /\ Kind(p)
    <2>1. CASE Shared(p) \/ Exclusive(p) \/ Release(p) \/ Scan(p) \/ Delist(p) \/ Enlist(p)
      BY <2>1, SlideKinds, Zenon DEF Kind
    <2>2. CASE Open(p) \/ Commit(p) \/ Ingest(p)
      BY <2>2, OpenKind, CommitKind, IngestKind, Zenon DEF Kind
    <2>3. CASE \E k \in Keys, v \in Vals \union {0} : Write(p, k, v) \/ ImportRow(p, k, v)
      BY <2>3, WriteKinds, Zenon DEF Kind
    <2>4. CASE \E kind \in {"tree", "search"} : Create(p, kind)
      BY <2>4, CreateKind, Zenon DEF Kind
    <2>5. CASE Reindex(p) \/ Drop(p) \/ Prepare(p) \/ Reconcile(p)
      BY <2>5, ReindexKind, DropKind, PrepareKind, ReconcileKind, Zenon DEF Kind
    <2> QED
      BY <1>4, <1>5, <2>1, <2>2, <2>3, <2>4, <2>5, Zenon DEF Step
  <1> QED
    BY <1>1, <1>2, <1>3, <1>5, Zenon DEF Next

-----------------------------------------------------------------------------
(* One transaction at a time: it keeps ready to commit. *)

LEMMA FreshTx ==
  ASSUME NEW t, t = [NoTx EXCEPT !.open = TRUE]
  PROVE  /\ t \in TxType /\ t.open = TRUE /\ Blank(t) /\ t.cat = NoCat /\ t.locked = {} /\ t.stale = {}
         /\ \A i, e : ~Touches(t, i, e)
  <1>1. t \in TxType /\ t.open = TRUE
    BY NoTxType, Zenon DEF TxType
  <1>2. Blank(t) /\ t.cat = NoCat /\ t.locked = {} /\ t.stale = {}
    BY DEF Blank, NoTx, NoRows, Bare
  <1> QED
    BY <1>1, <1>2, BareTouches, Zenon DEF Blank

LEMMA BlankSees ==
  ASSUME Types, NEW tx \in TxType, Blank(tx)
  PROVE  /\ Cat(tx) = cat /\ After(rows, tx) = rows
         /\ \A i, e : ~Touches(tx, i, e) /\ ~Puts(tx, i, e) /\ ~Dels(tx, i, e)
         /\ \A i \in Ids : Seen(idx[i], tx, i) = idx[i]
  <1>1. Cat(tx) = cat
    BY DEF Blank, Cat
  <1>2. After(rows, tx) = rows
    BY NoRowsAfter, Zenon DEF Blank, Types
  <1>3. \A i, e : ~Touches(tx, i, e)
    BY BareTouches, Zenon, SMTT(20) DEF Blank
  <1>4. ASSUME NEW i \in Ids PROVE Seen(idx[i], tx, i) = idx[i]
    <2>1. i \in AnyId /\ idx[i] \in SUBSET Entries
      BY SMTT(20), Z3T(20) DEF AnyId, Ids, Types
    <2> QED
      BY <1>3, <2>1, SeenElsewhere
  <1> QED
    BY <1>1, <1>2, <1>3, <1>4, Zenon DEF Touches

\* One row written and its entry kept: that is a change of both together.
\* Ready, in terms of what the transaction sees.
IsReady(t) ==
  /\ Cat(t).named < Cat(t).next /\ cat.next <= Cat(t).next
  /\ Cat(t).pub # 0 => Cat(t).named = Cat(t).pub
  /\ \A i \in AnyId, e \in Entries : Touches(t, i, e) => i < Cat(t).next
  /\ Cat(t).pub # 0 /\ ~t.warned /\ (stranded => t.heals) =>
       Full(Seen(idx[Cat(t).pub], t, Cat(t).pub), After(rows, t))

LEMMA ReadyIff ==
  ASSUME NEW q
  PROVE  Ready(q, cat, rows, idx, stranded) <=> IsReady(q.tx)
  BY Zenon DEF Ready, IsReady, Cat

LEMMA OwnAlone ==
  ASSUME Alone, NEW p \in Procs
  PROVE  /\ proc[p] \in ProcType /\ proc[p].tx \in TxType /\ proc[p].pc \in Nat
         /\ proc[p].job \in StoreLockJobs \union {"idle"}
         /\ proc[p].tx.open <=> OpenAtAlone(proc[p])
         /\ ~proc[p].tx.open => proc[p].tx = NoTx
         /\ proc[p].tx.open => IsReady(proc[p].tx)
  <1>1. proc[p] \in ProcType
    BY Zenon DEF Alone, Types
  <1>2. /\ proc[p].job \in StoreLockJobs \union {"idle"}
        /\ proc[p].tx.open <=> OpenAtAlone(proc[p])
        /\ ~proc[p].tx.open => proc[p].tx = NoTx
        /\ proc[p].tx.open => Ready(proc[p], cat, rows, idx, stranded)
    BY DEF Alone
  <1> QED
    BY <1>1, <1>2, ReadyIff, Zenon DEF ProcType

LEMMA FreshReady ==
  ASSUME Alone, NEW t, t = [NoTx EXCEPT !.open = TRUE]
  PROVE  IsReady(t)
  <1>1. t \in TxType /\ Blank(t) /\ ~t.heals /\ \A i, e : ~Touches(t, i, e)
    BY FreshTx, Zenon DEF Blank
  <1>2. Types /\ Catalog /\ Complete
    BY DEF Alone
  <1>3. /\ Cat(t) = cat /\ After(rows, t) = rows
        /\ \A i \in Ids : Seen(idx[i], t, i) = idx[i]
    BY <1>1, <1>2, BlankSees, Zenon
  <1>4. cat.pub # 0 => cat.pub \in Ids
    BY <1>2, SMTT(20), Z3T(20) DEF Types, CatType, AnyId, Ids
  <1>5. cat.next \in Nat
    BY <1>2 DEF Types, CatType
  <1>6. cat.pub # 0 /\ ~t.warned /\ (stranded => t.heals) =>
          Full(Seen(idx[cat.pub], t, cat.pub), After(rows, t))
    BY <1>1, <1>2, <1>3, <1>4, Zenon DEF Complete
  <1>7. cat.named < cat.next /\ (cat.pub # 0 => cat.named = cat.pub) /\ cat.next <= cat.next
    BY <1>2, <1>5, SMTT(20), Z3T(20) DEF Catalog
  <1>8. Cat(t) = cat /\ \A i, e : ~Touches(t, i, e)
    BY <1>1, <1>3, Zenon
  <1> QED
    BY <1>6, <1>7, <1>8, Zenon DEF IsReady

LEMMA WriteReady ==
  ASSUME Alone, NEW tx \in TxType, IsReady(tx), NEW t \in TxType,
         NEW k \in Keys, NEW v \in Vals \union {0}, PutsRow(t, tx, k, v)
  PROVE  IsReady(t)
  <1> DEFINE id == Cat(tx).pub
             old == After(rows, tx)[k]
  <1>0. Types /\ rows \in RowsType /\ id \in AnyId /\ Cat(tx).named \in AnyId /\ Cat(tx).next \in Nat /\ v # Same
    <2>1. Types /\ rows \in RowsType
      BY Zenon DEF Alone, Types
    <2>2. v # Same
      BY IndexAssumption, SMTT(20), Z3T(20) DEF Same
    <2> QED
      BY <2>1, <2>2, CatSeen, Zenon
  <1>1. t.cat = tx.cat /\ t.heals = tx.heals /\ \A j \in Keys : t.row[j] = IF j = k THEN v ELSE tx.row[j]
    BY Zenon DEF PutsRow, Rest
  <1>2. Cat(t) = Cat(tx)
    BY <1>1 DEF Cat
  <1>3. CASE t.put = tx.put /\ t.del = tx.del /\ (id = 0 \/ t.warned)
    <2>1. \A i, e : Touches(t, i, e) <=> Touches(tx, i, e)
      BY <1>3, Zenon DEF Touches, Puts, Dels
    <2> QED
      BY <1>2, <1>3, <2>1 DEF IsReady
  <1>4. CASE id # 0 /\ t.warned = tx.warned /\ Maintains(t, tx, id, k, old, v)
    <2>1. \A i \in AnyId, e \in Entries : Touches(t, i, e) => Touches(tx, i, e) \/ i = id
      BY <1>4 DEF Maintains, Touches
    <2>2. \A i \in AnyId, e \in Entries : Touches(t, i, e) => i < Cat(t).next
      BY <1>0, <1>2, <1>4, <2>1 DEF IsReady
    <2>3. ASSUME ~t.warned, stranded => t.heals
          PROVE  Full(Seen(idx[id], t, id), After(rows, t))
      <3>1. Full(Seen(idx[id], tx, id), After(rows, tx))
        BY <1>1, <1>4, <2>3, Zenon DEF IsReady
      <3>2. \A e \in Entries : e \in Seen(idx[id], tx, id) <=> Holds(After(rows, tx), e)
        BY <3>1, Zenon DEF Full
      <3>3. \A e \in Entries : e[1] \in Keys
        BY DEF Entries
      <3>4. \A j \in Keys : After(rows, t)[j] = IF j = k THEN v ELSE After(rows, tx)[j]
        BY <1>0, <1>1, AfterType, SMTT(20), Z3T(20)
      <3>5. \A e \in Entries :
              e \in Seen(idx[id], t, id) <=>
                \/ e[1] = k /\ e[2] = v
                \/ e \in Seen(idx[id], tx, id) /\ ~(e[1] = k /\ e[2] = old /\ old # v)
        <4>1. \A e \in Entries :
                /\ Puts(t, id, e) <=> \/ Puts(tx, id, e) /\ ~(e[1] = k /\ e[2] = old /\ old # v)
                                      \/ e[1] = k /\ e[2] = v
                /\ Dels(t, id, e) <=> /\ Dels(tx, id, e) \/ (e[1] = k /\ e[2] = old /\ old # v)
                                      /\ ~(e[1] = k /\ e[2] = v)
          BY <1>0, <1>4, Zenon DEF Maintains
        <4> QED
          BY <4>1, Zenon DEF Seen
      <3> HIDE DEF id
      <3>6. \A e \in Entries : e \in Seen(idx[id], t, id) <=> Holds(After(rows, t), e)
        BY <3>2, <3>3, <3>4, <3>5 DEF Holds
      <3> QED
        BY <3>6 DEF Full
    <2> QED
      BY <1>2, <2>2, <2>3, Zenon DEF IsReady
  <1> QED
    BY <1>3, <1>4, Zenon DEF PutsRow

LEMMA SameRows ==
  ASSUME NEW t, NEW tx, Takes(t, tx)
  PROVE  After(rows, t) = After(rows, tx) /\ t.warned = tx.warned
  BY Zenon DEF Takes, After

LEMMA CreateReady ==
  ASSUME Alone, NEW tx \in TxType, IsReady(tx), NEW t \in TxType, MakesIndex(t, tx, Cat(tx))
  PROVE  IsReady(t)
  <1> DEFINE c == Cat(tx)
  <1>0. Types /\ Catalog /\ c \in CatType /\ c.next \in Nat /\ cat.next \in Nat /\ c.next \in Ids /\ c.next \in AnyId
    BY CatSeen, Zenon DEF Alone, MakesIndex, Types, CatType, AnyId, Ids
  <1>1. t.cat \in CatType /\ t.cat.pub = c.next /\ t.cat.named = c.next /\ t.cat.next = c.next + 1
    BY Zenon DEF MakesIndex
  <1>2. Cat(t) = t.cat
    BY <1>1, NoCatIsNone, Zenon DEF Cat
  <1>3. After(rows, t) = After(rows, tx)
    BY SameRows, Zenon DEF MakesIndex
  <1>4. \A i \in AnyId, e \in Entries :
          /\ Puts(t, i, e) <=> Puts(tx, i, e) \/ (i = c.next /\ Holds(After(rows, tx), e))
          /\ Dels(t, i, e) <=> Dels(tx, i, e) /\ ~(i = c.next /\ Holds(After(rows, tx), e))
    BY Zenon DEF MakesIndex
  <1>5. /\ cat.next <= c.next
        /\ \A i \in AnyId, e \in Entries : Touches(tx, i, e) => i < c.next
    BY DEF IsReady
  <1>6. idx[c.next] = {}
    BY <1>0, <1>5 DEF Catalog
  <1> HIDE DEF c
  <1>7. \A i \in AnyId, e \in Entries : Touches(t, i, e) => i < c.next + 1
    BY <1>0, <1>4, <1>5, SMTT(20), Z3T(20) DEF Touches, AnyId
  <1>8. \A e \in Entries : ~Puts(tx, c.next, e)
    BY <1>0, <1>5, SMTT(20), Z3T(20) DEF Touches
  <1>9. Full(Seen(idx[c.next], t, c.next), After(rows, t))
    BY <1>0, <1>3, <1>4, <1>6, <1>8, Zenon DEF Full, Seen
  <1>10. c.next < c.next + 1 /\ cat.next <= c.next + 1
    BY <1>0, <1>5, SMTT(20), Z3T(20)
  <1> QED
    BY <1>1, <1>2, <1>7, <1>9, <1>10, Zenon DEF IsReady

LEMMA ReindexReady ==
  ASSUME Alone, NEW tx \in TxType, IsReady(tx), NEW t \in TxType, Rebuilds(t, tx, Cat(tx))
  PROVE  IsReady(t)
  <1> DEFINE c == Cat(tx)
  <1>0. c.pub \in AnyId /\ c.next \in Nat /\ c.named \in AnyId
    BY CatSeen, Zenon DEF Alone
  <1>1. Takes(t, tx) /\ t.cat = tx.cat
    BY DEF Rebuilds
  <1>2. Cat(t) = c
    BY <1>1 DEF Cat
  <1>3. After(rows, t) = After(rows, tx) /\ t.warned = tx.warned
    BY <1>1, SameRows
  <1>4. CASE t.heals = tx.heals /\ t.put = tx.put /\ t.del = tx.del
    <2>1. /\ \A i, e : Touches(t, i, e) <=> Touches(tx, i, e)
          /\ \A i, es : Seen(es, t, i) = Seen(es, tx, i)
      BY <1>4, Zenon DEF Touches, Puts, Dels, Seen
    <2> QED
      BY <1>2, <1>3, <1>4, <2>1 DEF IsReady
  <1>5. CASE /\ c.pub # 0 /\ t.heals
             /\ \A i \in AnyId, e \in Entries :
                  /\ Puts(t, i, e) <=> IF i = c.pub THEN Holds(After(rows, tx), e) ELSE Puts(tx, i, e)
                  /\ Dels(t, i, e) <=> IF i = c.pub THEN /\ Dels(tx, i, e) \/ e \in Seen(idx[i], tx, i)
                                                         /\ ~Holds(After(rows, tx), e)
                                       ELSE Dels(tx, i, e)
    <2> HIDE DEF c
    <2>1. \A i \in AnyId, e \in Entries : Touches(t, i, e) => Touches(tx, i, e) \/ i = c.pub
      BY <1>5 DEF Touches
    <2>2. \A i \in AnyId, e \in Entries : Touches(t, i, e) => i < c.next
      BY <1>0, <1>5, <2>1 DEF IsReady, c
    <2>3. \A e \in Entries : /\ Puts(t, c.pub, e) <=> Holds(After(rows, tx), e)
                             /\ Dels(t, c.pub, e) <=> /\ Dels(tx, c.pub, e) \/ e \in Seen(idx[c.pub], tx, c.pub)
                                                      /\ ~Holds(After(rows, tx), e)
      BY <1>0, <1>5
    <2>4. Full(Seen(idx[c.pub], t, c.pub), After(rows, t))
      BY <1>3, <2>3, Zenon DEF Full, Seen
    <2> QED
      BY <1>2, <2>2, <2>4 DEF IsReady, c
  <1> QED
    BY <1>4, <1>5 DEF Rebuilds

LEMMA DropReady ==
  ASSUME Alone, NEW tx \in TxType, IsReady(tx), NEW t \in TxType, DropsIndex(t, tx, Cat(tx))
  PROVE  IsReady(t)
  <1> DEFINE c == Cat(tx)
  <1>0. c \in CatType /\ c.next \in Nat /\ c.named \in AnyId
    BY CatSeen, Zenon DEF Alone
  <1>1. t.cat = [c EXCEPT !.pub = 0, !.named = 0]
    BY DEF DropsIndex
  <1>2. t.cat \in CatType /\ t.cat.pub = 0 /\ t.cat.named = 0 /\ t.cat.next = c.next
    BY <1>0, <1>1, CatUpdates, Zenon
  <1>3. Cat(t) = t.cat
    BY <1>2, NoCatIsNone DEF Cat
  <1>4. \A i \in AnyId, e \in Entries : Touches(t, i, e) => Touches(tx, i, e) \/ i = c.named
    BY DEF DropsIndex, Touches
  <1>5. /\ c.named < c.next /\ cat.next <= c.next
        /\ \A i \in AnyId, e \in Entries : Touches(tx, i, e) => i < c.next
    BY DEF IsReady
  <1>6. 0 < c.next
    BY <1>0, <1>5, SMTT(20), Z3T(20) DEF AnyId
  <1> HIDE DEF c
  <1> QED
    BY <1>2, <1>3, <1>4, <1>5, <1>6, Zenon DEF IsReady

LEMMA AloneQuiet ==
  ASSUME Alone, NEW p \in Procs, Types', Keeps, Alike(p),
         proc'[p].job \in StoreLockJobs \union {"idle"},
         proc'[p].tx.open <=> OpenAtAlone(proc'[p]),
         ~proc'[p].tx.open => proc'[p].tx = NoTx,
         proc'[p].tx.open => IsReady(proc'[p].tx),
         proc'[p].tx.open => proc[p].tx.open \/ OpenTxs = {}
  PROVE  Alone'
  <1>1. setting' = setting /\ rows' = rows /\ idx' = idx /\ cat' = cat /\ stranded' = stranded
    BY Zenon DEF Keeps
  <1>2. Catalog' /\ Complete' /\ Engine!Exclusive' /\ setting'.jobs \subseteq StoreLockJobs
    BY <1>1, Zenon DEF Alone, Catalog, Complete, Engine!Exclusive
  <1>3. ASSUME NEW r \in Procs
        PROVE  /\ proc'[r].job \in StoreLockJobs \union {"idle"}
               /\ proc'[r].tx.open <=> OpenAtAlone(proc'[r])
               /\ ~proc'[r].tx.open => proc'[r].tx = NoTx
               /\ proc'[r].tx.open => Ready(proc'[r], cat, rows, idx, stranded)
    <2>1. CASE r = p
      BY <2>1, ReadyIff, Zenon
    <2>2. CASE r # p
      BY <2>2, OwnAlone, ReadyIff, Zenon DEF Alike
    <2> QED
      BY <2>1, <2>2, Zenon
  <1>4. ASSUME NEW r \in Procs, NEW s \in Procs, proc'[r].tx.open, proc'[s].tx.open
        PROVE  r = s
    <2>1. \A x \in Procs : x # p => proc'[x] = proc[x]
      BY Zenon DEF Alike
    <2>2. \A x, y \in Procs : proc[x].tx.open /\ proc[y].tx.open => x = y
      BY Zenon DEF Alone
    <2>3. proc'[p].tx.open => \A x \in Procs : proc[x].tx.open => x = p
      BY <2>2, Zenon DEF OpenTxs
    <2> QED
      BY <1>4, <2>1, <2>2, <2>3, Zenon
  <1> QED
    BY <1>1, <1>2, <1>3, <1>4, Zenon DEF Alone

LEMMA AloneCommits ==
  ASSUME Alone, Types', NEW p \in Procs, Commits(p)
  PROVE  Alone'
  <1> DEFINE tx == proc[p].tx
             c == Cat(tx)
             q == proc[p]
             n == proc'[p]
  <1>0. /\ tx \in TxType /\ q.pc \in Nat /\ q.job \in StoreLockJobs \union {"idle"}
        /\ q.tx.open <=> OpenAtAlone(q)
        /\ Types /\ Catalog /\ c \in CatType
    BY OwnAlone, CatSeen, Zenon DEF Alone
  <1>1. \/ q.job \in {"single", "import"} /\ q.pc = 4
        \/ q.job = "multi" /\ q.pc = 3
        \/ q.job \in {"script", "governed", "create", "reindex", "drop"} /\ q.pc = 5
    BY <1>0, Zenon DEF Commits, In, StepAt, StoreLockJobs
  <1>2. tx.open
    BY <1>0, <1>1, Zenon DEF OpenAtAlone
  <1>3. IsReady(tx)
    BY <1>2, OwnAlone, Zenon
  <1>4. /\ setting' = setting /\ rows' = After(rows, tx) /\ cat' = c
        /\ \A i \in Ids : idx'[i] = Seen(idx[i], tx, i)
        /\ stranded' = (tx.warned \/ (stranded /\ ~tx.heals))
    BY Zenon DEF Commits
  <1>5. /\ cat.next \in Nat /\ c.next \in Nat /\ c.named \in Nat
        /\ \A i \in Ids : i \in AnyId /\ i \in Nat /\ idx[i] \in SUBSET Entries
        /\ c.pub # 0 => c.pub \in Ids
    <2> HIDE DEF tx, c
    <2>1. cat \in CatType /\ idx \in [Ids -> SUBSET Entries]
      BY <1>0, Zenon DEF Types
    <2>2. /\ cat.next \in Nat /\ c.next \in Nat /\ c.named \in AnyId /\ c.pub \in AnyId
      BY <1>0, <2>1, Zenon DEF CatType
    <2>3. \A i \in AnyId : i \in Nat /\ (i # 0 => i \in Ids)
      BY IndexAssumption, SMTT(20), Z3T(20) DEF AnyId, Ids
    <2>4. \A i \in Ids : i \in AnyId /\ idx[i] \in SUBSET Entries
      BY <2>1, SMTT(20), Z3T(20) DEF AnyId, Ids
    <2> QED
      BY <2>2, <2>3, <2>4, Zenon
  <1>6. /\ c.named < c.next /\ cat.next <= c.next
        /\ c.pub # 0 => c.named = c.pub
        /\ \A i \in AnyId, e \in Entries : Touches(tx, i, e) => i < c.next
        /\ c.pub # 0 /\ ~tx.warned /\ (stranded => tx.heals) =>
             Full(Seen(idx[c.pub], tx, c.pub), After(rows, tx))
    BY <1>3, Zenon DEF IsReady
  <1> HIDE DEF tx, c, q, n
  <1>7. Catalog'
    <2>1. \A i \in Ids : c.next <= i => idx'[i] = {}
      <3> SUFFICES ASSUME NEW i \in Ids, c.next <= i PROVE idx'[i] = {}
        BY Zenon
      <3>1. \A e \in Entries : ~Touches(tx, i, e)
        BY <1>5, <1>6, SMTT(20), Z3T(20)
      <3>2. idx[i] = {}
        BY <1>0, <1>5, <1>6, SMTT(20), Z3T(20) DEF Catalog
      <3> QED
        BY <1>4, <3>1, <3>2, Zenon DEF Seen, Touches
    <2>2. c.next # 0
      BY <1>5, <1>6, SMTT(20), Z3T(20)
    <2> QED
      BY <1>4, <1>6, <2>1, <2>2, Zenon DEF Catalog
  <1>8. Complete'
    <2>1. ASSUME c.pub # 0, ~stranded' PROVE Full(idx'[c.pub], rows')
      <3>1. ~tx.warned /\ (stranded => tx.heals)
        BY <1>4, <2>1, Zenon
      <3> QED
        BY <1>4, <1>5, <1>6, <2>1, <3>1, Zenon
    <2> QED
      BY <1>4, <2>1, Zenon DEF Complete
  <1>9. ASSUME NEW r \in Procs
        PROVE  /\ proc'[r].job \in StoreLockJobs \union {"idle"}
               /\ ~proc'[r].tx.open /\ ~OpenAtAlone(proc'[r]) /\ proc'[r].tx = NoTx
    <2>1. CASE r = p
      <3>1. n.tx = NoTx
        BY Zenon DEF Commits, n
      <3>2. \/ q.job \in {"single", "import"} /\ n.job = q.job /\ n.pc = 5
            \/ q.job = "script" /\ n.job = q.job /\ n.pc = 6
            \/ n = Idle
        BY <1>1, SMTT(20), Z3T(20) DEF Commits, Last, q, n
      <3> QED
        BY <2>1, <3>1, <3>2, IdleType, NoTxType, SMTT(20), Z3T(20) DEF OpenAtAlone, StoreLockJobs, n
    <2>2. CASE r # p
      <3>1. ~proc[r].tx.open
        BY <1>2, <2>2, Zenon DEF Alone, tx
      <3>2. proc'[r] = proc[r]
        BY <2>2, <3>1, Zenon DEF Commits
      <3> QED
        BY <3>1, <3>2, OwnAlone, Zenon
    <2> QED
      BY <2>1, <2>2, Zenon
  <1>10. Engine!Exclusive' /\ setting'.jobs \subseteq StoreLockJobs
    BY <1>4, Zenon DEF Alone, Engine!Exclusive
  <1> QED
    BY <1>7, <1>8, <1>9, <1>10, Zenon DEF Alone

LEMMA AloneNext ==
  ASSUME Alone, [Next]_vars
  PROVE  Alone'
  <1>1. CASE UNCHANGED vars
    BY <1>1, Zenon DEF vars, Alone, Types, Catalog, Complete, Engine!Exclusive
  <1>2. CASE Next
    <2>0. setting.jobs \subseteq AllJobs /\ Types /\ setting.jobs \subseteq StoreLockJobs
      BY Zenon DEF Alone, AllJobs
    <2>1. Types' /\ (Crashes \/ \E p \in Procs : Kind(p))
      BY <1>2, <2>0, NextKinds, Zenon
    <2>2. CASE Crashes
      <3>1. /\ setting' = setting /\ rows' = rows /\ idx' = idx /\ cat' = cat /\ stranded' = stranded
            /\ \A r \in Procs : proc'[r] = Idle
        BY <2>2, Zenon DEF Crashes, Keeps
      <3>2. Catalog' /\ Complete' /\ Engine!Exclusive' /\ setting'.jobs \subseteq StoreLockJobs
        BY <3>1, Zenon DEF Alone, Catalog, Complete, Engine!Exclusive
      <3>3. \A r \in Procs : /\ proc'[r].job = "idle" /\ ~proc'[r].tx.open /\ proc'[r].tx = NoTx
                             /\ ~OpenAtAlone(proc'[r])
        BY <3>1, IdleType, NoTxType, Zenon DEF OpenAtAlone
      <3> QED
        BY <2>1, <3>2, <3>3, Zenon DEF Alone
    <2>3. ASSUME NEW p \in Procs, Kind(p) PROVE Alone'
      <3> DEFINE q == proc[p]
                 n == proc'[p]
      <3>0. /\ q.tx \in TxType /\ q.pc \in Nat
            /\ q.job \in StoreLockJobs \union {"idle"}
            /\ q.tx.open <=> OpenAtAlone(q)
            /\ ~q.tx.open => q.tx = NoTx
            /\ q.tx.open => IsReady(q.tx)
        BY OwnAlone, Zenon
      <3>1. n.tx \in TxType
        BY <2>1, Zenon DEF Types, ProcType
      <3>2. CASE Slides(p)
        <4>1. Keeps /\ Alike(p) /\ n.job = q.job /\ n.pc = q.pc + 1 /\ n.tx = q.tx
          BY <3>2, Zenon DEF Slides, Moves
        <4>2. \/ q.job \in {"single", "import"} /\ (q.pc = 1 \/ q.pc = 5)
              \/ q.job = "script" /\ (q.pc = 1 \/ q.pc = 6)
              \/ q.job \in {"governed", "create", "reindex", "drop"} /\ (q.pc = 2 \/ q.pc = 4)
          BY <3>0, <3>2, InFacts, Zenon, SMTT(20) DEF Slides, StoreLockJobs
        <4>3. OpenAtAlone(n) <=> OpenAtAlone(q)
          BY <4>1, <4>2, SMTT(20), Z3T(20) DEF OpenAtAlone
        <4> QED
          BY <2>1, <3>0, <4>1, <4>3, AloneQuiet, Zenon
      <3>3. CASE Ends(p)
        <4>1. /\ Keeps /\ Alike(p) /\ n.tx = NoTx /\ n.pc \in {0, 1} /\ n.job \in StoreLockJobs \union {"idle"}
          BY <2>0, <3>3, Zenon DEF Ends
        <4>2. ~OpenAtAlone(n) /\ ~n.tx.open
          BY <4>1, NoTxType, SMTT(20), Z3T(20) DEF OpenAtAlone
        <4> QED
          BY <2>1, <4>1, <4>2, AloneQuiet, Zenon
      <3>4. CASE Opens(p)
        <4>1. Keeps /\ Alike(p) /\ n.job = q.job /\ n.pc = q.pc + 1 /\ n.tx = [NoTx EXCEPT !.open = TRUE]
          BY <3>4, Zenon DEF Opens, Moves
        <4>2. \/ q.job \in {"single", "import", "script"} /\ q.pc = 2
              \/ q.job \in {"governed", "multi", "create", "reindex", "drop"} /\ q.pc = 1
          BY <3>0, <3>4, InFacts, Zenon DEF Opens, StoreLockJobs
        <4>3. OpenAtAlone(n)
          BY <4>1, <4>2, SMTT(20), Z3T(20) DEF OpenAtAlone
        <4>4. n.tx.open /\ IsReady(n.tx)
          BY <4>1, FreshTx, FreshReady, Zenon
        <4>5. OpenTxs = {}
          BY <3>4, Zenon DEF Opens, Alone
        <4> QED
          BY <2>1, <3>0, <4>1, <4>3, <4>4, <4>5, AloneQuiet, Zenon
      <3>5. CASE Writes(p)
        <4>1. Keeps /\ Alike(p) /\ n.job = q.job /\ n.pc = q.pc + 1
          BY <3>5, Zenon DEF Writes, InPlace, Moves
        <4>2. \/ q.job \in {"single", "governed", "import"} /\ q.pc = 3
              \/ q.job = "multi" /\ q.pc = 2
              \/ q.job = "script" /\ q.pc = 4
          BY <3>0, <3>5, InFacts, Zenon, SMTT(20) DEF Writes
        <4>3. OpenAtAlone(n) /\ OpenAtAlone(q)
          BY <4>1, <4>2, SMTT(20), Z3T(20) DEF OpenAtAlone
        <4>4. PICK k \in Keys, v \in Vals \union {0} : PutsRow(n.tx, q.tx, k, v)
          BY <3>5, Zenon DEF Writes
        <4>5. n.tx.open = q.tx.open
          BY <4>4, Zenon DEF PutsRow, Rest
        <4>6. IsReady(n.tx)
          BY <3>0, <3>1, <4>3, <4>4, WriteReady, Zenon
        <4> QED
          BY <2>1, <3>0, <4>1, <4>3, <4>5, <4>6, AloneQuiet, Zenon
      <3>6. CASE Defines(p)
        <4>1. Keeps /\ Alike(p) /\ n.job = q.job /\ n.pc = q.pc + 1
          BY <3>6, Zenon DEF Defines, InPlace, Moves
        <4>2. ~In(p, "Prepare") /\ ~In(p, "Reconcile")
          BY <3>0, InFacts, Zenon DEF StoreLockJobs
        <4>3. \/ In(p, "Create") /\ MakesIndex(n.tx, q.tx, Cat(q.tx))
              \/ In(p, "Reindex") /\ Rebuilds(n.tx, q.tx, Cat(q.tx))
              \/ In(p, "Drop") /\ DropsIndex(n.tx, q.tx, Cat(q.tx))
          BY <3>6, <4>2, Zenon DEF Defines
        <4>4. q.job \in {"script", "create", "reindex", "drop"} /\ q.pc = 3
          BY <4>3, InFacts, Zenon, SMTT(20)
        <4>5. OpenAtAlone(n) /\ OpenAtAlone(q)
          BY <4>1, <4>4, SMTT(20), Z3T(20) DEF OpenAtAlone
        <4>6. n.tx.open = q.tx.open
          BY <4>3, Zenon DEF MakesIndex, Rebuilds, DropsIndex, Takes
        <4>7. IsReady(n.tx)
          BY <3>0, <3>1, <4>3, <4>5, CreateReady, ReindexReady, DropReady, Zenon
        <4> QED
          BY <2>1, <3>0, <4>1, <4>5, <4>6, <4>7, AloneQuiet, Zenon
      <3>7. CASE Ingests(p)
        BY <3>0, <3>7, InFacts, Zenon DEF Ingests, StoreLockJobs
      <3>8. CASE Commits(p)
        BY <2>1, <3>8, AloneCommits, Zenon
      <3> QED
        BY <2>3, <3>2, <3>3, <3>4, <3>5, <3>6, <3>7, <3>8, Zenon DEF Kind
    <2> QED
      BY <2>1, <2>2, <2>3, Zenon
  <1> QED
    BY <1>1, <1>2, Zenon
=============================================================================
