--------------------------- MODULE IndexBuildProofs ---------------------------
(***************************************************************************)
(* RocksDB, where many transactions are open: every step keeps what        *)
(* IndexBuildSteps calls Together.  With its counterpart for the other     *)
(* engines (AloneNext) this makes IInv inductive, and the theorems at the  *)
(* end follow.                                                             *)
(***************************************************************************)
EXTENDS IndexBuildSteps

-----------------------------------------------------------------------------
(* RocksDB: the thread that steps keeps its part. *)

LEMMA Own ==
  ASSUME Together, NEW p \in Procs
  PROVE  /\ proc[p] \in ProcType /\ proc[p].tx \in TxType /\ proc[p].id \in AnyId
         /\ proc[p].seen \in SUBSET Entries
         /\ Shape(proc[p]) /\ Writer(proc[p], cat, rows)
         /\ Reindexer(proc[p], cat, rows, idx, stranded) /\ Dropper(proc[p], cat)
         /\ Builder(proc[p], cat, rows, idx) /\ Foreign(proc[p], cat)
         /\ proc[p].pc \in Nat
  <1>1. proc[p] \in ProcType
    BY DEF Together, Types
  <1>2. Sound(proc[p], cat, rows, idx, stranded)
    BY DEF Together, Threads
  <1> QED
    BY <1>1, <1>2, Zenon DEF ProcType, Sound

LEMMA SlideSound ==
  ASSUME Together, NEW p \in Procs, Slides(p)
  PROVE  Sound(proc'[p], cat, rows, idx, stranded)
  <1> DEFINE q == proc[p]
             n == proc'[p]
  <1>0. /\ q.pc \in Nat /\ Shape(q) /\ Reindexer(q, cat, rows, idx, stranded) /\ Dropper(q, cat)
        /\ Builder(q, cat, rows, idx) /\ Foreign(q, cat)
    BY Own, Zenon
  <1>1. /\ n.job = q.job /\ n.pc = q.pc + 1 /\ n.tx = q.tx /\ n.id = q.id
        /\ ~In(p, "Scan") => n.seen = q.seen
    BY Zenon DEF Slides, Moves
  <1>2. \/ q.job \in {"single", "import"} /\ q.pc \in {1, 5}
        \/ q.job \in {"reindex", "drop"} /\ q.pc \in {2, 4}
        \/ q.job = "hnsw" /\ q.pc \in {1, 2, 6, 7, 9, 13}
    BY <1>0, Zenon DEF Slides, In, StepAt, Shape, RocksJobs
  <1>3. q.pc # 7 => n.seen = q.seen
    BY <1>1, Zenon DEF In, StepAt
  <1> HIDE DEF q, n
  <1>10. \/ q.job \in {"single", "import"} /\ ((q.pc = 1 /\ n.pc = 2) \/ (q.pc = 5 /\ n.pc = 6))
         \/ q.job \in {"reindex", "drop"} /\ ((q.pc = 2 /\ n.pc = 3) \/ (q.pc = 4 /\ n.pc = 5))
         \/ q.job = "hnsw" /\ ((q.pc = 1 /\ n.pc = 2) \/ (q.pc = 2 /\ n.pc = 3)
                             \/ (q.pc = 6 /\ n.pc = 7) \/ (q.pc = 7 /\ n.pc = 8)
                             \/ (q.pc = 9 /\ n.pc = 10) \/ (q.pc = 13 /\ n.pc = 14))
    BY <1>1, <1>2, SMTT(20), Z3T(20)
  <1>4. Shape(n)
    <2>1. OpenAt(n) <=> OpenAt(q)
      BY <1>1, <1>10, SMTT(20), Z3T(20) DEF OpenAt
    <2>2. Unworked(n) => Unworked(q)
      BY <1>1, <1>10, SMTT(20), Z3T(20) DEF Unworked
    <2> QED
      BY <1>0, <1>1, <2>1, <2>2 DEF Shape
  <1>5. Writer(n, cat, rows)
    BY <1>1, <1>10, SMTT(20), Z3T(20) DEF Writer
  <1>6. Reindexer(n, cat, rows, idx, stranded)
    <2>1. n.job = "reindex" /\ n.pc \in {4, 5} => q.job = "reindex" /\ q.pc = 4
      BY <1>1, <1>10, SMTT(20), Z3T(20)
    <2> QED
      BY <1>0, <1>1, <2>1, Zenon DEF Reindexer
  <1>7. Dropper(n, cat)
    BY <1>0, <1>1, <1>2, SMTT(20), Z3T(20) DEF Dropper
  <1>8. Builder(n, cat, rows, idx)
    BY <1>0, <1>1, <1>2, <1>3, SMTT(20), Z3T(20) DEF Builder
  <1>9. Foreign(n, cat)
    BY <1>0, <1>1, Zenon DEF Foreign
  <1> QED
    BY <1>4, <1>5, <1>6, <1>7, <1>8, <1>9 DEF Sound, n

\* A thread without a transaction that has nothing under construction.
LEMMA IdleSound ==
  ASSUME Together, NEW q, q.tx = NoTx, q.job \in RocksJobs \union {"idle"},
         q.job = "idle" \/ q.pc \in {0, 1, 13, 14} \/ (q.job # "hnsw" /\ q.pc \notin {2, 3, 4, 5})
           \/ (q.job \in {"single", "import"} /\ q.pc = 5),
         NEW c, NEW rw, NEW ix, NEW st
  PROVE  Sound(q, c, rw, ix, st)
  <1>1. NoTx.open = FALSE /\ \A i, e : ~Touches(NoTx, i, e)
    BY NoTxType DEF Touches, Puts, Dels
  <1>2. Shape(q)
    BY <1>1, SMTT(20), Z3T(20) DEF Shape, OpenAt, Unworked
  <1>3. Foreign(q, c)
    BY <1>1 DEF Foreign
  <1>4. Writer(q, c, rw) /\ Reindexer(q, c, rw, ix, st) /\ Dropper(q, c) /\ Builder(q, c, rw, ix)
    BY SMTT(20), Z3T(20) DEF Writer, Reindexer, Dropper, Builder
  <1> QED
    BY <1>2, <1>3, <1>4 DEF Sound

LEMMA EndSound ==
  ASSUME Together, NEW p \in Procs, Ends(p)
  PROVE  Sound(proc'[p], cat, rows, idx, stranded)
  <1>1. setting.jobs \subseteq RocksJobs
    BY DEF Together
  <1>2. proc'[p].tx = NoTx /\ proc'[p].job \in RocksJobs \union {"idle"} /\ proc'[p].pc \in {0, 1}
    BY <1>1 DEF Ends
  <1> QED
    BY <1>2, IdleSound

LEMMA OpenSound ==
  ASSUME Together, NEW p \in Procs, Opens(p)
  PROVE  Sound(proc'[p], cat, rows, idx, stranded)
  <1> DEFINE q == proc[p]
             n == proc'[p]
  <1>0. q.pc \in Nat /\ Shape(q) /\ Builder(q, cat, rows, idx)
    BY Own, Zenon
  <1>1. n.job = q.job /\ n.pc = q.pc + 1 /\ n.id = q.id /\ n.seen = q.seen
    BY DEF Opens, Moves
  <1>2. \/ q.job \in {"single", "import"} /\ q.pc = 2
        \/ q.job \in {"reindex", "drop"} /\ q.pc = 1
        \/ q.job = "hnsw" /\ q.pc \in {3, 10}
    BY <1>0, InFacts DEF Opens, Shape, RocksJobs
  <1>3. n.tx.open = TRUE /\ Blank(n.tx) /\ \A i, e : ~Touches(n.tx, i, e)
    BY FreshTx, Zenon DEF Opens
  <1> HIDE DEF q, n
  <1>4. Shape(n)
    BY <1>0, <1>1, <1>2, <1>3, SMTT(20), Z3T(20) DEF Shape, OpenAt, Unworked
  <1>5. Writer(n, cat, rows) /\ Reindexer(n, cat, rows, idx, stranded) /\ Dropper(n, cat)
    BY <1>1, <1>2, SMTT(20), Z3T(20) DEF Writer, Reindexer, Dropper
  <1>6. Builder(n, cat, rows, idx)
    BY <1>0, <1>1, <1>2, SMTT(20), Z3T(20) DEF Builder
  <1>7. Foreign(n, cat)
    BY <1>3 DEF Foreign
  <1> QED
    BY <1>4, <1>5, <1>6, <1>7 DEF Sound, n

\* A blank transaction sees what is committed.
LEMMA OneRow ==
  ASSUME Types, NEW tx \in TxType, Blank(tx), NEW t \in TxType, NEW k \in Keys, NEW v \in Vals \union {0},
         NEW id \in AnyId,
         \A j \in Keys : t.row[j] = IF j = k THEN v ELSE tx.row[j],
         Maintains(t, tx, id, k, rows[k], v)
  PROVE  Local(t, id) /\ Delta(t, id, rows) /\ OnlyAt(t, id)
  <1>1. v # Same /\ rows \in RowsType
    BY IndexAssumption, SMTT(20), Z3T(20) DEF Types, Same
  <1>2. \A e \in Entries : e[1] \in Keys
    BY DEF Entries
  <1>3. \A i \in AnyId, e \in Entries :
          /\ Puts(t, i, e) <=> i = id /\ e[1] = k /\ e[2] = v
          /\ Dels(t, i, e) <=> i = id /\ e[1] = k /\ e[2] = rows[k] /\ rows[k] # v
    BY BlankSees, Zenon DEF Maintains
  <1>4. t.row[k] = v
    OBVIOUS
  <1>5. Local(t, id)
    BY <1>1, <1>3, <1>4, Zenon DEF Local, Touches
  <1>6. OnlyAt(t, id)
    BY <1>3, Zenon DEF OnlyAt, Touches
  <1>7. \A j \in Keys : After(rows, t)[j] = IF j = k THEN v ELSE rows[j]
    <2>1. \A j \in Keys : tx.row[j] = Same
      BY DEF Blank, NoRows
    <2> QED
      BY <1>1, <2>1, AfterType, SMTT(20), Z3T(20)
  <1>8. Delta(t, id, rows)
    BY <1>2, <1>3, <1>7, Zenon DEF Delta, Touches, Holds
  <1> QED
    BY <1>5, <1>6, <1>8

LEMMA WriteSound ==
  ASSUME Together, NEW p \in Procs, Writes(p), proc'[p].tx \in TxType
  PROVE  Sound(proc'[p], cat, rows, idx, stranded)
  <1> DEFINE q == proc[p]
             n == proc'[p]
             t == n.tx
             tx == q.tx
  <1>0. q.pc \in Nat /\ Shape(q) /\ tx \in TxType /\ Types /\ Catalog
    BY Own, Zenon DEF Together
  <1>1. n.job = q.job /\ n.pc = q.pc + 1
    BY DEF Writes, InPlace, Moves
  <1>2. q.job \in {"single", "import"} /\ q.pc = 3
    BY <1>0, Zenon DEF Writes, In, StepAt, Shape, RocksJobs
  <1>3. n.job \in {"single", "import"} /\ n.pc = 4
    BY <1>1, <1>2, SMTT(20), Z3T(20)
  <1>4. Blank(tx) /\ tx.open
    BY <1>0, <1>2, Zenon DEF Shape, OpenAt, Unworked
  <1>5. PICK k \in Keys, v \in Vals \union {0} : PutsRow(t, tx, k, v)
    BY DEF Writes
  <1> HIDE DEF q, n, t, tx
  <1>6. Cat(tx) = cat /\ After(rows, tx) = rows /\ \A i, e : ~Touches(tx, i, e)
    BY <1>0, <1>4, BlankSees
  <1>7. /\ t.open /\ t.cat = NoCat /\ t.locked = {} /\ ~t.heals
        /\ \A j \in Keys : t.row[j] = IF j = k THEN v ELSE tx.row[j]
    BY <1>4, <1>5, Zenon DEF PutsRow, Rest, Blank
  <1>8. cat.pub \in AnyId /\ cat.named \in AnyId /\ cat.next \in Nat
    BY <1>0 DEF Types, CatType
  <1>9. \/ t.put = tx.put /\ t.del = tx.del /\ (cat.pub # 0 => t.warned)
        \/ cat.pub # 0 /\ Maintains(t, tx, cat.pub, k, rows[k], v)
    BY <1>5, <1>6, Zenon DEF PutsRow
  <1>10. cat.pub # 0 /\ Maintains(t, tx, cat.pub, k, rows[k], v) =>
           Local(t, cat.pub) /\ Delta(t, cat.pub, rows) /\ OnlyAt(t, cat.pub)
    <2>1. t \in TxType
      BY DEF t, n
    <2> QED
      BY <1>0, <1>4, <1>7, <1>8, <2>1, OneRow, Zenon, SMTT(20)
  <1>11. t.put = tx.put /\ t.del = tx.del => \A i, e : ~Touches(t, i, e)
    BY <1>6 DEF Touches, Puts, Dels
  <1>12. Shape(n)
    <2>1. OpenAt(n) /\ ~Unworked(n) /\ n.job \in RocksJobs
      BY <1>3, SMTT(20), Z3T(20) DEF OpenAt, Unworked, RocksJobs
    <2>2. n.tx.open
      BY <1>7 DEF t
    <2> QED
      BY <2>1, <2>2 DEF Shape
  <1>13. Writer(n, cat, rows)
    BY <1>7, <1>9, <1>10, Zenon DEF Writer, t
  <1>14. Reindexer(n, cat, rows, idx, stranded) /\ Dropper(n, cat) /\ Builder(n, cat, rows, idx)
    BY <1>3 DEF Reindexer, Dropper, Builder
  <1>15. Foreign(n, cat)
    <2>1. cat.pub # 0 => cat.pub < cat.next
      BY <1>0 DEF Catalog
    <2>2. \A i \in AnyId, e \in Entries : Touches(t, i, e) => i = cat.pub /\ cat.pub # 0
      BY <1>9, <1>10, <1>11, Zenon DEF OnlyAt
    <2> QED
      BY <2>1, <2>2 DEF Foreign, t
  <1> QED
    BY <1>12, <1>13, <1>14, <1>15 DEF Sound, n

LEMMA ReindexSound ==
  ASSUME Together, NEW p \in Procs, Defines(p), In(p, "Reindex"), proc'[p].tx \in TxType
  PROVE  Sound(proc'[p], cat, rows, idx, stranded)
  <1> DEFINE q == proc[p]
             n == proc'[p]
             t == n.tx
             tx == q.tx
             id == cat.pub
  <1>0. q.pc \in Nat /\ Shape(q) /\ tx \in TxType /\ Types /\ Catalog
    BY Own, Zenon DEF Together
  <1>1. n.job = q.job /\ n.pc = q.pc + 1
    BY Zenon DEF Defines, InPlace, Moves
  <1>2. q.job = "reindex" /\ q.pc = 3
    BY <1>0, Zenon DEF In, StepAt
  <1>3. n.job = "reindex" /\ n.pc = 4
    BY <1>1, <1>2, SMTT(20), Z3T(20)
  <1>4. Blank(tx) /\ tx.open
    BY <1>0, <1>2, Zenon DEF Shape, OpenAt, Unworked
  <1>5. Rebuilds(t, tx, Cat(tx))
    BY <1>2, Zenon DEF Defines, In, StepAt
  <1>6. /\ Cat(tx) = cat /\ After(rows, tx) = rows
        /\ \A i, e : ~Touches(tx, i, e) /\ ~Puts(tx, i, e) /\ ~Dels(tx, i, e)
        /\ \A i \in Ids : Seen(idx[i], tx, i) = idx[i]
    BY <1>0, <1>4, BlankSees, Zenon
  <1> HIDE DEF q, n, t, tx
  <1>7. t.open /\ t.cat = NoCat /\ t.locked = {CatThing} /\ ~t.warned /\ NoRows(t) /\ t \in TxType
    <2>1. NoRows(tx) /\ tx.cat = NoCat /\ ~tx.warned
      BY <1>4 DEF Blank
    <2>2. Takes(t, tx) /\ t.cat = tx.cat
      BY <1>5 DEF Rebuilds
    <2> QED
      BY <1>4, <2>1, <2>2, Zenon DEF Takes, NoRows, t, n
  <1>8. \/ ~t.heals /\ t.put = tx.put /\ t.del = tx.del
        \/ /\ cat.pub # 0 /\ t.heals
           /\ \A i \in AnyId, e \in Entries :
                /\ Puts(t, i, e) <=> i = cat.pub /\ Holds(rows, e)
                /\ Dels(t, i, e) <=> i = cat.pub /\ e \in Seen(idx[i], tx, i) /\ ~Holds(rows, e)
    <2>1. CASE t.heals = tx.heals /\ t.put = tx.put /\ t.del = tx.del
      BY <1>4, <2>1, Zenon DEF Blank
    <2>2. CASE ~(t.heals = tx.heals /\ t.put = tx.put /\ t.del = tx.del)
      <3>1. /\ cat.pub # 0 /\ t.heals
            /\ \A i \in AnyId, e \in Entries :
                 /\ Puts(t, i, e) <=> IF i = cat.pub THEN Holds(rows, e) ELSE Puts(tx, i, e)
                 /\ Dels(t, i, e) <=> IF i = cat.pub THEN /\ Dels(tx, i, e) \/ e \in Seen(idx[i], tx, i)
                                                          /\ ~Holds(rows, e)
                                      ELSE Dels(tx, i, e)
        BY <1>5, <1>6, <2>2, Zenon DEF Rebuilds
      <3> QED
        BY <1>6, <3>1, Zenon
    <2> QED
      BY <2>1, <2>2, Zenon
  <1>9. CASE ~t.heals /\ t.put = tx.put /\ t.del = tx.del
    <2>1. Bare(t)
      BY <1>4, <1>9, Zenon DEF Blank, Bare
    <2>2. \A i, e : ~Touches(t, i, e)
      BY <1>7, <2>1, BareTouches, Zenon
    <2>3. Reindexer(n, cat, rows, idx, stranded) /\ Foreign(n, cat)
      BY <1>7, <1>9, <2>1, <2>2, Zenon DEF Reindexer, Foreign, t
    <2>4. Shape(n) /\ Writer(n, cat, rows) /\ Dropper(n, cat) /\ Builder(n, cat, rows, idx)
      BY <1>3, <1>7, SMTT(20), Z3T(20) DEF Shape, OpenAt, Unworked, Writer, Dropper, Builder, RocksJobs, t
    <2> QED
      BY <2>3, <2>4 DEF Sound, n
  <1>10. CASE /\ cat.pub # 0 /\ t.heals
              /\ \A i \in AnyId, e \in Entries :
                   /\ Puts(t, i, e) <=> i = cat.pub /\ Holds(rows, e)
                   /\ Dels(t, i, e) <=> i = cat.pub /\ e \in Seen(idx[i], tx, i) /\ ~Holds(rows, e)
    <2>1. cat.pub \in AnyId /\ cat.pub \in Ids /\ cat.named \in AnyId /\ cat.next \in Nat
      BY <1>0, <1>10, SMTT(20), Z3T(20) DEF Types, CatType, AnyId, Ids
    <2>2. OnlyAt(t, cat.pub)
      BY <1>10 DEF OnlyAt, Touches
    <2>3. After(rows, t) = rows
      BY <1>0, <1>7, NoRowsAfter, Zenon DEF Types
    <2>4. Delta(t, cat.pub, rows)
      BY <1>10, <2>1, <2>3 DEF Delta
    <2>5. Seen(idx[cat.pub], tx, cat.pub) = idx[cat.pub]
      BY <1>6, <2>1, Zenon
    <2>6. Heal(t, cat.pub, rows, idx[cat.pub])
      BY <1>10, <2>1, <2>5, Zenon DEF Heal, Touches
    <2>7. Reindexer(n, cat, rows, idx, stranded)
      BY <1>7, <1>10, <2>2, <2>4, <2>6, Zenon DEF Reindexer, t
    <2>8. Foreign(n, cat)
      BY <1>0, <1>10, <2>1, <2>2, Zenon DEF Foreign, OnlyAt, Catalog, t
    <2>9. Shape(n) /\ Writer(n, cat, rows) /\ Dropper(n, cat) /\ Builder(n, cat, rows, idx)
      BY <1>3, <1>7 DEF Shape, OpenAt, Unworked, Writer, Dropper, Builder, RocksJobs, t
    <2> QED
      BY <2>7, <2>8, <2>9, Zenon DEF Sound, n
  <1> QED
    BY <1>8, <1>9, <1>10, Zenon

LEMMA DropSound ==
  ASSUME Together, NEW p \in Procs, Defines(p), In(p, "Drop"), proc'[p].tx \in TxType
  PROVE  Sound(proc'[p], cat, rows, idx, stranded)
  <1> DEFINE q == proc[p]
             n == proc'[p]
             t == n.tx
             tx == q.tx
  <1>0. q.pc \in Nat /\ Shape(q) /\ tx \in TxType /\ Types /\ Catalog
    BY Own, Zenon DEF Together
  <1>1. n.job = q.job /\ n.pc = q.pc + 1
    BY Zenon DEF Defines, InPlace, Moves
  <1>2. q.job = "drop" /\ q.pc = 3
    BY <1>0, Zenon DEF In, StepAt
  <1>3. n.job = "drop" /\ n.pc = 4
    BY <1>1, <1>2, SMTT(20), Z3T(20)
  <1>4. Blank(tx) /\ tx.open
    BY <1>0, <1>2, Zenon DEF Shape, OpenAt, Unworked
  <1>5. DropsIndex(t, tx, Cat(tx))
    BY <1>2, Zenon DEF Defines, In, StepAt
  <1>6. Cat(tx) = cat /\ \A i, e : ~Touches(tx, i, e)
    BY <1>0, <1>4, BlankSees, Zenon
  <1> HIDE DEF q, n, t, tx
  <1>7. /\ t.open /\ t.cat = [cat EXCEPT !.pub = 0, !.named = 0] /\ t.locked = {CatThing}
        /\ ~t.warned /\ ~t.heals /\ NoRows(t) /\ cat.pub # 0
    <2>1. NoRows(tx) /\ ~tx.warned /\ ~tx.heals
      BY <1>4 DEF Blank
    <2>2. Takes(t, tx) /\ t.heals = tx.heals /\ t.cat = [cat EXCEPT !.pub = 0, !.named = 0] /\ cat.pub # 0
      BY <1>5, <1>6 DEF DropsIndex
    <2> QED
      BY <1>4, <2>1, <2>2 DEF Takes, NoRows
  <1>8. OnlyAt(t, cat.pub)
    <2>1. \A i \in AnyId, e \in Entries : Touches(t, i, e) => i = cat.named
      BY <1>5, <1>6 DEF DropsIndex, Touches
    <2> QED
      BY <1>0, <1>7, <2>1 DEF OnlyAt, Catalog
  <1>9. Dropper(n, cat)
    BY <1>7, <1>8 DEF Dropper, t
  <1>10. Foreign(n, cat)
    <2>1. cat.pub < cat.next /\ cat.pub \in AnyId
      BY <1>0, <1>7 DEF Catalog, Types, CatType
    <2> QED
      BY <1>7, <1>8, <2>1 DEF Foreign, OnlyAt, t
  <1>11. Shape(n) /\ Writer(n, cat, rows) /\ Reindexer(n, cat, rows, idx, stranded) /\ Builder(n, cat, rows, idx)
    BY <1>3, <1>7, SMTT(20), Z3T(20) DEF Shape, OpenAt, Unworked, Writer, Reindexer, Builder, RocksJobs, t
  <1> QED
    BY <1>9, <1>10, <1>11 DEF Sound, n

LEMMA BuildSound ==
  ASSUME Together, NEW p \in Procs, Defines(p), In(p, "Prepare") \/ In(p, "Reconcile"), proc'[p].tx \in TxType
  PROVE  Sound(proc'[p], cat, rows, idx, stranded)
  <1> DEFINE q == proc[p]
             n == proc'[p]
             t == n.tx
             tx == q.tx
  <1>0. /\ q.pc \in Nat /\ Shape(q) /\ tx \in TxType /\ Types /\ Catalog
        /\ Builder(q, cat, rows, idx)
    BY Own, Zenon DEF Together
  <1>1. n.job = q.job /\ n.pc = q.pc + 1 /\ n.seen = q.seen
    BY Zenon DEF Defines, InPlace, Moves
  <1>2. q.job = "hnsw" /\ (q.pc = 4 \/ q.pc = 11)
    BY <1>0, Zenon DEF In, StepAt
  <1>4. Blank(tx) /\ tx.open
    BY <1>0, <1>2, Zenon DEF Shape, OpenAt, Unworked
  <1>6. /\ Cat(tx) = cat /\ After(rows, tx) = rows
        /\ \A i, e : ~Touches(tx, i, e) /\ ~Puts(tx, i, e) /\ ~Dels(tx, i, e)
    BY <1>0, <1>4, BlankSees, Zenon
  <1>7. CASE q.pc = 4
    <2>1. n.job = "hnsw" /\ n.pc = 5
      BY <1>1, <1>2, <1>7, SMTT(20), Z3T(20)
    <2>2. /\ Takes(t, tx) /\ t.put = tx.put /\ t.del = tx.del /\ t.heals = tx.heals
          /\ cat.pub = 0 /\ cat.next \in Ids /\ n.id = cat.next /\ t.cat = Named(cat)
      <3>1. ~In(p, "Create") /\ ~In(p, "Reindex") /\ ~In(p, "Drop") /\ ~In(p, "Reconcile")
        BY <1>2, <1>7, InFacts, SMTT(20), Z3T(20)
      <3> QED
        BY <1>6, <3>1, Zenon, SMTT(20) DEF Defines
    <2> HIDE DEF q, n, t, tx
    <2>3. t.open /\ t.locked = {CatThing} /\ ~t.warned /\ ~t.heals /\ NoRows(t) /\ Bare(t)
      BY <1>4, <2>2, Zenon DEF Takes, Blank, NoRows, Bare
    <2>4. \A i, e : ~Touches(t, i, e)
      BY <1>6, <2>2, Zenon DEF Touches, Puts, Dels
    <2>5. Builder(n, cat, rows, idx) /\ Foreign(n, cat)
      BY <2>1, <2>2, <2>3, <2>4, SMTT(20), Z3T(20) DEF Builder, Foreign, t
    <2>6. Shape(n) /\ Writer(n, cat, rows) /\ Reindexer(n, cat, rows, idx, stranded) /\ Dropper(n, cat)
      BY <2>1, <2>3, SMTT(20), Z3T(20) DEF Shape, OpenAt, Unworked, Writer, Reindexer, Dropper, RocksJobs, t
    <2> QED
      BY <2>5, <2>6 DEF Sound, n
  <1>8. CASE q.pc = 11
    <2>1. n.job = "hnsw" /\ n.pc = 12
      BY <1>1, <1>2, <1>8, SMTT(20), Z3T(20)
    <2>2. cat.pub = 0 /\ q.id = cat.named /\ q.id \in Ids /\ idx[q.id] = q.seen
      BY <1>0, <1>2, <1>8, SMTT(20), Z3T(20) DEF Builder
    <2>3. n.id = q.id /\ Publishes(t, tx, cat, q.id, q.seen)
      <3>1. ~In(p, "Create") /\ ~In(p, "Reindex") /\ ~In(p, "Drop") /\ ~In(p, "Prepare")
        BY <1>2, <1>8, InFacts, SMTT(20), Z3T(20)
      <3> QED
        BY <1>6, <2>2, <3>1, Zenon, SMTT(20) DEF Defines
    <2>4. q.id \in AnyId /\ q.seen \in SUBSET Entries /\ cat.named < cat.next
      BY <1>0, Own, Zenon DEF Catalog
    <2> HIDE DEF q, n, t, tx
    <2>5. t.open /\ t.locked = {CatThing} /\ ~t.warned /\ NoRows(t) /\ t.cat = [cat EXCEPT !.pub = q.id, !.kind = "search"]
      <3>1. Takes(t, tx) /\ t.cat = [cat EXCEPT !.pub = q.id, !.kind = "search"]
        BY <2>3 DEF Publishes
      <3>2. NoRows(tx) /\ ~tx.warned
        BY <1>4 DEF Blank
      <3> QED
        BY <1>4, <3>1, <3>2 DEF Takes, NoRows
    <2>6. \A i \in AnyId, e \in Entries :
            /\ Puts(t, i, e) <=> i = q.id /\ e \notin q.seen /\ Holds(rows, e)
            /\ Dels(t, i, e) <=> i = q.id /\ e \in q.seen /\ ~Holds(rows, e)
      BY <1>6, <2>3 DEF Publishes
    <2>7. OnlyAt(t, q.id)
      BY <2>6 DEF OnlyAt, Touches
    <2>8. Full(Seen(idx[q.id], t, q.id), rows)
      BY <2>2, <2>4, <2>6, Zenon DEF Full, Seen
    <2>9. Builder(n, cat, rows, idx)
      BY <1>1, <2>1, <2>2, <2>3, <2>5, <2>7, <2>8, SMTT(20), Z3T(20) DEF Builder, t
    <2>10. Foreign(n, cat)
      BY <2>1, <2>2, <2>4, <2>7, SMTT(20), Z3T(20) DEF Foreign, OnlyAt, Ids, t
    <2>11. Shape(n) /\ Writer(n, cat, rows) /\ Reindexer(n, cat, rows, idx, stranded) /\ Dropper(n, cat)
      BY <2>1, <2>5, SMTT(20), Z3T(20) DEF Shape, OpenAt, Unworked, Writer, Reindexer, Dropper, RocksJobs, t
    <2> QED
      BY <2>9, <2>10, <2>11, Zenon DEF Sound, n
  <1> QED
    BY <1>2, <1>7, <1>8, Zenon

-----------------------------------------------------------------------------
(* RocksDB: steps that leave the store alone. *)

LEMMA QuietTogether ==
  ASSUME Together, NEW p \in Procs, Keeps, Alike(p), Types',
         Sound(proc'[p], cat, rows, idx, stranded), Locks', OneHolder', OneBuild'
  PROVE  Together'
  <1>1. setting' = setting /\ rows' = rows /\ idx' = idx /\ cat' = cat /\ stranded' = stranded
    BY DEF Keeps
  <1>2. Threads'
    <2>1. ASSUME NEW r \in Procs PROVE Sound(proc'[r], cat, rows, idx, stranded)
      <3>1. CASE r = p
        BY <3>1
      <3>2. CASE r # p
        BY <3>2 DEF Alike, Together, Threads
      <3> QED
        BY <3>1, <3>2
    <2> QED
      BY <1>1, <2>1 DEF Threads
  <1>3. Catalog' /\ Complete'
    BY <1>1, Zenon DEF Together, Catalog, Complete
  <1>4. (setting.engine = "rocksdb" /\ setting.jobs \subseteq RocksJobs)'
    BY <1>1 DEF Together
  <1> QED
    BY <1>2, <1>3, <1>4, Zenon DEF Together

LEMMA OnRocks ==
  ASSUME Together
  PROVE  /\ Engine!Pessimistic /\ Engine!Validates /\ ~Engine!Exclusive
         /\ setting.jobs \subseteq AllJobs
  BY DEF Together, AllJobs, Engine!Pessimistic, Engine!Validates, Engine!Exclusive

LEMMA HolderKept ==
  ASSUME OneHolder, NEW p \in Procs, Alike(p),
         CatThing \in proc'[p].tx.locked => CatThing \in proc[p].tx.locked
  PROVE  OneHolder'
  BY DEF OneHolder, Alike

LEMMA SlideTogether ==
  ASSUME Together, Types', NEW p \in Procs, Slides(p)
  PROVE  Together'
  <1> DEFINE q == proc[p]
             n == proc'[p]
  <1>1. /\ Keeps /\ Alike(p) /\ n.job = q.job /\ n.pc = q.pc + 1 /\ n.tx = q.tx /\ q.pc \in Nat
        /\ q.job \in RocksJobs \union {"idle"}
    BY Own, Zenon DEF Slides, Moves, Shape
  <1>2. Sound(proc'[p], cat, rows, idx, stranded)
    BY SlideSound
  <1>3. OneHolder'
    BY <1>1, HolderKept, Zenon DEF Together
  <1>4. /\ \A r \in Procs : r # Nobody
        /\ \A r \in Procs : r # p => proc'[r] = proc[r]
    BY <1>1, IndexAssumption DEF Alike
  <1>5. /\ \A r \in Procs : proc[r].job \in {"single", "import"} /\ proc[r].pc \in 2..5 => r \in lock.shared
        /\ \A r \in Procs : proc[r].job = "hnsw" /\ proc[r].pc \in 10..13 => lock.excl = r
        /\ lock.excl # Nobody => lock.shared = {}
    BY DEF Together, Locks
  <1>6. /\ \A r \in Procs : proc[r].job = "hnsw" /\ proc[r].pc > 1 => building
        /\ \A r, s \in Procs : proc[r].job = "hnsw" /\ proc[r].pc > 1
                                 /\ proc[s].job = "hnsw" /\ proc[s].pc > 1 => r = s
    BY DEF Together, OneBuild
  <1> DEFINE Mine == /\ n.job \in {"single", "import"} /\ n.pc \in 2..5 => p \in lock'.shared
                     /\ n.job = "hnsw" /\ n.pc \in 10..13 => lock'.excl = p
                     /\ lock'.excl # Nobody => lock'.shared = {}
             Theirs == /\ \A r \in Procs : r # p /\ r \in lock.shared => r \in lock'.shared
                       /\ \A r \in Procs : r # p /\ lock.excl = r => lock'.excl = r
             Marks == \/ building' = building /\ (n.job = "hnsw" => q.pc > 1)
                      \/ ~building /\ building'
  <1>7. Mine /\ Theirs /\ Marks
    <2>1. CASE /\ In(p, "Shared") /\ lock.excl = Nobody /\ building' = building
               /\ lock'.shared = lock.shared \union {p} /\ lock'.excl = lock.excl
      <3>1. q.job # "hnsw"
        BY <2>1, Zenon DEF In, StepAt
      <3> QED
        BY <1>1, <1>4, <1>5, <2>1, <3>1, Zenon
    <2>2. CASE /\ In(p, "Exclusive") /\ lock.excl = Nobody /\ lock.shared = {} /\ building' = building
               /\ lock'.shared = {} /\ lock'.excl = p
      <3>1. q.job \notin {"single", "import"} /\ (q.job = "hnsw" => q.pc > 1)
        BY <1>1, <2>2, InFacts, SMTT(20), Z3T(20)
      <3> QED
        BY <1>1, <1>4, <1>5, <2>2, <3>1, Zenon
    <2>3. CASE In(p, "Release") /\ lock' = Without(p) /\ building' = building
      <3>1. /\ q.job \in {"single", "import"} => n.pc = 6
            /\ q.job = "hnsw" => n.pc \in {7, 14} /\ q.pc > 1
        BY <1>1, <2>3, InFacts, SMTT(20), Z3T(20)
      <3>2. lock'.shared = lock.shared \ {p} /\ lock'.excl = IF lock.excl = p THEN Nobody ELSE lock.excl
        BY <2>3, WithoutType, Zenon, SMTT(20) DEF Together
      <3>3. Mine
        BY <1>1, <1>5, <3>1, <3>2, SMTT(20), Z3T(20)
      <3>4. Theirs
        BY <3>2, Zenon
      <3> QED
        BY <1>1, <2>3, <3>1, <3>3, <3>4, Zenon, SMTT(20)
    <2>4. CASE In(p, "Enlist") /\ lock' = lock /\ ~building /\ building'
      <3>1. q.job = "hnsw" /\ n.pc = 2
        BY <1>1, <2>4, InFacts, SMTT(20), Z3T(20)
      <3>2. lock' = lock
        BY <2>4, Zenon
      <3>3. Mine /\ Theirs
        BY <1>1, <1>5, <3>1, <3>2, SMTT(20), Z3T(20)
      <3>4. Marks
        BY <2>4, Zenon
      <3> QED
        BY <3>3, <3>4, Zenon, SMTT(20)
    <2>5. CASE In(p, "Scan") /\ lock' = lock /\ building' = building
      <3>1. q.job = "hnsw" /\ n.pc = 8 /\ q.pc = 7
        BY <1>1, <2>5, InFacts, SMTT(20), Z3T(20)
      <3> QED
        BY <1>1, <1>5, <2>5, <3>1, SMTT(20), Z3T(20)
    <2> QED
      BY <2>1, <2>2, <2>3, <2>4, <2>5, Zenon DEF Slides
  <1> HIDE DEF n, q
  <1>8. Locks'
    <2>1. \A r \in Procs : proc'[r].job \in {"single", "import"} /\ proc'[r].pc \in 2..5 => r \in lock'.shared
      BY <1>4, <1>5, <1>7, Zenon DEF n
    <2>2. \A r \in Procs : proc'[r].job = "hnsw" /\ proc'[r].pc \in 10..13 => lock'.excl = r
      BY <1>4, <1>5, <1>7, Zenon DEF n
    <2> QED
      BY <1>7, <2>1, <2>2, Zenon DEF Locks
  <1>9. OneBuild'
    <2>1. CASE building' = building /\ (n.job = "hnsw" => q.pc > 1)
      <3>1. \A r \in Procs : proc'[r].job = "hnsw" /\ proc'[r].pc > 1 => proc[r].job = "hnsw" /\ proc[r].pc > 1
        BY <1>1, <1>4, <2>1, Zenon, SMTT(20) DEF n, q
      <3> QED
        BY <1>6, <2>1, <3>1, Zenon DEF OneBuild
    <2>2. CASE ~building /\ building'
      <3>1. \A r \in Procs : proc'[r].job = "hnsw" /\ proc'[r].pc > 1 => r = p
        BY <1>4, <1>6, <2>2, Zenon
      <3> QED
        BY <2>2, <3>1 DEF OneBuild
    <2> QED
      BY <1>7, <2>1, <2>2, Zenon
  <1> QED
    BY <1>1, <1>2, <1>3, <1>8, <1>9, QuietTogether, Zenon

LEMMA EndTogether ==
  ASSUME Together, Types', NEW p \in Procs, Ends(p)
  PROVE  Together'
  <1> DEFINE q == proc[p]
             n == proc'[p]
  <1>1. Keeps /\ Alike(p) /\ n.tx = NoTx /\ n.pc \in {0, 1} /\ (lock' = lock \/ lock' = Without(p))
    BY DEF Ends
  <1>2. Sound(proc'[p], cat, rows, idx, stranded)
    BY EndSound
  <1>3. OneHolder'
    BY <1>1, HolderKept, NoTxType, Zenon DEF Together
  <1>4. \A r \in Procs : r # p => proc'[r] = proc[r]
    BY <1>1 DEF Alike
  <1>5. /\ \A r \in Procs : proc[r].job \in {"single", "import"} /\ proc[r].pc \in 2..5 => r \in lock.shared
        /\ \A r \in Procs : proc[r].job = "hnsw" /\ proc[r].pc \in 10..13 => lock.excl = r
        /\ lock.excl # Nobody => lock.shared = {}
    BY DEF Together, Locks
  <1>6. /\ lock'.excl # Nobody => lock'.shared = {}
        /\ \A r \in Procs : r # p /\ r \in lock.shared => r \in lock'.shared
        /\ \A r \in Procs : r # p /\ lock.excl = r => lock'.excl = r
    <2>1. CASE lock' = lock
      BY <1>5, <2>1
    <2>2. CASE lock' = Without(p)
      <3>1. lock'.shared = lock.shared \ {p} /\ lock'.excl = IF lock.excl = p THEN Nobody ELSE lock.excl
        BY <2>2, WithoutType DEF Together
      <3> QED
        BY <1>5, <3>1, Zenon
    <2> QED
      BY <1>1, <2>1, <2>2, Zenon
  <1>7. Locks'
    <2>1. \A r \in Procs : proc'[r].job \in {"single", "import"} /\ proc'[r].pc \in 2..5 => r \in lock'.shared
      BY <1>1, <1>4, <1>5, <1>6, SMTT(20), Z3T(20)
    <2>2. \A r \in Procs : proc'[r].job = "hnsw" /\ proc'[r].pc \in 10..13 => lock'.excl = r
      BY <1>1, <1>4, <1>5, <1>6, SMTT(20), Z3T(20)
    <2> QED
      BY <1>6, <2>1, <2>2, Zenon DEF Locks
  <1>8. /\ \A r \in Procs : proc[r].job = "hnsw" /\ proc[r].pc > 1 => building
        /\ \A r, s \in Procs : proc[r].job = "hnsw" /\ proc[r].pc > 1
                                 /\ proc[s].job = "hnsw" /\ proc[s].pc > 1 => r = s
    BY DEF Together, OneBuild
  <1>9. \A r \in Procs : proc'[r].job = "hnsw" /\ proc'[r].pc > 1 => r # p /\ proc[r].job = "hnsw" /\ proc[r].pc > 1
    BY <1>1, <1>4, SMTT(20), Z3T(20)
  <1>10. OneBuild'
    <2>1. CASE building' = building
      BY <1>8, <1>9, <2>1, Zenon, SMTT(20) DEF OneBuild
    <2>2. CASE q.job = "hnsw" /\ (q.tx.open \/ q.pc > 1)
      <3>1. q.pc > 1
        BY <2>2, Own, SMTT(20), Z3T(20) DEF Shape, OpenAt
      <3>2. \A r \in Procs : ~(proc'[r].job = "hnsw" /\ proc'[r].pc > 1)
        BY <1>8, <1>9, <2>2, <3>1, Zenon, SMTT(20)
      <3> QED
        BY <3>2, Zenon DEF OneBuild
    <2> QED
      BY <2>1, <2>2, Zenon DEF Ends
  <1> QED
    BY <1>1, <1>2, <1>3, <1>7, <1>10, QuietTogether, Zenon

\* Steps in the transaction: the lock and the mark stay.
LEMMA WorkTogether ==
  ASSUME Together, Types', NEW p \in Procs, Opens(p) \/ Writes(p) \/ Defines(p)
  PROVE  Together'
  <1> DEFINE q == proc[p]
             n == proc'[p]
  <1>1. /\ Keeps /\ Alike(p) /\ n.job = q.job /\ n.pc = q.pc + 1 /\ lock' = lock /\ building' = building
        /\ q.pc \in Nat /\ n.tx \in TxType
    BY Own DEF Opens, Writes, Defines, InPlace, Moves, Types, ProcType
  <1>2. Sound(proc'[p], cat, rows, idx, stranded)
    <2>1. Defines(p) => ~In(p, "Create")
      BY Own, Zenon DEF Shape, In, StepAt, RocksJobs
    <2> QED
      BY <1>1, <2>1, OpenSound, WriteSound, ReindexSound, DropSound, BuildSound, Zenon DEF Defines
  <1>3. \/ q.job \in {"single", "import"} /\ q.pc \in {2, 3}
        \/ q.job \in {"reindex", "drop"}
        \/ q.job = "hnsw" /\ q.pc \in {3, 4, 10, 11}
    BY Own, Zenon DEF Opens, Writes, Defines, In, StepAt, Shape, RocksJobs
  <1>4. \A r \in Procs : r # p => proc'[r] = proc[r]
    BY <1>1, Zenon DEF Alike
  <1>5. OneHolder'
    <2>1. CASE Opens(p) \/ Writes(p)
      <3>1. CatThing \in n.tx.locked => CatThing \in q.tx.locked
        BY <2>1, FreshTx, Zenon DEF Opens, Writes, PutsRow, Rest
      <3> QED
        BY <1>1, <3>1, HolderKept, Zenon DEF Together
    <2>2. CASE Defines(p)
      <3>1. \A r \in Procs \ {p} : CatThing \notin proc[r].tx.locked
        BY <2>2, OnRocks, Zenon DEF Defines, CatFree
      <3> QED
        BY <1>4, <3>1 DEF OneHolder
    <2> QED
      BY <2>1, <2>2
  <1>6. Locks'
    <2>1. /\ \A r \in Procs : proc[r].job \in {"single", "import"} /\ proc[r].pc \in 2..5 => r \in lock.shared
          /\ \A r \in Procs : proc[r].job = "hnsw" /\ proc[r].pc \in 10..13 => lock.excl = r
          /\ lock.excl # Nobody => lock.shared = {}
      BY DEF Together, Locks
    <2>2. \A r \in Procs : /\ proc'[r].job = proc[r].job
                           /\ proc'[r].job \in {"single", "import"} /\ proc'[r].pc \in 2..5 => proc[r].pc \in 2..5
                           /\ proc'[r].job = "hnsw" /\ proc'[r].pc \in 10..13 => proc[r].pc \in 10..13
      BY <1>1, <1>3, <1>4, SMTT(20), Z3T(20)
    <2> QED
      BY <1>1, <2>1, <2>2, Zenon DEF Locks
  <1>7. OneBuild'
    <2>1. \A r \in Procs : proc'[r].job = "hnsw" /\ proc'[r].pc > 1 => proc[r].job = "hnsw" /\ proc[r].pc > 1
      BY <1>1, <1>3, <1>4, SMTT(20), Z3T(20)
    <2>2. OneBuild
      BY DEF Together
    <2> QED
      BY <1>1, <2>1, <2>2, Zenon, SMTT(20) DEF OneBuild
  <1> QED
    BY <1>1, <1>2, <1>5, <1>6, <1>7, QuietTogether, Zenon

LEMMA CrashTogether ==
  ASSUME Together, Types', Crashes
  PROVE  Together'
  <1>1. /\ setting' = setting /\ rows' = rows /\ idx' = idx /\ cat' = cat /\ stranded' = stranded
        /\ \A r \in Procs : proc'[r] = Idle
        /\ lock'.shared = {} /\ lock'.excl = Nobody
    BY DEF Crashes, Keeps
  <1>2. Threads'
    BY <1>1, IdleType, IdleSound, Zenon DEF Threads
  <1>3. Catalog' /\ Complete'
    BY <1>1 DEF Together, Catalog, Complete
  <1>4. Locks' /\ OneHolder' /\ OneBuild'
    BY <1>1, IdleType, NoTxType DEF Locks, OneHolder, OneBuild
  <1> QED
    BY <1>1, <1>2, <1>3, <1>4 DEF Together

-----------------------------------------------------------------------------
(* RocksDB: steps that change the store. *)

LEMMA IngestTogether ==
  ASSUME Together, Types', NEW p \in Procs, Ingests(p)
  PROVE  Together'
  <1> DEFINE q == proc[p]
             n == proc'[p]
  <1>0. /\ q.pc \in Nat /\ Shape(q) /\ Builder(q, cat, rows, idx) /\ Foreign(q, cat) /\ Types /\ Catalog
        /\ q.id \in AnyId /\ q.seen \in SUBSET Entries
    BY Own, Zenon DEF Together
  <1>1. /\ n.job = q.job /\ n.pc = q.pc + 1 /\ n.tx = q.tx /\ n.id = q.id /\ n.seen = q.seen
        /\ Alike(p)
    BY DEF Ingests, Moves
  <1>2. q.job = "hnsw" /\ q.pc = 8
    BY <1>0, Zenon DEF Ingests, In, StepAt
  <1>3. n.job = "hnsw" /\ n.pc = 9
    BY <1>1, <1>2, SMTT(20), Z3T(20)
  <1>4. cat.pub = 0 /\ q.id = cat.named /\ q.id \in Ids /\ idx[q.id] = {}
    BY <1>0, <1>2, SMTT(20), Z3T(20) DEF Builder
  <1>5. setting' = setting /\ rows' = rows /\ cat' = cat /\ stranded' = stranded /\ lock' = lock /\ building' = building
    BY DEF Ingests
  <1>6. idx'[q.id] = q.seen /\ \A i \in Ids : i # q.id => idx'[i] = idx[i]
    BY <1>0, <1>4, Zenon DEF Ingests, Types
  <1>7. \A r \in Procs : r # p => proc'[r] = proc[r]
    BY <1>1 DEF Alike
  <1>8. Sound(n, cat, rows, idx', stranded)
    <2>1. Shape(n) /\ Writer(n, cat, rows) /\ Reindexer(n, cat, rows, idx', stranded) /\ Dropper(n, cat)
      BY <1>0, <1>1, <1>2, <1>3, SMTT(20), Z3T(20) DEF Shape, OpenAt, Unworked, Writer, Reindexer, Dropper
    <2>2. Builder(n, cat, rows, idx')
      BY <1>1, <1>3, <1>4, <1>6, SMTT(20), Z3T(20) DEF Builder
    <2>3. Foreign(n, cat)
      BY <1>0, <1>1, Zenon DEF Foreign
    <2> QED
      BY <2>1, <2>2, <2>3 DEF Sound
  <1>9. ASSUME NEW r \in Procs, r # p PROVE Sound(proc'[r], cat, rows, idx', stranded)
    <2>1. /\ Shape(proc[r]) /\ Writer(proc[r], cat, rows) /\ Dropper(proc[r], cat) /\ Foreign(proc[r], cat)
          /\ Reindexer(proc[r], cat, rows, idx, stranded)
      BY Own, Zenon
    <2>2. Reindexer(proc[r], cat, rows, idx', stranded)
      BY <1>4, <2>1, Zenon DEF Reindexer
    <2>3. ~(proc[r].job = "hnsw" /\ proc[r].pc > 1)
      BY <1>2, <1>9, SMTT(20), Z3T(20) DEF Together, OneBuild
    <2>4. Builder(proc[r], cat, rows, idx')
      BY <2>3, SMTT(20), Z3T(20) DEF Builder
    <2> QED
      BY <1>7, <1>9, <2>1, <2>2, <2>4, Zenon DEF Sound
  <1>10. Threads'
    BY <1>5, <1>8, <1>9, Zenon, SMTT(20) DEF Threads
  <1>11. Catalog' /\ Complete'
    <2>1. cat.named < cat.next /\ cat.next # 0 /\ \A i \in Ids : cat.next <= i => idx[i] = {}
      BY <1>0, Zenon DEF Catalog
    <2>2. cat.named \in Nat /\ cat.next \in Nat /\ \A i \in Ids : i \in Nat
      BY <1>0, SMTT(20), Z3T(20) DEF Types, CatType, AnyId, Ids
    <2>3. \A i \in Ids : cat.next <= i => idx'[i] = {}
      BY <1>4, <1>6, <2>1, <2>2, SMTT(20), Z3T(20)
    <2> QED
      BY <1>4, <1>5, <2>1, <2>3 DEF Catalog, Complete
  <1>12. OneHolder'
    BY <1>1, HolderKept, Zenon DEF Together
  <1>13. Locks' /\ OneBuild'
    <2>1. \A r \in Procs : /\ proc'[r].job = proc[r].job
                           /\ r # p => proc'[r].pc = proc[r].pc
      BY <1>1, <1>7
    <2>2. OneBuild /\ Locks
      BY DEF Together
    <2>3. Locks'
      BY <1>3, <1>5, <2>1, <2>2, SMTT(20), Z3T(20) DEF Locks
    <2>4. \A r \in Procs : proc'[r].job = "hnsw" /\ proc'[r].pc > 1 => proc[r].job = "hnsw" /\ proc[r].pc > 1
      BY <1>2, <2>1, SMTT(20), Z3T(20)
    <2>5. OneBuild'
      BY <1>5, <2>2, <2>4, Zenon DEF OneBuild
    <2> QED
      BY <2>3, <2>5
  <1>14. (setting.engine = "rocksdb" /\ setting.jobs \subseteq RocksJobs)'
    BY <1>5 DEF Together
  <1> QED
    BY <1>10, <1>11, <1>12, <1>13, <1>14, Zenon DEF Together

\* Transactions that have done the same.
Like(t, u) ==
  /\ t.open = u.open /\ t.row = u.row /\ t.put = u.put /\ t.del = u.del /\ t.cat = u.cat
  /\ t.locked = u.locked /\ t.warned = u.warned

LEMMA LikeFacts ==
  ASSUME NEW t, NEW u, Like(t, u)
  PROVE  /\ \A i, e : (Puts(t, i, e) <=> Puts(u, i, e)) /\ (Dels(t, i, e) <=> Dels(u, i, e))
                        /\ (Touches(t, i, e) <=> Touches(u, i, e))
         /\ NoRows(t) <=> NoRows(u)
         /\ Bare(t) <=> Bare(u)
         /\ Written(t) = Written(u)
         /\ \A rw : After(rw, t) = After(rw, u)
         /\ \A i, rw : Delta(t, i, rw) <=> Delta(u, i, rw)
         /\ \A i, rw, es : Heal(t, i, rw, es) <=> Heal(u, i, rw, es)
         /\ \A i : (Local(t, i) <=> Local(u, i)) /\ (OnlyAt(t, i) <=> OnlyAt(u, i))
         /\ \A i, es : Seen(es, t, i) = Seen(es, u, i)
  <1>1. \A i, e : (Puts(t, i, e) <=> Puts(u, i, e)) /\ (Dels(t, i, e) <=> Dels(u, i, e))
                    /\ (Touches(t, i, e) <=> Touches(u, i, e))
    BY Zenon DEF Like, Puts, Dels, Touches
  <1>2. (NoRows(t) <=> NoRows(u)) /\ (Bare(t) <=> Bare(u)) /\ Written(t) = Written(u)
    BY DEF Like, NoRows, Bare, Written
  <1>3. \A rw : After(rw, t) = After(rw, u)
    BY DEF Like, After
  <1>4. \A i, rw : Delta(t, i, rw) <=> Delta(u, i, rw)
    BY <1>1, <1>3 DEF Delta
  <1>5. \A i, rw, es : Heal(t, i, rw, es) <=> Heal(u, i, rw, es)
    BY <1>1 DEF Heal
  <1>6. \A i : (Local(t, i) <=> Local(u, i)) /\ (OnlyAt(t, i) <=> OnlyAt(u, i))
    BY <1>1, Zenon DEF Local, OnlyAt, Like
  <1>7. \A i, es : Seen(es, t, i) = Seen(es, u, i)
    BY <1>1 DEF Seen
  <1> QED
    BY <1>1, <1>2, <1>3, <1>4, <1>5, <1>6, <1>7, Zenon

\* The other threads when one commits.
LEMMA Passed ==
  ASSUME Together, NEW p \in Procs, Commits(p), NEW r \in Procs, r # p, Types'
  PROVE  /\ proc'[r].job = proc[r].job /\ proc'[r].pc = proc[r].pc /\ proc'[r].id = proc[r].id
         /\ proc'[r].seen = proc[r].seen /\ proc'[r].tx \in TxType
         /\ Like(proc'[r].tx, proc[r].tx) /\ Shape(proc'[r])
         /\ proc'[r].tx.heals <=> proc[r].tx.heals /\ ~proc[p].tx.warned
         /\ proc[r].tx.open /\ Clean(proc'[r].tx) => Clean(proc[r].tx) /\ Apart(proc[r].tx, proc[p].tx)
  <1> DEFINE q == proc[r]
             n == proc'[r]
             tx == proc[p].tx
  <1>0. q.tx \in TxType /\ Shape(q) /\ tx \in TxType
    BY Own, Zenon
  <1>1. /\ n.job = q.job /\ n.pc = q.pc /\ n.id = q.id /\ n.seen = q.seen
        /\ ~q.tx.open => n = q
        /\ q.tx.open => Overtaken(n.tx, q.tx, tx)
    BY Zenon DEF Commits
  <1>2. n.tx \in TxType
    BY DEF Types, ProcType
  <1> HIDE DEF q, n, tx
  <1>3. Like(n.tx, q.tx)
    BY <1>1 DEF Like, Overtaken
  <1>4. n.tx.heals <=> q.tx.heals /\ ~tx.warned
    <2>1. CASE q.tx.open
      BY <1>1, <2>1, Zenon DEF Overtaken
    <2>2. CASE ~q.tx.open
      <3>1. q.tx = NoTx /\ n = q
        BY <1>0, <1>1, <2>2, Zenon, SMTT(20) DEF Shape
      <3>2. ~NoTx.heals
        BY DEF NoTx
      <3> QED
        BY <3>1, <3>2, Zenon
    <2> QED
      BY <2>1, <2>2
  <1>5. Shape(n)
    <2>1. (OpenAt(n) <=> OpenAt(q)) /\ (Unworked(n) <=> Unworked(q))
      BY <1>1 DEF OpenAt, Unworked
    <2>2. Blank(q.tx) => Blank(n.tx)
      BY <1>3, <1>4, LikeFacts, Zenon DEF Blank, Like
    <2>3. n.tx.open = q.tx.open
      BY <1>3 DEF Like
    <2> QED
      BY <1>0, <1>1, <2>1, <2>2, <2>3, Zenon DEF Shape
  <1>6. ASSUME q.tx.open, Clean(n.tx) PROVE Clean(q.tx) /\ Apart(q.tx, tx)
    <2>1. Written(n.tx) = Written(q.tx)
      BY <1>3, LikeFacts, Zenon, SMTT(20)
    <2>2. n.tx.stale = q.tx.stale \union Written(tx)
      BY <1>1, <1>6 DEF Overtaken
    <2>3. Written(q.tx) \intersect (q.tx.stale \union Written(tx)) = {}
      BY <1>6, <2>1, <2>2 DEF Clean
    <2>4. Written(q.tx) \intersect q.tx.stale = {} /\ Written(q.tx) \intersect Written(tx) = {}
      BY <2>3
    <2> QED
      BY <1>0, <2>4, ApartIfDisjoint DEF Clean
  <1> QED
    BY <1>1, <1>2, <1>3, <1>4, <1>5, <1>6, Zenon DEF q, n, tx

\* What a commit finds: no conflict, and entries where it does not write as before.
LEMMA CommitBase ==
  ASSUME Together, NEW p \in Procs, Commits(p)
  PROVE  /\ Clean(proc[p].tx)
         /\ rows' = After(rows, proc[p].tx) /\ cat' = Cat(proc[p].tx) /\ setting' = setting
         /\ \A i \in Ids : idx'[i] = Seen(idx[i], proc[p].tx, i)
         /\ \A i \in Ids : (\A e \in Entries : ~Touches(proc[p].tx, i, e)) => idx'[i] = idx[i]
         /\ \/ proc[p].job \in {"single", "import"} /\ proc[p].pc = 4
            \/ proc[p].job = "reindex" /\ proc[p].pc = 5
            \/ proc[p].job = "drop" /\ proc[p].pc = 5
            \/ proc[p].job = "hnsw" /\ proc[p].pc = 5
            \/ proc[p].job = "hnsw" /\ proc[p].pc = 12
  <1>0. proc[p].tx \in TxType /\ Shape(proc[p]) /\ Types
    BY Own, Zenon DEF Together
  <1>1. Clean(proc[p].tx)
    BY OnRocks, Zenon DEF Commits, Clean
  <1>2. rows' = After(rows, proc[p].tx) /\ cat' = Cat(proc[p].tx) /\ setting' = setting
    BY Zenon DEF Commits
  <1>3. \A i \in Ids : idx'[i] = Seen(idx[i], proc[p].tx, i)
    BY Zenon DEF Commits
  <1>4. ASSUME NEW i \in Ids, \A e \in Entries : ~Touches(proc[p].tx, i, e) PROVE idx'[i] = idx[i]
    <2>1. i \in AnyId /\ idx[i] \in SUBSET Entries
      BY <1>0, SMTT(20), Z3T(20) DEF AnyId, Ids, Types
    <2> QED
      BY <1>0, <1>3, <1>4, <2>1, SeenElsewhere, Zenon
  <1>5. \/ proc[p].job \in {"single", "import"} /\ proc[p].pc = 4
        \/ proc[p].job = "reindex" /\ proc[p].pc = 5
        \/ proc[p].job = "drop" /\ proc[p].pc = 5
        \/ proc[p].job = "hnsw" /\ proc[p].pc = 5
        \/ proc[p].job = "hnsw" /\ proc[p].pc = 12
    BY <1>0, Zenon, SMTT(20) DEF Commits, In, StepAt, Shape, RocksJobs
  <1> QED
    BY <1>1, <1>2, <1>3, <1>4, <1>5, Zenon

\* Where the one that commits holds the catalog row, nobody else has worked on it.
LEMMA HolderAlone ==
  ASSUME Together, NEW p \in Procs, CatThing \in proc[p].tx.locked, NEW r \in Procs, r # p
  PROVE  /\ ~(proc[r].job \in {"reindex", "drop"} /\ proc[r].pc \in {4, 5})
         /\ ~(proc[r].job = "hnsw" /\ proc[r].pc \in {5, 12})
  <1>1. CatThing \notin proc[r].tx.locked
    BY Zenon DEF Together, OneHolder
  <1>2. /\ Reindexer(proc[r], cat, rows, idx, stranded) /\ Dropper(proc[r], cat)
        /\ Builder(proc[r], cat, rows, idx)
    BY Own, Zenon
  <1> QED
    BY <1>1, <1>2 DEF Reindexer, Dropper, Builder

\* A commit of rows, with or without their entries.
LEMMA WriterCommits ==
  ASSUME Together, Types', NEW p \in Procs, Commits(p), proc[p].job \in {"single", "import"}, proc[p].pc = 4
  PROVE  Threads' /\ Catalog' /\ Complete'
  <1> DEFINE tx == proc[p].tx
             id == cat.pub
  <1>0. /\ tx \in TxType /\ Writer(proc[p], cat, rows) /\ Foreign(proc[p], cat) /\ Types /\ Catalog /\ Complete
        /\ Locks /\ rows \in RowsType
    BY Own, Zenon DEF Together, Types
  <1>1. /\ tx.cat = NoCat /\ tx.locked = {} /\ ~tx.heals
        /\ id # 0 /\ ~tx.warned => Local(tx, id) /\ Delta(tx, id, rows)
    BY <1>0, CommitBase, Zenon DEF Writer
  <1>2. /\ rows' = After(rows, tx) /\ cat' = cat
        /\ \A i \in Ids : idx'[i] = Seen(idx[i], tx, i)
        /\ \A i \in Ids : (\A e \in Entries : ~Touches(tx, i, e)) => idx'[i] = idx[i]
    BY <1>1, CommitBase, Zenon DEF Cat
  <1>3. stranded' <=> tx.warned \/ stranded
    <2>1. stranded' = (tx.warned \/ (stranded /\ ~tx.heals))
      BY Zenon DEF Commits
    <2> QED
      BY <1>1, <2>1, Zenon
  <1>4. /\ cat.pub \in AnyId /\ cat.named \in Nat /\ cat.next \in Nat
        /\ \A i \in Ids : i \in AnyId /\ i \in Nat /\ idx[i] \in SUBSET Entries
        /\ cat.pub # 0 => cat.pub \in Ids
    BY <1>0, SMTT(20), Z3T(20) DEF Types, CatType, AnyId, Ids
  <1>5. \A i \in AnyId, e \in Entries : Touches(tx, i, e) => i < cat.next /\ (cat.pub = 0 => i # cat.named)
    BY <1>0, Zenon DEF Foreign
  <1>6. Catalog'
    <2>1. \A i \in Ids : cat.next <= i => idx'[i] = {}
      <3> SUFFICES ASSUME NEW i \in Ids, cat.next <= i PROVE idx'[i] = {}
        OBVIOUS
      <3>1. \A e \in Entries : ~Touches(tx, i, e)
        BY <1>4, <1>5, SMTT(20), Z3T(20)
      <3> QED
        BY <1>0, <1>2, <3>1, Zenon, SMTT(20) DEF Catalog
    <2> QED
      BY <1>0, <1>2, <2>1, Zenon DEF Catalog
  <1>7. Complete'
    <2>1. ASSUME cat.pub # 0, ~stranded' PROVE Full(idx'[cat.pub], rows')
      <3>1. ~tx.warned /\ ~stranded
        BY <1>3, <2>1
      <3>2. Full(idx[cat.pub], rows) /\ Delta(tx, cat.pub, rows) /\ idx[cat.pub] \in SUBSET Entries /\ cat.pub \in Ids
        BY <1>0, <1>1, <1>4, <2>1, <3>1, Zenon DEF Complete
      <3>3. Full(Seen(idx[cat.pub], tx, cat.pub), After(rows, tx))
        BY <1>0, <1>4, <3>2, FullHeals, DeltaFull, Zenon
      <3> QED
        BY <1>2, <3>2, <3>3, Zenon, SMTT(20)
    <2> QED
      BY <1>2, <2>1, Zenon DEF Complete
  <1>8. Sound(proc'[p], cat', rows', idx', stranded')
    <2>1. proc'[p].tx = NoTx /\ proc'[p].job = proc[p].job /\ proc'[p].pc = 5
      BY SMTT(20), Z3T(20) DEF Commits, Last
    <2>2. proc'[p].job \in RocksJobs
      BY <2>1 DEF RocksJobs
    <2> QED
      BY <2>1, <2>2, IdleSound, Zenon, SMTT(20)
  <1>9. ASSUME NEW r \in Procs, r # p
        PROVE  Sound(proc'[r], cat', rows', idx', stranded')
    <2> DEFINE q == proc[r]
               n == proc'[r]
    <2>0. /\ Shape(q) /\ Writer(q, cat, rows) /\ Reindexer(q, cat, rows, idx, stranded) /\ Dropper(q, cat)
          /\ Builder(q, cat, rows, idx) /\ Foreign(q, cat) /\ q.tx \in TxType
      BY Own, Zenon
    <2>1. /\ n.job = q.job /\ n.pc = q.pc /\ n.id = q.id /\ n.seen = q.seen /\ n.tx \in TxType
          /\ Like(n.tx, q.tx) /\ Shape(n)
          /\ n.tx.heals <=> q.tx.heals /\ ~tx.warned
          /\ q.tx.open /\ Clean(n.tx) => Clean(q.tx) /\ Apart(q.tx, tx)
      BY <1>9, Passed, Zenon, SMTT(20)
    <2>2. ~(q.job = "hnsw" /\ q.pc \in 10..13)
      BY <1>0, IndexAssumption, SMTT(20), Z3T(20) DEF Locks
    <2> HIDE DEF q, n, tx
    <2>3. /\ \A i, e : Touches(n.tx, i, e) <=> Touches(q.tx, i, e)
          /\ NoRows(n.tx) <=> NoRows(q.tx)
          /\ Bare(n.tx) <=> Bare(q.tx)
          /\ \A rw : Delta(n.tx, id, rw) <=> Delta(q.tx, id, rw)
          /\ \A rw, es : Heal(n.tx, id, rw, es) <=> Heal(q.tx, id, rw, es)
          /\ (Local(n.tx, id) <=> Local(q.tx, id)) /\ (OnlyAt(n.tx, id) <=> OnlyAt(q.tx, id))
      BY <2>1, LikeFacts, Zenon
    <2>4. n.tx.cat = q.tx.cat /\ n.tx.locked = q.tx.locked /\ n.tx.warned = q.tx.warned
      BY <2>1, Zenon DEF Like
    <2>5. Writer(n, cat, After(rows, tx))
      <3> SUFFICES ASSUME q.job \in {"single", "import"}, q.pc = 4
                   PROVE  /\ n.tx.cat = NoCat /\ n.tx.locked = {} /\ ~n.tx.heals
                          /\ id # 0 /\ ~n.tx.warned =>
                               Local(n.tx, id) /\ (Clean(n.tx) => Delta(n.tx, id, After(rows, tx)))
        BY <2>1, Zenon DEF Writer
      <3>1. /\ q.tx.cat = NoCat /\ q.tx.locked = {} /\ ~q.tx.heals
            /\ id # 0 /\ ~q.tx.warned => Local(q.tx, id) /\ (Clean(q.tx) => Delta(q.tx, id, rows))
        BY <2>0, Zenon DEF Writer
      <3>2. q.tx.open
        BY <2>0, Zenon DEF Shape, OpenAt
      <3>3. ASSUME id # 0, ~n.tx.warned, Clean(n.tx) PROVE Delta(q.tx, id, After(rows, tx))
        <4>1. Local(q.tx, id) /\ Delta(q.tx, id, rows) /\ Apart(q.tx, tx)
          BY <2>1, <2>4, <3>1, <3>2, <3>3, Zenon
        <4> QED
          BY <1>0, <1>4, <2>0, <4>1, DeltaMerge, Zenon
      <3>4. ~n.tx.heals
        BY <2>1, <3>1, Zenon
      <3> QED
        BY <2>3, <2>4, <3>1, <3>3, <3>4, Zenon
    <2>6. Reindexer(n, cat, After(rows, tx), idx', stranded')
      <3> SUFFICES ASSUME q.job = "reindex", q.pc \in {4, 5}
                   PROVE  /\ NoRows(n.tx) /\ n.tx.cat = NoCat /\ n.tx.locked = {CatThing} /\ ~n.tx.warned
                          /\ \/ Bare(n.tx) /\ ~n.tx.heals
                             \/ /\ id # 0 /\ OnlyAt(n.tx, id)
                                /\ n.tx.heals /\ Clean(n.tx) =>
                                     Delta(n.tx, id, After(rows, tx)) /\ Heal(n.tx, id, After(rows, tx), idx'[id])
                                /\ ~n.tx.heals => stranded'
        BY <2>1, Zenon DEF Reindexer
      <3>1. /\ NoRows(q.tx) /\ q.tx.cat = NoCat /\ q.tx.locked = {CatThing} /\ ~q.tx.warned
            /\ \/ Bare(q.tx) /\ ~q.tx.heals
               \/ /\ id # 0 /\ OnlyAt(q.tx, id)
                  /\ q.tx.heals /\ Clean(q.tx) => Delta(q.tx, id, rows) /\ Heal(q.tx, id, rows, idx[id])
                  /\ ~q.tx.heals => stranded
        BY <2>0, Zenon DEF Reindexer
      <3>2. NoRows(n.tx) /\ n.tx.cat = NoCat /\ n.tx.locked = {CatThing} /\ ~n.tx.warned
        BY <2>3, <2>4, <3>1, Zenon, SMTT(20)
      <3>3. CASE Bare(q.tx) /\ ~q.tx.heals
        BY <2>1, <2>3, <3>2, <3>3, Zenon
      <3>4. CASE /\ id # 0 /\ OnlyAt(q.tx, id)
                 /\ q.tx.heals /\ Clean(q.tx) => Delta(q.tx, id, rows) /\ Heal(q.tx, id, rows, idx[id])
                 /\ ~q.tx.heals => stranded
        <4>1. q.tx.open
          BY <2>0, Zenon DEF Shape, OpenAt
        <4>2. ~n.tx.heals => stranded'
          BY <1>3, <2>1, <3>4, Zenon
        <4>3. ASSUME n.tx.heals, Clean(n.tx)
              PROVE  Delta(q.tx, id, After(rows, tx)) /\ Heal(q.tx, id, After(rows, tx), idx'[id])
          <5>1. q.tx.heals /\ ~tx.warned
            BY <2>1, <4>3, Zenon
          <5>2. Clean(q.tx) /\ Apart(q.tx, tx)
            BY <2>1, <4>1, <4>3, Zenon
          <5>3. Delta(q.tx, id, rows) /\ Heal(q.tx, id, rows, idx[id]) /\ Delta(tx, id, rows)
            BY <1>1, <3>4, <5>1, <5>2, Zenon
          <5>4. idx[id] \in SUBSET Entries /\ idx'[id] = Seen(idx[id], tx, id) /\ id \in AnyId
            BY <1>2, <1>4, <3>4, Zenon, SMTT(20)
          <5>5. Delta(q.tx, id, After(rows, tx))
            BY <1>0, <2>0, <5>2, <5>3, <5>4, DeltaMerge, Zenon, SMTT(20)
          <5>6. Heal(q.tx, id, After(rows, tx), Seen(idx[id], tx, id))
            BY <1>0, <2>0, <5>2, <5>3, <5>4, HealMerge, Zenon
          <5> QED
            BY <5>4, <5>5, <5>6, Zenon
        <4> QED
          BY <2>3, <3>2, <3>4, <4>2, <4>3, Zenon, SMTT(20)
      <3> QED
        BY <3>1, <3>3, <3>4, Zenon
    <2>7. Dropper(n, cat)
      BY <2>0, <2>1, <2>3, <2>4, Zenon, SMTT(20) DEF Dropper
    <2>8. Builder(n, cat, After(rows, tx), idx')
      <3>1. q.job = "hnsw" /\ q.pc \in 6..12 => idx'[q.id] = idx[q.id]
        <4> SUFFICES ASSUME q.job = "hnsw", q.pc \in 6..12 PROVE idx'[q.id] = idx[q.id]
          OBVIOUS
        <4>1. cat.pub = 0 /\ q.id = cat.named /\ q.id \in Ids
          BY <2>0, Zenon DEF Builder
        <4>2. \A e \in Entries : ~Touches(tx, q.id, e)
          BY <1>4, <1>5, <4>1, Zenon
        <4> QED
          BY <1>2, <4>1, <4>2, Zenon
      <3>2. q.job = "hnsw" /\ q.pc = 5 => ~q.tx.heals
        BY <2>0 DEF Builder
      <3>3. q.job = "hnsw" => q.pc # 12
        BY <2>2, SMTT(20), Z3T(20)
      <3> QED
        BY <2>0, <2>1, <2>3, <2>4, <3>1, <3>2, <3>3, Zenon, SMTT(20) DEF Builder
    <2>9. Foreign(n, cat)
      BY <2>0, <2>1, <2>3, Zenon DEF Foreign
    <2> QED
      BY <1>2, <2>1, <2>5, <2>6, <2>7, <2>8, <2>9, Zenon DEF Sound, n
  <1>10. Threads'
    BY <1>8, <1>9, Zenon DEF Threads
  <1> QED
    BY <1>6, <1>7, <1>10, Zenon, SMTT(20)

LEMMA NamedFacts ==
  ASSUME NEW c \in CatType, c.next \in Ids
  PROVE  /\ Named(c) \in CatType /\ Named(c).pub = c.pub /\ Named(c).named = c.next
         /\ Named(c).next = c.next + 1
  BY CatUpdates, Zenon

\* The others when the one that commits holds the catalog row and writes no rows.
LEMMA HolderOthers ==
  ASSUME Together, Types', NEW p \in Procs, Commits(p), CatThing \in proc[p].tx.locked,
         NEW r \in Procs, r # p, NEW c, c.pub = cat.pub \/ c.pub = 0, NEW ix, NEW st
  PROVE  /\ Shape(proc'[r]) /\ Writer(proc'[r], c, rows)
         /\ Reindexer(proc'[r], c, rows, ix, st) /\ Dropper(proc'[r], c)
         /\ proc'[r].job = proc[r].job /\ proc'[r].pc = proc[r].pc /\ proc'[r].id = proc[r].id
         /\ proc'[r].seen = proc[r].seen
         /\ ~(proc[r].job = "hnsw" /\ proc[r].pc \in {5, 12})
         /\ \A i, e : Touches(proc'[r].tx, i, e) <=> Touches(proc[r].tx, i, e)
  <1> DEFINE q == proc[r]
             n == proc'[r]
             tx == proc[p].tx
  <1>0. Shape(q) /\ Writer(q, cat, rows) /\ q.tx \in TxType
    BY Own, Zenon
  <1>1. /\ n.job = q.job /\ n.pc = q.pc /\ n.id = q.id /\ n.seen = q.seen
        /\ Like(n.tx, q.tx) /\ Shape(n)
        /\ n.tx.heals <=> q.tx.heals /\ ~tx.warned
        /\ q.tx.open /\ Clean(n.tx) => Clean(q.tx)
    BY Passed, Zenon, SMTT(20)
  <1>2. /\ ~(q.job \in {"reindex", "drop"} /\ q.pc \in {4, 5})
        /\ ~(q.job = "hnsw" /\ q.pc \in {5, 12})
    BY HolderAlone
  <1> HIDE DEF q, n, tx
  <1>3. /\ \A i, e : Touches(n.tx, i, e) <=> Touches(q.tx, i, e)
        /\ Delta(n.tx, cat.pub, rows) <=> Delta(q.tx, cat.pub, rows)
        /\ Local(n.tx, cat.pub) <=> Local(q.tx, cat.pub)
    BY <1>1, LikeFacts, Zenon
  <1>4. Writer(n, c, rows)
    <2> SUFFICES ASSUME q.job \in {"single", "import"}, q.pc = 4
                 PROVE  /\ n.tx.cat = NoCat /\ n.tx.locked = {} /\ ~n.tx.heals
                        /\ c.pub # 0 /\ ~n.tx.warned =>
                             Local(n.tx, c.pub) /\ (Clean(n.tx) => Delta(n.tx, c.pub, rows))
      BY <1>1, Zenon DEF Writer
    <2>1. /\ q.tx.cat = NoCat /\ q.tx.locked = {} /\ ~q.tx.heals
          /\ cat.pub # 0 /\ ~q.tx.warned => Local(q.tx, cat.pub) /\ (Clean(q.tx) => Delta(q.tx, cat.pub, rows))
      BY <1>0, Zenon DEF Writer
    <2>2. q.tx.open
      BY <1>0, Zenon, SMTT(20) DEF Shape, OpenAt
    <2>3. n.tx.cat = q.tx.cat /\ n.tx.locked = q.tx.locked /\ n.tx.warned = q.tx.warned
      BY <1>1 DEF Like
    <2> QED
      BY <1>1, <1>3, <2>1, <2>2, <2>3, Zenon, SMTT(20)
  <1>5. Reindexer(n, c, rows, ix, st) /\ Dropper(n, c)
    BY <1>1, <1>2, Zenon DEF Reindexer, Dropper
  <1> QED
    BY <1>1, <1>2, <1>3, <1>4, <1>5, Zenon, SMTT(20) DEF q, n

LEMMA ReindexCommits ==
  ASSUME Together, Types', NEW p \in Procs, Commits(p), proc[p].job = "reindex", proc[p].pc = 5
  PROVE  Threads' /\ Catalog' /\ Complete'
  <1> DEFINE tx == proc[p].tx
             id == cat.pub
  <1>0. /\ tx \in TxType /\ Reindexer(proc[p], cat, rows, idx, stranded) /\ Foreign(proc[p], cat)
        /\ Types /\ Catalog /\ Complete /\ rows \in RowsType
    BY Own, Zenon DEF Together, Types
  <1>1. /\ NoRows(tx) /\ tx.cat = NoCat /\ tx.locked = {CatThing} /\ ~tx.warned
        /\ \/ Bare(tx) /\ ~tx.heals
           \/ /\ id # 0 /\ OnlyAt(tx, id)
              /\ tx.heals => Delta(tx, id, rows) /\ Heal(tx, id, rows, idx[id])
              /\ ~tx.heals => stranded
    BY <1>0, CommitBase, Zenon DEF Reindexer
  <1>2. /\ rows' = rows /\ cat' = cat
        /\ \A i \in Ids : idx'[i] = Seen(idx[i], tx, i)
        /\ \A i \in Ids : (\A e \in Entries : ~Touches(tx, i, e)) => idx'[i] = idx[i]
    BY <1>0, <1>1, CommitBase, NoRowsAfter, Zenon DEF Cat
  <1>3. stranded' <=> stranded /\ ~tx.heals
    <2>1. stranded' = (tx.warned \/ (stranded /\ ~tx.heals))
      BY Zenon DEF Commits
    <2> QED
      BY <1>1, <2>1, Zenon
  <1>4. /\ cat.pub \in AnyId /\ cat.named \in Nat /\ cat.next \in Nat
        /\ \A i \in Ids : i \in AnyId /\ i \in Nat /\ idx[i] \in SUBSET Entries
        /\ cat.pub # 0 => cat.pub \in Ids
    BY <1>0, SMTT(20), Z3T(20) DEF Types, CatType, AnyId, Ids
  <1>5. \A i \in AnyId, e \in Entries : Touches(tx, i, e) => i < cat.next
    BY <1>0, Zenon DEF Foreign
  <1>6. Catalog'
    <2>1. \A i \in Ids : cat.next <= i => idx'[i] = {}
      <3> SUFFICES ASSUME NEW i \in Ids, cat.next <= i PROVE idx'[i] = {}
        BY Zenon
      <3>1. \A e \in Entries : ~Touches(tx, i, e)
        BY <1>4, <1>5, SMTT(20), Z3T(20)
      <3> QED
        BY <1>0, <1>2, <3>1, Zenon, SMTT(20) DEF Catalog
    <2> QED
      BY <1>0, <1>2, <2>1, Zenon DEF Catalog
  <1>7. Complete'
    <2>1. ASSUME cat.pub # 0, ~stranded' PROVE Full(idx'[cat.pub], rows)
      <3>0. cat.pub \in Ids /\ idx[cat.pub] \in SUBSET Entries
        BY <1>4, <2>1, Zenon
      <3>1. CASE tx.heals
        <4>1. Delta(tx, id, rows) /\ Heal(tx, id, rows, idx[id])
          BY <1>1, <3>1, Zenon
        <4>2. Full(Seen(idx[id], tx, id), After(rows, tx))
          BY <1>0, <1>4, <3>0, <4>1, DeltaFull, Zenon, SMTT(20)
        <4>3. After(rows, tx) = rows
          BY <1>0, <1>1, NoRowsAfter, Zenon, SMTT(20)
        <4> QED
          BY <1>2, <3>0, <4>2, <4>3, Zenon
      <3>2. CASE ~tx.heals
        <4>1. ~stranded /\ Bare(tx)
          BY <1>1, <1>3, <2>1, <3>2, Zenon
        <4>2. idx'[cat.pub] = idx[cat.pub]
          BY <1>0, <1>2, <3>0, <4>1, BareTouches, Zenon
        <4> QED
          BY <1>0, <2>1, <4>1, <4>2, Zenon DEF Complete
      <3> QED
        BY <3>1, <3>2, Zenon
    <2> QED
      BY <1>2, <2>1, Zenon DEF Complete
  <1>8. Sound(proc'[p], cat', rows', idx', stranded')
    <2>1. proc'[p] = Idle
      BY DEF Commits, Last
    <2> QED
      BY <2>1, IdleType, IdleSound, Zenon, SMTT(20)
  <1>9. ASSUME NEW r \in Procs, r # p
        PROVE  Sound(proc'[r], cat', rows', idx', stranded')
    <2> DEFINE q == proc[r]
               n == proc'[r]
    <2>0. Builder(q, cat, rows, idx) /\ Foreign(q, cat)
      BY Own, Zenon
    <2>1. /\ Shape(n) /\ Writer(n, cat, rows)
          /\ Reindexer(n, cat, rows, idx', stranded') /\ Dropper(n, cat)
          /\ n.job = q.job /\ n.pc = q.pc /\ n.id = q.id /\ n.seen = q.seen
          /\ ~(q.job = "hnsw" /\ q.pc \in {5, 12})
          /\ \A i, e : Touches(n.tx, i, e) <=> Touches(q.tx, i, e)
      BY <1>1, <1>9, HolderOthers, Zenon, SMTT(20)
    <2> HIDE DEF q, n, tx
    <2>2. q.job = "hnsw" /\ q.pc \in 6..12 => cat.pub = 0 /\ q.id \in Ids
      BY <2>0 DEF Builder
    <2>3. cat.pub = 0 => \A i \in Ids : idx'[i] = idx[i]
      BY <1>0, <1>1, <1>2, BareTouches, Zenon, SMTT(20)
    <2>4. Builder(n, cat, rows, idx')
      BY <2>0, <2>1, <2>2, <2>3, Zenon, SMTT(20) DEF Builder
    <2>5. Foreign(n, cat)
      BY <2>0, <2>1, Zenon DEF Foreign
    <2> QED
      BY <1>2, <2>1, <2>4, <2>5, Zenon DEF Sound, n
  <1>10. Threads'
    BY <1>8, <1>9, Zenon DEF Threads
  <1> QED
    BY <1>6, <1>7, <1>10, Zenon

LEMMA DropCommits ==
  ASSUME Together, Types', NEW p \in Procs, Commits(p), proc[p].job = "drop", proc[p].pc = 5
  PROVE  Threads' /\ Catalog' /\ Complete'
  <1> DEFINE tx == proc[p].tx
  <1>0. /\ tx \in TxType /\ Dropper(proc[p], cat) /\ Foreign(proc[p], cat)
        /\ Types /\ Catalog /\ rows \in RowsType /\ cat \in CatType
    BY Own, Zenon DEF Together, Types
  <1>1. /\ NoRows(tx) /\ tx.locked = {CatThing} /\ cat.pub # 0
        /\ tx.cat = [cat EXCEPT !.pub = 0, !.named = 0]
    BY <1>0 DEF Dropper
  <1>2. tx.cat \in CatType /\ tx.cat.pub = 0 /\ tx.cat.named = 0 /\ tx.cat.next = cat.next
    BY <1>0, <1>1, CatUpdates, Zenon, SMTT(20)
  <1>3. cat' = tx.cat
    BY <1>2, NoCatIsNone, CommitBase, Zenon DEF Cat
  <1>4. /\ rows' = rows
        /\ \A i \in Ids : (\A e \in Entries : ~Touches(tx, i, e)) => idx'[i] = idx[i]
    BY <1>0, <1>1, CommitBase, NoRowsAfter
  <1>5. cat.next \in Nat /\ \A i \in Ids : i \in AnyId /\ i \in Nat
    BY <1>0, SMTT(20), Z3T(20) DEF CatType, AnyId, Ids
  <1>6. Catalog'
    <2>1. \A i \in Ids : cat.next <= i => idx'[i] = {}
      <3> SUFFICES ASSUME NEW i \in Ids, cat.next <= i PROVE idx'[i] = {}
        OBVIOUS
      <3>1. \A e \in Entries : ~Touches(tx, i, e)
        BY <1>0, <1>5, SMTT(20), Z3T(20) DEF Foreign
      <3> QED
        BY <1>0, <1>4, <3>1, Zenon, SMTT(20) DEF Catalog
    <2>2. cat.next # 0
      BY <1>0 DEF Catalog
    <2> QED
      BY <1>2, <1>3, <1>5, <2>1, <2>2, SMTT(20), Z3T(20) DEF Catalog
  <1>7. Complete'
    BY <1>2, <1>3, Zenon DEF Complete
  <1>8. Sound(proc'[p], cat', rows', idx', stranded')
    <2>1. proc'[p] = Idle
      BY DEF Commits, Last
    <2> QED
      BY <2>1, IdleType, IdleSound, Zenon
  <1>9. ASSUME NEW r \in Procs, r # p
        PROVE  Sound(proc'[r], cat', rows', idx', stranded')
    <2> DEFINE q == proc[r]
               n == proc'[r]
    <2>0. Builder(q, cat, rows, idx) /\ Foreign(q, cat)
      BY Own, Zenon
    <2>1. /\ Shape(n) /\ Writer(n, cat', rows)
          /\ Reindexer(n, cat', rows, idx', stranded') /\ Dropper(n, cat')
          /\ n.job = q.job /\ n.pc = q.pc
          /\ ~(q.job = "hnsw" /\ q.pc \in {5, 12})
          /\ \A i, e : Touches(n.tx, i, e) <=> Touches(q.tx, i, e)
      BY <1>1, <1>2, <1>3, <1>9, HolderOthers, Zenon, SMTT(20)
    <2> HIDE DEF q, n, tx
    <2>2. ~(q.job = "hnsw" /\ q.pc \in 6..12)
      BY <1>1, <2>0, Zenon DEF Builder
    <2>3. Builder(n, cat', rows, idx')
      BY <2>1, <2>2 DEF Builder
    <2>4. Foreign(n, cat')
      BY <1>2, <1>3, <2>0, <2>1, Zenon DEF Foreign
    <2> QED
      BY <1>4, <2>1, <2>3, <2>4, Zenon DEF Sound, n
  <1>10. Threads'
    BY <1>8, <1>9, Zenon DEF Threads
  <1> QED
    BY <1>6, <1>7, <1>10, Zenon, SMTT(20)

LEMMA PrepareCommits ==
  ASSUME Together, Types', NEW p \in Procs, Commits(p), proc[p].job = "hnsw", proc[p].pc = 5
  PROVE  Threads' /\ Catalog' /\ Complete'
  <1> DEFINE tx == proc[p].tx
  <1>0. /\ tx \in TxType /\ Builder(proc[p], cat, rows, idx)
        /\ Types /\ Catalog /\ rows \in RowsType /\ cat \in CatType
    BY Own, Zenon DEF Together, Types
  <1>1. /\ NoRows(tx) /\ Bare(tx) /\ tx.locked = {CatThing} /\ cat.pub = 0
        /\ tx.cat = Named(cat) /\ proc[p].id = cat.next /\ cat.next \in Ids
    BY <1>0 DEF Builder
  <1>2. tx.cat \in CatType /\ tx.cat.pub = 0 /\ tx.cat.named = cat.next /\ tx.cat.next = cat.next + 1
    BY <1>0, <1>1, NamedFacts, Zenon, SMTT(20)
  <1>3. cat' = tx.cat
    BY <1>2, NoCatIsNone, CommitBase, Zenon, SMTT(20) DEF Cat
  <1>4. rows' = rows /\ \A i \in Ids : idx'[i] = idx[i]
    <2>1. rows' = After(rows, tx) /\ After(rows, tx) = rows
      BY <1>0, <1>1, CommitBase, NoRowsAfter, Zenon
    <2>2. \A i, e : ~Touches(tx, i, e)
      BY <1>0, <1>1, BareTouches, Zenon, SMTT(20)
    <2> QED
      BY <2>1, <2>2, CommitBase, Zenon, SMTT(20)
  <1>5. cat.next \in Nat /\ \A i \in Ids : i \in AnyId /\ i \in Nat
    BY <1>0, SMTT(20), Z3T(20) DEF CatType, AnyId, Ids
  <1>6. idx[cat.next] = {} /\ \A i \in Ids : cat.next + 1 <= i => idx[i] = {}
    <2>1. \A i \in Ids : cat.next <= i => idx[i] = {}
      BY <1>0, Zenon DEF Catalog
    <2>2. cat.next <= cat.next /\ \A i \in Ids : cat.next + 1 <= i => cat.next <= i
      BY <1>5, SMTT(20), Z3T(20)
    <2> QED
      BY <1>1, <2>1, <2>2, Zenon
  <1>7. Catalog' /\ Complete'
    <2>1. cat'.next # 0 /\ cat'.named < cat'.next /\ cat'.pub = 0
      BY <1>2, <1>3, <1>5, SMTT(20), Z3T(20)
    <2>2. \A i \in Ids : cat'.next <= i => idx'[i] = {}
      BY <1>2, <1>3, <1>4, <1>6, Zenon
    <2> QED
      BY <2>1, <2>2, Zenon, SMTT(20) DEF Catalog, Complete
  <1>8. Sound(proc'[p], cat', rows', idx', stranded')
    <2> DEFINE n == proc'[p]
    <2>1. n.tx = NoTx /\ n.job = "hnsw" /\ n.pc = 6 /\ n.id = cat.next
      BY <1>1, SMTT(20), Z3T(20) DEF Commits, Last
    <2> HIDE DEF n
    <2>2. NoTx.open = FALSE /\ \A i, e : ~Touches(NoTx, i, e)
      BY NoTxType, Zenon, SMTT(20) DEF Touches, Puts, Dels
    <2>3. Shape(n)
      BY <2>1, <2>2, SMTT(20), Z3T(20) DEF Shape, OpenAt, Unworked, RocksJobs
    <2>4. Writer(n, cat', rows') /\ Reindexer(n, cat', rows', idx', stranded') /\ Dropper(n, cat')
      BY <2>1 DEF Writer, Reindexer, Dropper
    <2>5. Builder(n, cat', rows', idx')
      BY <1>1, <1>2, <1>3, <1>4, <1>6, <2>1, SMTT(20), Z3T(20) DEF Builder
    <2>6. Foreign(n, cat')
      BY <2>1, <2>2 DEF Foreign
    <2> QED
      BY <2>3, <2>4, <2>5, <2>6, Zenon DEF Sound, n
  <1>9. ASSUME NEW r \in Procs, r # p
        PROVE  Sound(proc'[r], cat', rows', idx', stranded')
    <2> DEFINE q == proc[r]
               n == proc'[r]
    <2>0. Foreign(q, cat)
      BY Own, Zenon
    <2>1. /\ Shape(n) /\ Writer(n, cat', rows)
          /\ Reindexer(n, cat', rows, idx', stranded') /\ Dropper(n, cat')
          /\ n.job = q.job /\ n.pc = q.pc
          /\ \A i, e : Touches(n.tx, i, e) <=> Touches(q.tx, i, e)
      BY <1>1, <1>2, <1>3, <1>9, HolderOthers, Zenon, SMTT(20)
    <2>2. ~(q.job = "hnsw" /\ q.pc > 1)
      BY <1>9, SMTT(20), Z3T(20) DEF Together, OneBuild
    <2> HIDE DEF q, n, tx
    <2>3. Builder(n, cat', rows, idx')
      BY <2>1, <2>2, SMTT(20), Z3T(20) DEF Builder
    <2>4. Foreign(n, cat')
      BY <1>2, <1>3, <1>5, <2>0, <2>1, SMTT(20), Z3T(20) DEF Foreign, AnyId
    <2> QED
      BY <1>4, <2>1, <2>3, <2>4, Zenon, SMTT(20) DEF Sound, n
  <1>10. Threads'
    BY <1>8, <1>9, Zenon DEF Threads
  <1> QED
    BY <1>7, <1>10

LEMMA PublishCommits ==
  ASSUME Together, Types', NEW p \in Procs, Commits(p), proc[p].job = "hnsw", proc[p].pc = 12
  PROVE  Threads' /\ Catalog' /\ Complete'
  <1> DEFINE tx == proc[p].tx
             id == proc[p].id
  <1>0. /\ tx \in TxType /\ Builder(proc[p], cat, rows, idx) /\ id \in AnyId
        /\ Types /\ Catalog /\ rows \in RowsType /\ cat \in CatType /\ Locks
    BY Own, Zenon DEF Together, Types
  <1>1. /\ NoRows(tx) /\ tx.locked = {CatThing} /\ cat.pub = 0 /\ id = cat.named /\ id \in Ids
        /\ tx.cat = [cat EXCEPT !.pub = id, !.kind = "search"]
        /\ OnlyAt(tx, id) /\ Full(Seen(idx[id], tx, id), rows)
    BY <1>0, SMTT(20), Z3T(20) DEF Builder
  <1>2. tx.cat \in CatType /\ tx.cat.pub = id /\ tx.cat.named = cat.named /\ tx.cat.next = cat.next
    <2>1. cat \in CatType /\ id \in AnyId /\ tx.cat = [cat EXCEPT !.pub = id, !.kind = "search"]
      BY <1>0, <1>1
    <2> HIDE DEF tx, id
    <2> QED
      BY <2>1, Zenon DEF CatType
  <1>3. cat' = tx.cat
    BY <1>2, NoCatIsNone, CommitBase, Zenon, SMTT(20) DEF Cat
  <1>4. /\ rows' = rows /\ idx'[id] = Seen(idx[id], tx, id)
        /\ \A i \in Ids : (\A e \in Entries : ~Touches(tx, i, e)) => idx'[i] = idx[i]
    BY <1>0, <1>1, CommitBase, NoRowsAfter, SMTT(20), Z3T(20)
  <1>5. cat.next \in Nat /\ id \in Nat /\ id # 0 /\ \A i \in Ids : i \in AnyId /\ i \in Nat
    BY <1>0, <1>1, SMTT(20), Z3T(20) DEF CatType, AnyId, Ids
  <1>6. Catalog'
    <2>1. \A i \in Ids : cat.next <= i => idx'[i] = {}
      <3> SUFFICES ASSUME NEW i \in Ids, cat.next <= i PROVE idx'[i] = {}
        OBVIOUS
      <3>1. i # id
        BY <1>0, <1>1, <1>5, SMTT(20), Z3T(20) DEF Catalog
      <3>2. \A e \in Entries : ~Touches(tx, i, e)
        BY <1>1, <1>5, <3>1, Zenon DEF OnlyAt
      <3> QED
        BY <1>0, <1>4, <3>2, Zenon, SMTT(20) DEF Catalog
    <2> QED
      BY <1>0, <1>1, <1>2, <1>3, <2>1, Zenon, SMTT(20) DEF Catalog
  <1>7. Complete'
    BY <1>1, <1>2, <1>3, <1>4, Zenon DEF Complete
  <1>8. Sound(proc'[p], cat', rows', idx', stranded')
    <2>1. proc'[p].tx = NoTx /\ proc'[p].job = "hnsw" /\ proc'[p].pc = 13
      BY SMTT(20), Z3T(20) DEF Commits, Last
    <2> QED
      BY <2>1, IdleSound, Zenon DEF RocksJobs
  <1>9. ASSUME NEW r \in Procs, r # p
        PROVE  Sound(proc'[r], cat', rows', idx', stranded')
    <2> DEFINE q == proc[r]
               n == proc'[r]
    <2>0. Foreign(q, cat)
      BY Own, Zenon
    <2>1. /\ Shape(n) /\ Reindexer(n, cat, rows, idx', stranded') /\ Dropper(n, cat)
          /\ n.job = q.job /\ n.pc = q.pc
          /\ ~(q.job \in {"reindex", "drop"} /\ q.pc \in {4, 5})
          /\ \A i, e : Touches(n.tx, i, e) <=> Touches(q.tx, i, e)
      BY <1>1, <1>9, HolderOthers, HolderAlone, Zenon, SMTT(20)
    <2>2. ~(q.job = "hnsw" /\ q.pc > 1)
      BY <1>9, SMTT(20), Z3T(20) DEF Together, OneBuild
    <2>3. ~(q.job \in {"single", "import"} /\ q.pc \in 2..5)
      <3>1. lock.excl = p /\ p # Nobody
        BY <1>0, IndexAssumption, SMTT(20), Z3T(20) DEF Locks
      <3> QED
        BY <1>0, <3>1, Zenon, SMTT(20) DEF Locks
    <2> HIDE DEF q, n, tx
    <2>4. Builder(n, cat', rows, idx') /\ Writer(n, cat', rows)
      BY <2>1, <2>2, <2>3, SMTT(20), Z3T(20) DEF Builder, Writer
    <2>5. Reindexer(n, cat', rows, idx', stranded') /\ Dropper(n, cat')
      BY <2>1 DEF Reindexer, Dropper
    <2>6. Foreign(n, cat')
      BY <1>2, <1>3, <1>5, <2>0, <2>1, Zenon DEF Foreign
    <2> QED
      BY <1>4, <2>1, <2>4, <2>5, <2>6, Zenon DEF Sound, n
  <1>10. Threads'
    BY <1>8, <1>9 DEF Threads
  <1> QED
    BY <1>6, <1>7, <1>10, Zenon

LEMMA CommitTogether ==
  ASSUME Together, Types', NEW p \in Procs, Commits(p)
  PROVE  Together'
  <1> DEFINE q == proc[p]
             n == proc'[p]
  <1>1. Threads' /\ Catalog' /\ Complete'
    BY CommitBase, WriterCommits, ReindexCommits, DropCommits, PrepareCommits, PublishCommits, Zenon
  <1>2. setting' = setting /\ lock' = lock /\ building' = building /\ n.tx = NoTx
    BY Zenon DEF Commits
  <1>3. \A r \in Procs : r # p => /\ proc'[r].job = proc[r].job /\ proc'[r].pc = proc[r].pc
                                  /\ proc'[r].tx.locked = proc[r].tx.locked
    BY Passed, Zenon, SMTT(20) DEF Like
  <1>4. \/ q.job \in {"single", "import"} /\ q.pc = 4 /\ n.job = q.job /\ n.pc = 5
        \/ n = Idle
        \/ q.job = "hnsw" /\ n.job = "hnsw" /\ q.pc = 5 /\ n.pc = 6
        \/ q.job = "hnsw" /\ n.job = "hnsw" /\ q.pc = 12 /\ n.pc = 13
    BY CommitBase, SMTT(20), Z3T(20) DEF Commits, Last
  <1>5. OneHolder'
    BY <1>2, <1>3, NoTxType, Zenon, SMTT(20) DEF Together, OneHolder
  <1>6. Locks'
    <2>1. /\ \A r \in Procs : proc[r].job \in {"single", "import"} /\ proc[r].pc \in 2..5 => r \in lock.shared
          /\ \A r \in Procs : proc[r].job = "hnsw" /\ proc[r].pc \in 10..13 => lock.excl = r
          /\ lock.excl # Nobody => lock.shared = {}
      BY DEF Together, Locks
    <2>2. \A r \in Procs :
            /\ proc'[r].job \in {"single", "import"} /\ proc'[r].pc \in 2..5 =>
                 proc[r].job \in {"single", "import"} /\ proc[r].pc \in 2..5
            /\ proc'[r].job = "hnsw" /\ proc'[r].pc \in 10..13 => proc[r].job = "hnsw" /\ proc[r].pc \in 10..13
      BY <1>3, <1>4, IdleType, SMTT(20), Z3T(20)
    <2> QED
      BY <1>2, <2>1, <2>2, Zenon, SMTT(20) DEF Locks
  <1>7. OneBuild'
    <2>1. \A r \in Procs : proc'[r].job = "hnsw" /\ proc'[r].pc > 1 => proc[r].job = "hnsw" /\ proc[r].pc > 1
      BY <1>3, <1>4, IdleType, SMTT(20), Z3T(20)
    <2>2. OneBuild
      BY DEF Together
    <2> QED
      BY <1>2, <2>1, <2>2, Zenon, SMTT(20) DEF OneBuild
  <1>8. (setting.engine = "rocksdb" /\ setting.jobs \subseteq RocksJobs)'
    BY <1>2 DEF Together
  <1> QED
    BY <1>1, <1>5, <1>6, <1>7, <1>8, Zenon, SMTT(20) DEF Together

LEMMA TogetherNext ==
  ASSUME Together, [Next]_vars
  PROVE  Together'
  <1>1. CASE Next
    <2>1. Types' /\ (Crashes \/ \E p \in Procs : Kind(p))
      BY <1>1, OnRocks, NextKinds, Zenon, SMTT(20) DEF Together
    <2> QED
      BY <2>1, CrashTogether, SlideTogether, EndTogether, WorkTogether, IngestTogether, CommitTogether, Zenon DEF Kind
  <1>2. CASE UNCHANGED vars
    BY <1>2, Zenon, SMTT(20) DEF vars, Together, Types, Threads, Catalog, Complete, Locks, OneHolder, OneBuild
  <1> QED
    BY <1>1, <1>2

-----------------------------------------------------------------------------
(* The theorems. *)

LEMMA InitIInv == Init /\ Coordinated => IInv
  <1> SUFFICES ASSUME Init, Coordinated PROVE IInv
    BY Zenon
  <1>1. /\ idx = [i \in Ids |-> {}] /\ stranded = FALSE /\ building = FALSE
        /\ cat = [pub |-> 0, kind |-> "tree", named |-> 0, next |-> 1]
        /\ lock = [shared |-> {}, excl |-> Nobody] /\ proc = [p \in Procs |-> Idle]
        /\ rows \in [Keys -> Vals \union {0}]
    BY Zenon DEF Init
  <1>2. rows \in RowsType
    BY <1>1 DEF RowsType
  <1>3. Types
    <2>1. 0 \in AnyId
      BY IndexAssumption, SMTT(20), Z3T(20) DEF AnyId
    <2>2. cat \in CatType
      BY <1>1, <2>1, Zenon DEF CatType
    <2>3. proc \in [Procs -> ProcType] /\ \A p \in Procs : proc[p].job = "idle"
      BY <1>1, IdleType, Zenon, SMTT(20)
    <2>4. lock \in [shared : SUBSET Procs, excl : Procs \union {Nobody}]
      BY <1>1
    <2>5. idx \in [Ids -> SUBSET Entries] /\ stranded \in BOOLEAN /\ building \in BOOLEAN
      BY <1>1, Zenon
    <2> QED
      BY <1>2, <2>2, <2>3, <2>4, <2>5, Zenon DEF Types
  <1>4. Catalog /\ Complete
    BY <1>1, SMTT(20), Z3T(20) DEF Catalog, Complete
  <1>5. /\ \A p \in Procs : proc[p] = Idle
        /\ lock.shared = {} /\ lock.excl = Nobody
    BY <1>1
  <1>6. CASE Engine!Exclusive /\ setting.jobs \subseteq StoreLockJobs
    <2>1. \A p \in Procs : /\ proc[p].job = "idle" /\ ~proc[p].tx.open /\ proc[p].tx = NoTx
                           /\ ~OpenAtAlone(proc[p])
      BY <1>5, IdleType, NoTxType, Zenon DEF OpenAtAlone
    <2>2. Alone
      BY <1>3, <1>4, <1>6, <2>1, Zenon DEF Alone
    <2> QED
      BY <2>2, Zenon DEF IInv
  <1>7. CASE setting.engine = "rocksdb" /\ setting.jobs \subseteq RocksJobs
    <2>1. Threads
      <3> SUFFICES ASSUME NEW p \in Procs PROVE Sound(Idle, cat, rows, idx, stranded)
        BY <1>5, Zenon DEF Threads
      <3>1. NoTx.open = FALSE /\ \A i, e : ~Touches(NoTx, i, e)
        BY NoTxType, Zenon DEF Touches, Puts, Dels
      <3>2. Shape(Idle) /\ Foreign(Idle, cat)
        BY <3>1, IdleType DEF Shape, OpenAt, Unworked, Foreign
      <3>3. Writer(Idle, cat, rows) /\ Reindexer(Idle, cat, rows, idx, stranded) /\ Dropper(Idle, cat) /\ Builder(Idle, cat, rows, idx)
        BY IdleType, Zenon DEF Writer, Reindexer, Dropper, Builder
      <3> QED
        BY <3>2, <3>3, Zenon DEF Sound
    <2>2. Locks /\ OneHolder /\ OneBuild
      BY <1>5, IdleType, NoTxType, Zenon DEF Locks, OneHolder, OneBuild
    <2> QED
      BY <1>3, <1>4, <1>7, <2>1, <2>2, Zenon, SMTT(20) DEF Together, IInv
  <1> QED
    BY <1>6, <1>7 DEF Coordinated

LEMMA NextIInv == IInv /\ [Next]_vars => IInv'
  BY TogetherNext, AloneNext, Zenon DEF IInv

LEMMA IInvSafe == IInv => IndexComplete /\ PublishedIsNamed
  <1> SUFFICES ASSUME IInv PROVE IndexComplete /\ PublishedIsNamed
    BY Zenon
  <1>1. Types /\ Catalog /\ Complete
    BY Zenon DEF IInv, Together, Alone
  <1>2. PublishedIsNamed
    BY <1>1, Zenon DEF Catalog, PublishedIsNamed
  <1>3. ASSUME cat.pub # 0, ~stranded PROVE idx[cat.pub] = EntriesOf(rows)
    <2>1. cat.pub \in Ids /\ idx[cat.pub] \in SUBSET Entries /\ rows \in RowsType
      BY <1>1, <1>3, SMTT(20), Z3T(20) DEF Types, CatType, AnyId, Ids
    <2>2. Full(idx[cat.pub], rows)
      BY <1>1, <1>3 DEF Complete
    <2> QED
      BY <2>1, <2>2, FullIsEntries, Zenon, SMTT(20)
  <1> QED
    BY <1>2, <1>3 DEF IndexComplete

\* For every number of threads, rows, values and calls: a published index has an
\* entry for every row and none besides, whatever wrote while it was built or
\* rebuilt (create_hnsw_index_nonblocking's phases, reindex_relation,
\* put_into_relation, import_relations), wherever the jobs that run are coordinated.
THEOREM IndexIsComplete == Spec /\ Coordinated => []IndexComplete
  <1>1. Init /\ Coordinated => IInv
    BY InitIInv
  <1>2. IInv /\ [Next]_vars => IInv'
    BY NextIInv
  <1>3. IInv => IndexComplete
    BY IInvSafe, Zenon, SMTT(20)
  <1> QED
    BY <1>1, <1>2, <1>3, PTL DEF Spec

\* ... and the index in the relation's handle is the relation the catalog has under
\* the index's name (write_idx_relation, remove_index, phase D's publication).
THEOREM NamedIsPublished == Spec /\ Coordinated => []PublishedIsNamed
  <1>1. Init /\ Coordinated => IInv
    BY InitIInv
  <1>2. IInv /\ [Next]_vars => IInv'
    BY NextIInv
  <1>3. IInv => PublishedIsNamed
    BY IInvSafe
  <1> QED
    BY <1>1, <1>2, <1>3, PTL DEF Spec

=============================================================================
