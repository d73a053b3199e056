------------------------------- MODULE TxTime -------------------------------
(***************************************************************************)
(* Transaction time.  A TxTime relation is append-only: its writes are      *)
(* buffered on the transaction (query/stored.rs) and stamped, at commit and *)
(* under one lock per database, with a time drawn from the commit clock     *)
(* (runtime/tt_clock.rs, runtime/transact.rs).  The clock's mark is stored  *)
(* in the same commit, so that a crash cannot take it back.  ::history_gc   *)
(* and ::evict are the only operations that delete (runtime/db.rs).         *)
(*                                                                         *)
(* One TxTime relation is modelled, with the relation that audits its       *)
(* evictions.  Keys and values are opaque.  The relation has a valid-time   *)
(* axis too when Bitemporal; a system-versioned one has the single valid    *)
(* time 0.                                                                  *)
(***************************************************************************)
EXTENDS Backends, Integers

CONSTANTS
  Txs,         \* sessions that open write transactions
  NoTx,        \* nobody: the owner of a free lock
  Keys, Vals,  \* plain keys and non-key columns of a row
  Bitemporal,  \* the relation has a Validity column before its TxTime column
  Vts,         \* the valid times scripts write, when it has
  Wall,        \* readings of the wall clock, which may be set back, counted
               \* in microseconds from the creation of the store
  Ops,         \* the statements a run has its transactions execute
  MaxTt        \* bound: the largest microsecond the clock is followed to

ASSUME TxTimeAssumption ==
  /\ Backend # "tikv"
  /\ NoTx \notin Txs
  /\ Bitemporal \in BOOLEAN
  /\ Vts \subseteq Nat
  /\ MaxTt \in Nat
  /\ Wall \subseteq 0..MaxTt

VARIABLES
  rows,      \* the relation's committed records
  mark,      \* the TT_HWM system key, NoMark before the first tt commit
  floor,     \* tt_gc_floor of the catalog entry, NoFloor when absent
  audit,     \* committed rows of mnestic_evict_audit
  ledger,    \* history: every record ever committed and not evicted
  erased,    \* history: the <<key, tt>> of every record evicted
  running,   \* the process is up and the database is initialized
  hwm,       \* TtClock.hwm
  ttLock,    \* owner of tt_commit_lock
  metaLock,  \* owner of the engine's lock on the relation's catalog entry
  tx         \* the write transaction of each session

store == <<rows, mark, floor, audit>>
history == <<ledger, erased>>
locks == <<ttLock, metaLock>>
vars == <<store, history, running, hwm, locks, tx>>

NoMark == 0
NoFloor == -1
NoSource == 0
VtAxis == IF Bitemporal THEN Vts ELSE {0}
Times == 0..MaxTt

Record == [key: Keys, vt: VtAxis, tt: Times, assert: BOOLEAN, val: Vals]

\* A buffered row.  src is the tt of the record its columns were copied from,
\* insert says that it comes from an :insert.
Pending == [key: Keys, vt: VtAxis, assert: BOOLEAN, val: Vals, src: Times,
            insert: BOOLEAN]

\* A row of the query output that :reconcile declares to be the whole belief.
Declared == [key: Keys, vt: VtAxis, val: Vals]

\* The store transaction is open in "open"; the phases from "locked" on are
\* inside commit_tx_with_tt, in its order.
Phases == {"idle", "open", "locked", "allocated", "stamped", "marked", "committed"}
Section == {"locked", "allocated", "stamped", "marked", "committed"}

TxType == [phase: Phases, pending: SUBSET Pending,
           reconciled: BOOLEAN, declared: SUBSET Declared,
           dels: SUBSET Record, newFloor: Times \cup {NoFloor},
           dirty: BOOLEAN, audits: SUBSET [key: Keys, tt: Times],
           seenMark: Times, seenFloor: Times \cup {NoFloor},
           tt: Times, puts: SUBSET Record]

IdleTx == [phase |-> "idle", pending |-> {}, reconciled |-> FALSE, declared |-> {},
           dels |-> {}, newFloor |-> NoFloor, dirty |-> FALSE, audits |-> {},
           seenMark |-> NoMark, seenFloor |-> NoFloor, tt |-> 0, puts |-> {}]

TypeOK ==
  /\ rows \subseteq Record
  /\ mark \in Times
  /\ floor \in Times \cup {NoFloor}
  /\ audit \subseteq [key: Keys, tt: Times]
  /\ ledger \subseteq Record
  /\ erased \subseteq Keys \X Times
  /\ running \in BOOLEAN
  /\ hwm \in Times
  /\ ttLock \in Txs \cup {NoTx}
  /\ metaLock \in Txs \cup {NoTx}
  /\ tx \in [Txs -> TxType]

-----------------------------------------------------------------------------
(* Resolution *)

Greater(a, b) == IF a >= b THEN a ELSE b

SameGroup(r, s) == r.key = s.key /\ r.vt = s.vt

\* s comes before r among the records of their group: the later belief wins,
\* and of two at one time the assertion.
Supersedes(s, r) ==
  /\ SameGroup(s, r)
  /\ s.tt > r.tt \/ (s.tt = r.tt /\ s.assert /\ ~r.assert)

\* The records of R a read at transaction time t can land on.
Known(R, t) == {r \in R : r.tt <= t}

\* The record that decides key k at valid time v and transaction time t: the
\* newest group at or before v that holds anything recorded by t decides, and
\* in it the latest belief.
Decides(R, r, k, v, t) ==
  /\ r \in Known(R, t)
  /\ r.key = k
  /\ r.vt <= v
  /\ \A s \in Known(R, t) :
       s.key = k /\ s.vt <= v => s.vt <= r.vt /\ ~Supersedes(s, r)

\* What a read returns: nothing when the deciding record is a retraction.
Belief(R, k, v, t) == {r \in R : r.assert /\ Decides(R, r, k, v, t)}

\* The current belief of every group, the retracted ones left out.
Current(R) == {r \in R : r.assert /\ \A s \in R : ~Supersedes(s, r)}

Superseded_ByAny(R, cutoff) ==
  {r \in R : r.tt < cutoff /\ \E s \in R : Supersedes(s, r)}

\* The records ::history_gc deletes: older than the cutoff, and not the one a
\* read at the cutoff would pick.
Superseded(R, cutoff) ==
  {r \in R : r.tt < cutoff /\ \E s \in Known(R, cutoff) : Supersedes(s, r)}

-----------------------------------------------------------------------------
(* Statements *)

Begin(t) ==
  /\ running
  /\ tx[t].phase = "idle"
  /\ Exclusive => \A u \in Txs : tx[u].phase = "idle"
  /\ tx' = [tx EXCEPT ![t] = [IdleTx EXCEPT !.phase = "open",
                              !.seenMark = mark, !.seenFloor = floor]]
  /\ UNCHANGED <<store, history, running, hwm, locks>>

\* What the statements of t read: the committed records, its own deletions
\* applied.  Its buffered rows reach the store only at commit.
View(t) == rows \ tx[t].dels

\* Rows of one transaction that would get the same full key: the later wins.
Buffer(pending, row) ==
  {p \in pending : ~(SameGroup(p, row) /\ p.assert = row.assert)} \cup {row}

Write(t, row) ==
  /\ tx' = [tx EXCEPT ![t].pending = Buffer(tx[t].pending, row)]
  /\ UNCHANGED <<store, history, running, hwm, locks>>

NotReconciled_Forgotten(t) == TRUE

NotReconciled(t) == ~tx[t].reconciled

PendingConflict(t, k) == \E p \in tx[t].pending : p.key = k

\* :put.  Only a Validity column can carry a user's RETRACT.
Put(t, k, v, a, x) ==
  /\ tx[t].phase = "open"
  /\ NotReconciled(t)
  /\ a \/ Bitemporal
  /\ Write(t, [key |-> k, vt |-> v, assert |-> a, val |-> x, src |-> NoSource, insert |-> FALSE])

\* :insert finds no belief: no record at any valid time of a bitemporal
\* relation, no current one of a system-versioned relation.
Absent(t, k) ==
  /\ ~PendingConflict(t, k)
  /\ IF Bitemporal THEN \A r \in View(t) : r.key # k
                   ELSE \A r \in Current(View(t)) : r.key # k

Insert(t, k, v, a, x) ==
  /\ tx[t].phase = "open"
  /\ NotReconciled(t)
  /\ a \/ Bitemporal
  /\ Absent(t, k)
  /\ Write(t, [key |-> k, vt |-> v, assert |-> a, val |-> x, src |-> NoSource, insert |-> TRUE])

Rm_WithoutBelief(t, k) ==
  /\ ~Bitemporal
  /\ tx[t].phase = "open"
  /\ NotReconciled(t)
  /\ Write(t, [key |-> k, vt |-> 0, assert |-> FALSE, val |-> "null", src |-> NoSource, insert |-> FALSE])

\* :rm of a system-versioned relation appends a retraction that copies the
\* current belief; without one it does nothing.
Rm(t, k) ==
  /\ ~Bitemporal
  /\ tx[t].phase = "open"
  /\ NotReconciled(t)
  /\ \A p \in tx[t].pending : p.key = k => ~p.assert
  /\ \E r \in Current(View(t)) :
       /\ r.key = k
       /\ Write(t, [key |-> k, vt |-> r.vt, assert |-> FALSE, val |-> r.val,
                    src |-> r.tt, insert |-> FALSE])

\* :rm {k, vt} of a bitemporal relation retracts at each valid time given for
\* the key, with the values believed there.
RmAt(t, k, vs) ==
  /\ Bitemporal
  /\ tx[t].phase = "open"
  /\ NotReconciled(t)
  /\ ~PendingConflict(t, k)
  /\ tx' = [tx EXCEPT ![t].pending = @ \cup UNION
              {{[key |-> k, vt |-> v, assert |-> FALSE, val |-> r.val,
                 src |-> r.tt, insert |-> FALSE] : r \in Belief(View(t), k, v, MaxTt)} :
                 v \in vs}]
  /\ UNCHANGED <<store, history, running, hwm, locks>>

\* :update merges the columns given into the belief held now, in its group.
Update(t, k, now, x) ==
  /\ tx[t].phase = "open"
  /\ NotReconciled(t)
  /\ ~PendingConflict(t, k)
  /\ \E r \in Belief(View(t), k, now, MaxTt) :
       Write(t, [key |-> k, vt |-> r.vt, assert |-> TRUE, val |-> x,
                 src |-> r.tt, insert |-> FALSE])

\* The belief event that turns the current belief into the declared one.
Revision(R, desired) ==
  {[key |-> d.key, vt |-> d.vt, assert |-> TRUE, val |-> d.val, src |-> NoSource,
    insert |-> FALSE] :
     d \in {e \in desired : \A r \in Current(R) : ~(SameGroup(r, e) /\ r.val = e.val)}}
  \cup
  {[key |-> r.key, vt |-> r.vt, assert |-> FALSE, val |-> r.val, src |-> r.tt,
    insert |-> FALSE] :
     r \in {c \in Current(R) : \A d \in desired : ~SameGroup(c, d)}}

Reconcile(t, desired) ==
  /\ tx[t].phase = "open"
  /\ NotReconciled(t)
  /\ tx[t].pending = {}
  /\ \A d, e \in desired : SameGroup(d, e) => d = e
  /\ tx' = [tx EXCEPT ![t].pending = Revision(View(t), desired),
                      ![t].reconciled = TRUE, ![t].declared = desired]
  /\ UNCHANGED <<store, history, running, hwm, locks>>

-----------------------------------------------------------------------------
(* Maintenance *)

\* The catalog entry is read for update: on the engines that validate, the
\* lock is held to the end and the entry has not changed since t began.
LockMeta(t) ==
  IF Validates
  THEN /\ metaLock = t \/ (metaLock = NoTx /\ tx[t].seenFloor = floor)
       /\ metaLock' = t
  ELSE UNCHANGED metaLock

\* Deleting a record locks it too.  The mark bounds what was committed when t
\* began.
Deletable(t, R) == Validates => \A r \in R : r.tt <= tx[t].seenMark

NothingPending_Unchecked(t) == TRUE

\* The pending writes of this relation would be stamped after the deletions.
NothingPending(t) == tx[t].pending = {}

\* The handle t reads: its own catalog entry once it has written one.
FloorOf(t) == IF tx[t].newFloor = NoFloor THEN floor ELSE tx[t].newFloor

HistoryGc(t, cutoff, now) ==
  /\ tx[t].phase = "open"
  /\ LockMeta(t)
  /\ NothingPending(t)
  /\ cutoff <= Greater(now, hwm)
  /\ LET gone == Superseded(View(t), cutoff)
     IN /\ Deletable(t, gone)
        /\ tx' = [tx EXCEPT ![t].dels = @ \cup gone,
                            ![t].newFloor = IF gone = {} THEN @
                                            ELSE Greater(FloorOf(t), cutoff)]
  /\ UNCHANGED <<store, history, running, hwm, ttLock>>

Tick_Repeats(now) == Greater(now, hwm)

\* TtClock::advance_with_now.  The clock stays below i64::MAX, where
\* saturating_add would repeat a value.
Tick(now) == Greater(now, hwm + 1)

\* ::evict draws one audit time for its keys at once, outside tt_commit_lock,
\* and sends its transaction through the tt commit path.
Evict(t, ks, now) ==
  /\ tx[t].phase = "open"
  /\ LockMeta(t)
  /\ NothingPending(t)
  /\ Tick(now) <= MaxTt
  /\ hwm' = Tick(now)
  /\ LET gone == {r \in View(t) : r.key \in ks}
     IN /\ Deletable(t, gone)
        /\ tx' = [tx EXCEPT ![t].dels = @ \cup gone,
                            ![t].audits = @ \cup [key: ks, tt: {Tick(now)}],
                            ![t].dirty = TRUE]
  /\ UNCHANGED <<store, history, running, ttLock>>

-----------------------------------------------------------------------------
(* Commit *)

Release_KeepsSection(t) ==
  /\ tx' = [tx EXCEPT ![t] = IdleTx]
  /\ UNCHANGED ttLock
  /\ metaLock' = IF metaLock = t THEN NoTx ELSE metaLock

\* The end of a transaction drops it and with it every lock it holds.
Release(t) ==
  /\ tx' = [tx EXCEPT ![t] = IdleTx]
  /\ ttLock' = IF ttLock = t THEN NoTx ELSE ttLock
  /\ metaLock' = IF metaLock = t THEN NoTx ELSE metaLock

\* The storage commit makes all of t's writes visible and durable at once.
Apply(t) ==
  /\ rows' = (rows \ tx[t].dels) \cup tx[t].puts
  /\ floor' = IF tx[t].newFloor = NoFloor THEN floor ELSE tx[t].newFloor
  /\ audit' = audit \cup tx[t].audits
  /\ LET evicted == {r \in ledger : /\ \E a \in tx[t].audits : a.key = r.key
                                    /\ r \notin rows \ tx[t].dels}
     IN /\ ledger' = (ledger \ evicted) \cup tx[t].puts
        /\ erased' = erased \cup {<<r.key, r.tt>> : r \in evicted}

\* A transaction without buffered rows that burned no time.
CommitPlain(t) ==
  /\ tx[t].phase = "open"
  /\ tx[t].pending = {} /\ ~tx[t].dirty
  /\ Apply(t)
  /\ Release(t)
  /\ UNCHANGED <<mark, running, hwm>>

TtEnter_Unlocked(t) ==
  /\ tx[t].phase = "open"
  /\ tx[t].pending # {} \/ tx[t].dirty
  /\ ttLock' = t
  /\ tx' = [tx EXCEPT ![t].phase = "locked"]
  /\ UNCHANGED <<store, history, running, hwm, metaLock>>

TtEnter(t) ==
  /\ tx[t].phase = "open"
  /\ tx[t].pending # {} \/ tx[t].dirty
  /\ ttLock = NoTx
  /\ ttLock' = t
  /\ tx' = [tx EXCEPT ![t].phase = "locked"]
  /\ UNCHANGED <<store, history, running, hwm, metaLock>>

TtAdvance(t, now) ==
  /\ tx[t].phase = "locked"
  /\ Tick(now) <= MaxTt
  /\ hwm' = Tick(now)
  /\ tx' = [tx EXCEPT ![t].phase = "allocated", ![t].tt = Tick(now)]
  /\ UNCHANGED <<store, history, running, locks>>

AssertsAndRetracts_Unchecked(pending) == FALSE

\* One belief event may not both assert and retract a (key, vt).
AssertsAndRetracts(pending) ==
  \E p, q \in pending : SameGroup(p, q) /\ p.assert # q.assert

\* stamp_pending_tt_writes drains the buffer into the store transaction.
TtStamp(t) ==
  /\ tx[t].phase = "allocated"
  /\ ~AssertsAndRetracts(tx[t].pending)
  /\ tx' = [tx EXCEPT ![t].phase = "stamped",
                      ![t].puts = {[key |-> p.key, vt |-> p.vt, tt |-> tx[t].tt,
                                    assert |-> p.assert, val |-> p.val] : p \in tx[t].pending}]
  /\ UNCHANGED <<store, history, running, hwm, locks>>

\* put_externally_serialized: only the rocksdb binding drops the snapshot
\* that a put of its own would be validated against.
MarkRefused(t) == Backend = "newrocksdb" /\ tx[t].seenMark # mark

TtPutMark(t) ==
  /\ tx[t].phase = "stamped"
  /\ ~MarkRefused(t)
  /\ tx' = [tx EXCEPT ![t].phase = "marked"]
  /\ UNCHANGED <<store, history, running, hwm, locks>>

TtCommit(t) ==
  /\ tx[t].phase = "marked"
  /\ Apply(t)
  /\ mark' = tx[t].tt
  /\ tx' = [tx EXCEPT ![t].phase = "committed"]
  /\ UNCHANGED <<running, hwm, locks>>

\* The guard of tt_commit_lock goes out of scope, then the transaction.
TtLeave(t) ==
  /\ tx[t].phase = "committed"
  /\ Release(t)
  /\ UNCHANGED <<store, history, running, hwm>>

\* An abort, or an error at any step of the commit: a failed statement, the
\* stamping conflict, a refused put, a failed storage commit.
Abort(t) ==
  /\ tx[t].phase \notin {"idle", "committed"}
  /\ Release(t)
  /\ UNCHANGED <<store, history, running, hwm>>

-----------------------------------------------------------------------------
(* Process *)

\* What was committed survives; the mem engine has nothing to survive in.
Crash ==
  /\ running
  /\ Backend # "mem"
  /\ running' = FALSE
  /\ hwm' = 0
  /\ tx' = [t \in Txs |-> IdleTx]
  /\ ttLock' = NoTx /\ metaLock' = NoTx
  /\ UNCHANGED <<store, history>>

Open_FromWall(now) ==
  /\ ~running
  /\ running' = TRUE
  /\ hwm' = Greater(hwm, now)
  /\ UNCHANGED <<store, history, locks, tx>>

\* load_last_ids seeds the clock with TtClock::seed.
Open(now) ==
  /\ ~running
  /\ running' = TRUE
  /\ hwm' = Greater(hwm, Greater(mark, now))
  /\ UNCHANGED <<store, history, locks, tx>>

Init ==
  /\ rows = {} /\ mark = NoMark /\ floor = NoFloor /\ audit = {}
  /\ ledger = {} /\ erased = {}
  /\ running = FALSE
  /\ hwm = 0
  /\ ttLock = NoTx /\ metaLock = NoTx
  /\ tx = [t \in Txs |-> IdleTx]

TtStep(t) ==
  \/ \E now \in Wall : TtAdvance(t, now)
  \/ TtStamp(t)
  \/ TtPutMark(t)
  \/ TtCommit(t)
  \/ TtLeave(t)

Statement(t) ==
  \/ "put" \in Ops /\ \E k \in Keys, v \in VtAxis, a \in BOOLEAN, x \in Vals : Put(t, k, v, a, x)
  \/ "insert" \in Ops /\ \E k \in Keys, v \in VtAxis, a \in BOOLEAN, x \in Vals : Insert(t, k, v, a, x)
  \/ "rm" \in Ops /\ \E k \in Keys : Rm(t, k)
  \/ "rm" \in Ops /\ \E k \in Keys, vs \in SUBSET VtAxis \ {{}} : RmAt(t, k, vs)
  \/ "update" \in Ops /\ \E k \in Keys, now \in VtAxis, x \in Vals : Update(t, k, now, x)
  \/ "reconcile" \in Ops /\ \E desired \in SUBSET Declared : Reconcile(t, desired)
  \/ "history_gc" \in Ops /\ \E cutoff \in Times, now \in Wall : HistoryGc(t, cutoff, now)
  \/ "evict" \in Ops /\ \E ks \in SUBSET Keys \ {{}}, now \in Wall : Evict(t, ks, now)

Next ==
  \/ \E t \in Txs :
       Begin(t) \/ Statement(t) \/ CommitPlain(t) \/ TtEnter(t) \/ TtStep(t) \/ Abort(t)
  \/ Crash
  \/ \E now \in Wall : Open(now)

Spec == Init /\ [][Next]_vars

\* A thread inside the critical section keeps running, and a failed step of
\* it ends the commit; nothing else is promised to happen.
FairSpec == Spec /\ \A t \in Txs : WF_vars(TtStep(t) \/ (tx[t].phase \in Section /\ Abort(t)))

-----------------------------------------------------------------------------
(* Properties *)

\* "atomic HWM >= persisted HWM >= every committed tt" (commit_tx_with_tt):
\* the stored mark covers every committed time, eviction audits included, and
\* the clock of a running process covers the mark, whatever crashed in between
\* and however far the wall clock was set back.
MarkCoversCommits ==
  /\ \A r \in rows : r.tt <= mark
  /\ \A a \in audit : a.tt <= mark
  /\ running => mark <= hwm

\* A commit only adds records above everything committed before it, so that a
\* read as of a time already seen never finds a new record under it: tt order
\* is commit order is visibility order (commit_tx_with_tt).
HistoryGrowsUpward ==
  [][\A r \in rows' \ rows : \A s \in rows : s.tt < r.tt]_vars

\* No committed time is used twice: a record and an eviction never share one,
\* and the records of one time come from one commit (they differ in group).
TimesAreUnique ==
  /\ \A r \in rows, a \in audit : r.tt # a.tt
  /\ \A r, s \in rows : r.tt = s.tt /\ SameGroup(r, s) => r = s

\* A read at or above the collection floor returns what was believed at that
\* time, as if nothing had ever been collected (::history_gc, tt_gc_floor).
ReadsAreExact ==
  \A k \in Keys, v \in VtAxis, t \in Times :
    t >= floor => Belief(rows, k, v, t) = Belief(ledger, k, v, t)

Commits(t) == tx[t].phase = "marked" /\ tx'[t].phase = "committed"

Believed(R) == {[key |-> r.key, vt |-> r.vt, val |-> r.val] : r \in Current(R)}

\* A committed :reconcile leaves exactly the belief it declared, when its
\* transaction evicted nothing.
ReconcileIsComplete ==
  [][\A t \in Txs :
       Commits(t) /\ tx[t].reconciled /\ tx[t].audits = {} =>
         Believed(rows') = tx[t].declared]_vars

\* An :insert commits only where there was no belief to overwrite.
InsertFindsNothing ==
  [][\A t \in Txs :
       Commits(t) => \A p \in tx[t].pending :
         p.insert => \A r \in Current(rows \ tx[t].dels) : r.key # p.key]_vars

\* What ::evict deleted is not written again by a transaction that copied it
\* (:rm, :update and :reconcile carry the columns of the belief they found).
EvictedStaysEvicted ==
  [][\A t \in Txs :
       Commits(t) => \A p \in tx[t].pending : <<p.key, p.src>> \notin erased']_vars

\* tt_commit_lock is always given back, whether the commit it serializes
\* succeeds or fails at any of its steps: no step under it waits for another
\* transaction.
SectionEnds == \A t \in Txs : ttLock = t ~> ttLock # t

=============================================================================
