---------------------------- MODULE TxTimeClock -----------------------------
(***************************************************************************)
(* Theorems about the commit clock of TxTime, for every engine, every set   *)
(* of sessions, keys, values and valid times and every bound of the clock:  *)
(* every variable keeps its type, the clock and the mark cover every        *)
(* committed time, history grows upward, and no committed time is used      *)
(* twice: the commits in progress, the stored records and the audits of     *)
(* ::evict never share one, and the records of one time differ in group.    *)
(***************************************************************************)
EXTENDS TxTime, TLAPS

Allocated == {"allocated", "stamped", "marked"}

\* The section has one owner, and nothing is open in a process that is down.
OneInSection ==
  /\ \A t \in Txs : tx[t].phase \in Section => ttLock = t
  /\ \A t \in Txs : ~running => tx[t].phase = "idle"

\* The time of a commit in progress lies above everything committed (m) and not
\* above the clock (h).  Stamped rows carry it, and the times drawn by ::evict
\* lie below it.
Timed(x, m, h) ==
  /\ x.phase \in Allocated => m < x.tt /\ x.tt <= h
  /\ x.phase \in {"idle", "open", "locked", "allocated"} => x.puts = {}
  /\ \A p \in x.puts : p.tt = x.tt
  /\ x.audits # {} => x.dirty
  /\ \A a \in x.audits : a.tt <= h /\ (x.phase \in Allocated => a.tt < x.tt)

ClockInv ==
  /\ TypeOK
  /\ OneInSection
  /\ MarkCoversCommits
  /\ \A t \in Txs : Timed(tx[t], mark, hwm)

-----------------------------------------------------------------------------
(* Types *)

LEMMA IdleType ==
  IdleTx \in TxType /\ IdleTx.phase = "idle" /\ IdleTx.puts = {} /\ IdleTx.audits = {}
  /\ IdleTx.pending = {} /\ IdleTx.dels = {} /\ IdleTx.newFloor = NoFloor
  BY TxTimeAssumption DEF IdleTx, TxType, Phases, Times, NoMark, NoFloor

\* One field of a transaction at a time.
LEMMA FieldTypes ==
  ASSUME NEW x \in TxType
  PROVE  /\ x.phase \in Phases /\ x.pending \in SUBSET Pending
         /\ x.dels \in SUBSET Record /\ x.newFloor \in Times \cup {NoFloor}
         /\ x.dirty \in BOOLEAN /\ x.audits \in SUBSET [key: Keys, tt: Times]
         /\ x.seenMark \in Times /\ x.seenFloor \in Times \cup {NoFloor}
         /\ x.tt \in Times /\ x.puts \in SUBSET Record
  BY DEF TxType

LEMMA FieldUpdates ==
  ASSUME NEW x \in TxType, NEW p \in SUBSET Pending, NEW e \in SUBSET Declared,
         NEW d \in SUBSET Record, NEW f \in Times \cup {NoFloor},
         NEW a \in SUBSET [key: Keys, tt: Times]
  PROVE  /\ [x EXCEPT !.pending = p, !.reconciled = TRUE, !.declared = e] \in TxType
         /\ [x EXCEPT !.dels = d, !.newFloor = f] \in TxType
         /\ [x EXCEPT !.dels = d, !.audits = a, !.dirty = TRUE] \in TxType
  <1> DEFINE PP == SUBSET Pending
             DD == SUBSET Declared
             RR == SUBSET Record
             FF == Times \cup {NoFloor}
             AA == SUBSET [key: Keys, tt: Times]
  <1>1. /\ p \in PP /\ e \in DD /\ d \in RR /\ f \in FF /\ a \in AA
        /\ x \in [phase: Phases, pending: PP, reconciled: BOOLEAN, declared: DD,
                  dels: RR, newFloor: FF, dirty: BOOLEAN, audits: AA,
                  seenMark: Times, seenFloor: FF, tt: Times, puts: RR]
    BY DEF TxType
  <1>2. TxType = [phase: Phases, pending: PP, reconciled: BOOLEAN, declared: DD,
                  dels: RR, newFloor: FF, dirty: BOOLEAN, audits: AA,
                  seenMark: Times, seenFloor: FF, tt: Times, puts: RR]
    BY DEF TxType
  <1> HIDE DEF PP, DD, RR, FF, AA
  <1> QED
    BY <1>1, <1>2, Zenon

LEMMA TimesFacts == Times \subseteq Nat /\ 0 \in Times /\ MaxTt \in Times /\ NoFloor \notin Times
                    /\ Wall \subseteq Times /\ NoFloor = -1
  BY TxTimeAssumption DEF Times, NoFloor

LEMMA IntTimes == /\ \A n \in Times \cup {NoFloor} : n \in Int
                  /\ \A n \in Times : n \in Nat /\ n # NoFloor
  BY TxTimeAssumption DEF Times, NoFloor

LEMMA GreaterType ==
  ASSUME NEW a \in Times \cup {NoFloor}, NEW b \in Times
  PROVE  Greater(a, b) \in Times /\ Greater(a, b) >= a /\ Greater(a, b) >= b
  BY TimesFacts DEF Greater

LEMMA TickType ==
  ASSUME hwm \in Times, NEW now \in Wall, Tick(now) <= MaxTt
  PROVE  Tick(now) \in Times /\ Tick(now) > hwm
  BY TxTimeAssumption DEF Tick, Greater, Times

LEMMA ReadTypes ==
  ASSUME TypeOK, NEW t \in Txs
  PROVE  /\ View(t) \subseteq rows /\ View(t) \subseteq Record
         /\ Current(View(t)) \subseteq View(t)
         /\ \A k, v, n : Belief(View(t), k, v, n) \subseteq View(t)
         /\ \A c : Superseded(View(t), c) \subseteq View(t)
  BY DEF TypeOK, View, Current, Belief, Superseded

LEMMA WriteType ==
  ASSUME TypeOK, NEW t \in Txs, NEW row \in Pending, Write(t, row)
  PROVE  TypeOK'
  <1>1. Buffer(tx[t].pending, row) \in SUBSET Pending
    BY FieldTypes DEF Buffer, TypeOK
  <1>2. tx' \in [Txs -> TxType]
    BY <1>1, SMTT(20), Z3T(20) DEF Write, TypeOK, TxType
  <1> QED
    BY <1>2 DEF Write, TypeOK, store, history, locks

LEMMA RevisionType ==
  ASSUME TypeOK, NEW t \in Txs, NEW desired \in SUBSET Declared
  PROVE  Revision(View(t), desired) \in SUBSET Pending
  <1>1. Current(View(t)) \subseteq Record
    BY ReadTypes
  <1>2. \A d \in Declared : d.key \in Keys /\ d.vt \in VtAxis /\ d.val \in Vals
    BY DEF Declared
  <1>3. \A r \in Record : r.key \in Keys /\ r.vt \in VtAxis /\ r.val \in Vals /\ r.tt \in Times
    BY DEF Record
  <1>4. NoSource \in Times
    BY TimesFacts DEF NoSource
  <1>5. \A d \in Declared : [key |-> d.key, vt |-> d.vt, assert |-> TRUE, val |-> d.val,
                             src |-> NoSource, insert |-> FALSE] \in Pending
    BY <1>2, <1>4 DEF Pending
  <1>6. \A r \in Record : [key |-> r.key, vt |-> r.vt, assert |-> FALSE, val |-> r.val,
                           src |-> r.tt, insert |-> FALSE] \in Pending
    BY <1>3 DEF Pending
  <1> QED
    BY <1>1, <1>5, <1>6 DEF Revision

LEMMA StatementType ==
  ASSUME TypeOK, NEW t \in Txs, Statement(t)
  PROVE  TypeOK'
  <1>0. /\ NoSource \in Times
        /\ \A r \in Record : r.key \in Keys /\ r.vt \in VtAxis /\ r.val \in Vals /\ r.tt \in Times
    BY TimesFacts DEF NoSource, Record
  <1>1. ASSUME NEW k \in Keys, NEW v \in VtAxis, NEW a \in BOOLEAN, NEW x \in Vals,
               Put(t, k, v, a, x) \/ Insert(t, k, v, a, x)
        PROVE  TypeOK'
    <2>1. \A i \in BOOLEAN : [key |-> k, vt |-> v, assert |-> a, val |-> x, src |-> NoSource,
                              insert |-> i] \in Pending
      BY <1>0 DEF Pending
    <2> QED
      BY <1>1, <2>1, WriteType, Zenon DEF Put, Insert
  <1>2. ASSUME NEW k \in Keys, Rm(t, k) PROVE TypeOK'
    <2>1. PICK r \in Current(View(t)) :
            Write(t, [key |-> k, vt |-> r.vt, assert |-> FALSE, val |-> r.val,
                      src |-> r.tt, insert |-> FALSE])
      BY <1>2, Zenon DEF Rm
    <2>2. [key |-> k, vt |-> r.vt, assert |-> FALSE, val |-> r.val,
           src |-> r.tt, insert |-> FALSE] \in Pending
      BY <1>0, ReadTypes DEF Pending
    <2> QED
      BY <2>1, <2>2, WriteType
  <1>3. ASSUME NEW k \in Keys, NEW vs \in SUBSET VtAxis, RmAt(t, k, vs) PROVE TypeOK'
    <2> DEFINE New == UNION {{[key |-> k, vt |-> v, assert |-> FALSE, val |-> r.val,
                              src |-> r.tt, insert |-> FALSE] : r \in Belief(View(t), k, v, MaxTt)} :
                            v \in vs}
    <2>1. \A v \in vs : \A r \in Belief(View(t), k, v, MaxTt) :
            [key |-> k, vt |-> v, assert |-> FALSE, val |-> r.val,
             src |-> r.tt, insert |-> FALSE] \in Pending
      BY <1>0, ReadTypes DEF Pending
    <2>2. New \in SUBSET Pending
      BY <2>1
    <2>3. tx' = [tx EXCEPT ![t].pending = @ \cup New]
      BY <1>3 DEF RmAt
    <2> HIDE DEF New
    <2>4. tx' \in [Txs -> TxType]
      BY <2>2, <2>3, SMTT(20), Z3T(20) DEF TypeOK, TxType
    <2> QED
      BY <1>3, <2>4 DEF RmAt, TypeOK, store, history, locks
  <1>4. ASSUME NEW k \in Keys, NEW now \in VtAxis, NEW x \in Vals, Update(t, k, now, x)
        PROVE  TypeOK'
    <2>1. PICK r \in Belief(View(t), k, now, MaxTt) :
            Write(t, [key |-> k, vt |-> r.vt, assert |-> TRUE, val |-> x,
                      src |-> r.tt, insert |-> FALSE])
      BY <1>4, Zenon DEF Update
    <2>2. [key |-> k, vt |-> r.vt, assert |-> TRUE, val |-> x,
           src |-> r.tt, insert |-> FALSE] \in Pending
      BY <1>0, ReadTypes DEF Pending
    <2> QED
      BY <2>1, <2>2, WriteType
  <1>5. ASSUME NEW desired \in SUBSET Declared, Reconcile(t, desired) PROVE TypeOK'
    <2>1. Revision(View(t), desired) \in SUBSET Pending
      BY RevisionType
    <2>2. tx' = [tx EXCEPT ![t] = [tx[t] EXCEPT !.pending = Revision(View(t), desired),
                                               !.reconciled = TRUE, !.declared = desired]]
      BY <1>5, Zenon DEF Reconcile, TypeOK
    <2>3. [tx[t] EXCEPT !.pending = Revision(View(t), desired),
                        !.reconciled = TRUE, !.declared = desired] \in TxType
      BY <2>1, FieldUpdates, TimesFacts, Zenon DEF TypeOK
    <2>4. tx' \in [Txs -> TxType]
      BY <2>2, <2>3 DEF TypeOK
    <2> QED
      BY <1>5, <2>4 DEF Reconcile, TypeOK, store, history, locks
  <1>6. ASSUME NEW cutoff \in Times, NEW now \in Wall, HistoryGc(t, cutoff, now)
        PROVE  TypeOK'
    <2> DEFINE gone == Superseded(View(t), cutoff)
               nf == IF gone = {} THEN tx[t].newFloor ELSE Greater(FloorOf(t), cutoff)
    <2>1. gone \in SUBSET Record
      BY ReadTypes
    <2>2. FloorOf(t) \in Times \cup {NoFloor}
      BY FieldTypes DEF FloorOf, TypeOK
    <2>3. nf \in Times \cup {NoFloor}
      BY <2>2, FieldTypes, GreaterType, Zenon DEF TypeOK
    <2>4. tx' = [tx EXCEPT ![t] = [tx[t] EXCEPT !.dels = tx[t].dels \cup gone, !.newFloor = nf]]
      BY <1>6, Zenon DEF HistoryGc, TypeOK
    <2>5. metaLock' \in Txs \cup {NoTx}
      BY <1>6 DEF HistoryGc, LockMeta, TypeOK
    <2> HIDE DEF gone, nf
    <2>7. tx[t].dels \cup gone \in SUBSET Record
      BY <2>1, FieldTypes DEF TypeOK
    <2>8. [tx[t] EXCEPT !.dels = tx[t].dels \cup gone, !.newFloor = nf] \in TxType
      BY <2>3, <2>7, FieldUpdates, Zenon DEF TypeOK
    <2>6. tx' \in [Txs -> TxType]
      BY <2>4, <2>8 DEF TypeOK
    <2> QED
      BY <1>6, <2>5, <2>6 DEF HistoryGc, TypeOK, store, history
  <1>7. ASSUME NEW ks \in SUBSET Keys, NEW now \in Wall, Evict(t, ks, now)
        PROVE  TypeOK'
    <2> DEFINE gone == {r \in View(t) : r.key \in ks}
               new == [key: ks, tt: {Tick(now)}]
    <2>1. gone \in SUBSET Record
      BY ReadTypes
    <2>2. Tick(now) \in Times
      BY <1>7, TickType, Zenon DEF Evict, TypeOK
    <2>3. new \in SUBSET [key: Keys, tt: Times]
      BY <2>2
    <2>4. /\ tx' = [tx EXCEPT ![t] = [tx[t] EXCEPT !.dels = tx[t].dels \cup gone,
                                 !.audits = tx[t].audits \cup new, !.dirty = TRUE]]
          /\ hwm' = Tick(now)
      BY <1>7, Zenon DEF Evict, TypeOK
    <2>5. metaLock' \in Txs \cup {NoTx}
      BY <1>7, Zenon DEF Evict, LockMeta, TypeOK
    <2> HIDE DEF gone, new
    <2>7. tx[t].dels \cup gone \in SUBSET Record
          /\ tx[t].audits \cup new \in SUBSET [key: Keys, tt: Times]
      BY <2>1, <2>3, FieldTypes DEF TypeOK
    <2>8. [tx[t] EXCEPT !.dels = tx[t].dels \cup gone,
                        !.audits = tx[t].audits \cup new, !.dirty = TRUE] \in TxType
      BY <2>7, FieldUpdates, Zenon DEF TypeOK
    <2>6. tx' \in [Txs -> TxType]
      BY <2>4, <2>8 DEF TypeOK
    <2> QED
      BY <1>7, <2>2, <2>4, <2>5, <2>6, Zenon DEF Evict, TypeOK, store, history
  <1> QED
    BY <1>1, <1>2, <1>3, <1>4, <1>5, <1>6, <1>7 DEF Statement

\* What a statement other than ::history_gc and ::evict may change.
Buffers(t) ==
  /\ tx[t].phase = "open"
  /\ tx' = [tx EXCEPT ![t] = [tx[t] EXCEPT !.pending = tx'[t].pending,
                               !.reconciled = tx'[t].reconciled, !.declared = tx'[t].declared]]
  /\ UNCHANGED <<store, history, running, hwm, locks>>

LEMMA StatementSplit ==
  ASSUME TypeOK, NEW t \in Txs, Statement(t)
  PROVE  \/ Buffers(t)
         \/ \E cutoff \in Times, now \in Wall : HistoryGc(t, cutoff, now)
         \/ \E ks \in SUBSET Keys, now \in Wall : Evict(t, ks, now)
  <1>0. tx \in [Txs -> TxType]
    BY DEF TypeOK
  <1>1. ASSUME NEW row, tx[t].phase = "open", Write(t, row) PROVE Buffers(t)
    <2> DEFINE b == Buffer(tx[t].pending, row)
    <2>1. tx' = [tx EXCEPT ![t].pending = b]
      BY <1>1 DEF Write
    <2> HIDE DEF b
    <2>2. tx' = [tx EXCEPT ![t] = [tx[t] EXCEPT !.pending = tx'[t].pending,
                               !.reconciled = tx'[t].reconciled, !.declared = tx'[t].declared]]
      BY <2>1, <1>0, Zenon, SMTT(20) DEF TxType
    <2> QED
      BY <1>1, <2>2 DEF Buffers, Write
  <1>2. ASSUME NEW k \in Keys, NEW vs \in SUBSET VtAxis, RmAt(t, k, vs) PROVE Buffers(t)
    <2>1. PICK b : tx' = [tx EXCEPT ![t].pending = b]
      BY <1>2, Zenon DEF RmAt
    <2>2. tx' = [tx EXCEPT ![t] = [tx[t] EXCEPT !.pending = tx'[t].pending,
                               !.reconciled = tx'[t].reconciled, !.declared = tx'[t].declared]]
      BY <2>1, <1>0, Zenon DEF TxType
    <2>3. tx[t].phase = "open" /\ UNCHANGED <<store, history, running, hwm, locks>>
      BY <1>2 DEF RmAt
    <2> QED
      BY <2>2, <2>3 DEF Buffers
  <1>3. ASSUME NEW desired \in SUBSET Declared, Reconcile(t, desired) PROVE Buffers(t)
    <2>1. PICK b : tx' = [tx EXCEPT ![t].pending = b, ![t].reconciled = TRUE,
                                    ![t].declared = desired]
      BY <1>3, Zenon DEF Reconcile
    <2>a. tx' = [tx EXCEPT ![t] = [tx[t] EXCEPT !.pending = b, !.reconciled = TRUE,
                                                !.declared = desired]]
      BY <2>1, <1>0, Zenon
    <2>b. tx'[t].pending = b /\ tx'[t].reconciled = TRUE /\ tx'[t].declared = desired
      BY <2>a, <1>0 DEF TxType
    <2>2. tx' = [tx EXCEPT ![t] = [tx[t] EXCEPT !.pending = tx'[t].pending,
                               !.reconciled = tx'[t].reconciled, !.declared = tx'[t].declared]]
      BY <2>a, <2>b, Zenon
    <2>3. tx[t].phase = "open" /\ UNCHANGED <<store, history, running, hwm, locks>>
      BY <1>3 DEF Reconcile
    <2> QED
      BY <2>2, <2>3 DEF Buffers
  <1>4. ASSUME NEW k \in Keys, NEW v \in VtAxis, NEW a \in BOOLEAN, NEW x \in Vals,
               Put(t, k, v, a, x) \/ Insert(t, k, v, a, x)
        PROVE  Buffers(t)
    BY <1>1, <1>4 DEF Put, Insert
  <1>5. ASSUME NEW k \in Keys, Rm(t, k) PROVE Buffers(t)
    BY <1>1, <1>5 DEF Rm
  <1>6. ASSUME NEW k \in Keys, NEW now \in VtAxis, NEW x \in Vals, Update(t, k, now, x)
        PROVE  Buffers(t)
    BY <1>1, <1>6 DEF Update
  <1> QED
    BY <1>2, <1>3, <1>4, <1>5, <1>6 DEF Statement

LEMMA BeginType == ASSUME TypeOK, NEW t \in Txs, Begin(t) PROVE TypeOK'
  <1>1. [IdleTx EXCEPT !.phase = "open", !.seenMark = mark, !.seenFloor = floor] \in TxType
    <2>1. mark \in Times /\ floor \in Times \cup {NoFloor} /\ "open" \in Phases
      BY DEF TypeOK, Phases
    <2> QED
      BY <2>1, IdleType, Zenon DEF TxType
  <1>2. tx' \in [Txs -> TxType]
    BY <1>1 DEF Begin, TypeOK
  <1> QED
    BY <1>2 DEF Begin, TypeOK, store, history, locks

LEMMA ReleaseType ==
  ASSUME TypeOK, NEW t \in Txs, Release(t)
  PROVE  tx' \in [Txs -> TxType] /\ ttLock' \in Txs \cup {NoTx} /\ metaLock' \in Txs \cup {NoTx}
  BY IdleType DEF Release, TypeOK

LEMMA ApplyType ==
  ASSUME TypeOK, NEW t \in Txs, Apply(t)
  PROVE  /\ rows' \subseteq Record /\ floor' \in Times \cup {NoFloor}
         /\ audit' \subseteq [key: Keys, tt: Times]
         /\ ledger' \subseteq Record /\ erased' \subseteq Keys \X Times
  <1>1. /\ tx[t].puts \subseteq Record /\ tx[t].newFloor \in Times \cup {NoFloor}
        /\ tx[t].audits \subseteq [key: Keys, tt: Times]
    BY FieldTypes DEF TypeOK
  <1>2. \A r \in ledger : <<r.key, r.tt>> \in Keys \X Times
    BY DEF TypeOK, Record
  <1> DEFINE evicted == {r \in ledger : /\ \E a \in tx[t].audits : a.key = r.key
                                        /\ r \notin rows \ tx[t].dels}
  <1>3. /\ ledger' = (ledger \ evicted) \cup tx[t].puts
        /\ erased' = erased \cup {<<r.key, r.tt>> : r \in evicted}
    BY DEF Apply
  <1>4. ledger' \subseteq Record /\ erased' \subseteq Keys \X Times
    BY <1>1, <1>2, <1>3 DEF TypeOK
  <1> QED
    BY <1>1, <1>4 DEF Apply, TypeOK

LEMMA StampType ==
  ASSUME TypeOK, NEW t \in Txs
  PROVE  {[key |-> p.key, vt |-> p.vt, tt |-> tx[t].tt, assert |-> p.assert, val |-> p.val] :
            p \in tx[t].pending} \in SUBSET Record
  <1>1. tx[t].tt \in Times /\ tx[t].pending \subseteq Pending
    BY FieldTypes DEF TypeOK
  <1>2. \A p \in Pending : p.key \in Keys /\ p.vt \in VtAxis /\ p.assert \in BOOLEAN /\ p.val \in Vals
    BY DEF Pending
  <1>3. \A p \in Pending : [key |-> p.key, vt |-> p.vt, tt |-> tx[t].tt, assert |-> p.assert,
                            val |-> p.val] \in Record
    BY <1>1, <1>2 DEF Record
  <1> QED
    BY <1>1, <1>3

LEMMA PhaseUpdates ==
  ASSUME NEW x \in TxType, NEW ph \in Phases, NEW n \in Times, NEW d \in SUBSET Record
  PROVE  /\ [x EXCEPT !.phase = ph] \in TxType
         /\ [x EXCEPT !.phase = ph, !.tt = n] \in TxType
         /\ [x EXCEPT !.phase = ph, !.puts = d] \in TxType
  <1> DEFINE PP == SUBSET Pending
             DD == SUBSET Declared
             RR == SUBSET Record
             FF == Times \cup {NoFloor}
             AA == SUBSET [key: Keys, tt: Times]
  <1>1. /\ d \in RR
        /\ x \in [phase: Phases, pending: PP, reconciled: BOOLEAN, declared: DD,
                  dels: RR, newFloor: FF, dirty: BOOLEAN, audits: AA,
                  seenMark: Times, seenFloor: FF, tt: Times, puts: RR]
    BY DEF TxType
  <1>2. TxType = [phase: Phases, pending: PP, reconciled: BOOLEAN, declared: DD,
                  dels: RR, newFloor: FF, dirty: BOOLEAN, audits: AA,
                  seenMark: Times, seenFloor: FF, tt: Times, puts: RR]
    BY DEF TxType
  <1> HIDE DEF PP, DD, RR, FF, AA
  <1> QED
    BY <1>1, <1>2, Zenon

LEMMA TtStepType ==
  ASSUME TypeOK, NEW t \in Txs, TtEnter(t) \/ TtStep(t)
  PROVE  TypeOK'
  <1>0. /\ tx[t] \in TxType
        /\ \A ph \in {"locked", "allocated", "stamped", "marked", "committed"} : ph \in Phases
    BY DEF TypeOK, Phases
  <1>1. CASE TtEnter(t)
    <2>1. tx' = [tx EXCEPT ![t] = [tx[t] EXCEPT !.phase = "locked"]]
      BY <1>1 DEF TtEnter, TypeOK
    <2>2. tx' \in [Txs -> TxType]
      BY <1>0, <2>1, PhaseUpdates, Zenon DEF TypeOK
    <2> QED
      BY <1>1, <2>2 DEF TtEnter, TypeOK, store, history
  <1>2. ASSUME NEW now \in Wall, TtAdvance(t, now) PROVE TypeOK'
    <2>1. Tick(now) \in Times
      BY <1>2, TickType DEF TtAdvance, TypeOK
    <2>2. tx' = [tx EXCEPT ![t] = [tx[t] EXCEPT !.phase = "allocated", !.tt = Tick(now)]]
      BY <1>2, Zenon DEF TtAdvance, TypeOK
    <2>3. tx' \in [Txs -> TxType]
      BY <1>0, <2>1, <2>2, PhaseUpdates, Zenon DEF TypeOK
    <2> QED
      BY <1>2, <2>1, <2>3 DEF TtAdvance, TypeOK, store, history, locks
  <1>3. CASE TtStamp(t)
    <2> DEFINE P == {[key |-> p.key, vt |-> p.vt, tt |-> tx[t].tt, assert |-> p.assert,
                      val |-> p.val] : p \in tx[t].pending}
    <2>1. P \in SUBSET Record
      BY StampType
    <2>2. tx' = [tx EXCEPT ![t] = [tx[t] EXCEPT !.phase = "stamped", !.puts = P]]
      BY <1>3, Zenon DEF TtStamp, TypeOK
    <2> HIDE DEF P
    <2>3. tx' \in [Txs -> TxType]
      BY <1>0, <2>1, <2>2, PhaseUpdates, Zenon DEF TypeOK
    <2>4. UNCHANGED <<store, history, running, hwm, locks>>
      BY <1>3 DEF TtStamp
    <2> QED
      BY <2>3, <2>4 DEF TypeOK, store, history, locks
  <1>4. CASE TtPutMark(t)
    <2>1. tx' = [tx EXCEPT ![t] = [tx[t] EXCEPT !.phase = "marked"]]
      BY <1>4 DEF TtPutMark, TypeOK
    <2>2. tx' \in [Txs -> TxType]
      BY <1>0, <2>1, PhaseUpdates, Zenon DEF TypeOK
    <2> QED
      BY <1>4, <2>2 DEF TtPutMark, TypeOK, store, history, locks
  <1>5. CASE TtCommit(t)
    <2>1. tx' = [tx EXCEPT ![t] = [tx[t] EXCEPT !.phase = "committed"]]
      BY <1>5 DEF TtCommit, TypeOK
    <2>2. tx' \in [Txs -> TxType]
      BY <1>0, <2>1, PhaseUpdates, Zenon DEF TypeOK
    <2>3. mark' \in Times /\ Apply(t) /\ UNCHANGED <<running, hwm, locks>>
      BY <1>0, <1>5, FieldTypes DEF TtCommit
    <2> QED
      BY <2>2, <2>3, ApplyType DEF TypeOK, locks
  <1>6. CASE TtLeave(t)
    BY <1>6, ReleaseType DEF TtLeave, TypeOK, store, history
  <1> QED
    BY <1>1, <1>2, <1>3, <1>4, <1>5, <1>6 DEF TtStep

LEMMA TypeStep == TypeOK /\ [Next]_vars => TypeOK'
  <1> SUFFICES ASSUME TypeOK, [Next]_vars PROVE TypeOK'
    OBVIOUS
  <1>1. ASSUME NEW t \in Txs, CommitPlain(t) PROVE TypeOK'
    BY <1>1, ReleaseType, ApplyType DEF CommitPlain, TypeOK
  <1>2. ASSUME NEW t \in Txs, Abort(t) PROVE TypeOK'
    BY <1>2, ReleaseType DEF Abort, TypeOK, store, history
  <1>3. CASE Crash
    BY <1>3, IdleType, TimesFacts, Zenon DEF Crash, TypeOK, store, history
  <1>4. ASSUME NEW now \in Wall, Open(now) PROVE TypeOK'
    <2>1. hwm' \in Times
      BY <1>4, GreaterType, TimesFacts, Zenon DEF Open, TypeOK
    <2> QED
      BY <1>4, <2>1 DEF Open, TypeOK, store, history, locks
  <1>5. CASE UNCHANGED vars
    BY <1>5 DEF vars, store, history, locks, TypeOK
  <1> QED
    BY <1>1, <1>2, <1>3, <1>4, <1>5, BeginType, StatementType, TtStepType DEF Next

-----------------------------------------------------------------------------
(* What each action changes *)

\* An action that leaves the store alone and moves t only.
Local(t) ==
  /\ \A u \in Txs \ {t} : tx'[u] = tx[u]
  /\ UNCHANGED <<rows, mark, floor, audit, ledger, erased, running>>

\* What no step of the commit changes.
Keeps(t) ==
  /\ tx'[t].audits = tx[t].audits /\ tx'[t].dirty = tx[t].dirty
  /\ tx'[t].dels = tx[t].dels /\ tx'[t].newFloor = tx[t].newFloor
  /\ tx'[t].pending = tx[t].pending

LEMMA BeginEffect ==
  ASSUME TypeOK, NEW t \in Txs, Begin(t)
  PROVE  /\ Local(t) /\ running /\ UNCHANGED <<hwm, ttLock, metaLock>> /\ tx[t].phase = "idle"
         /\ tx'[t].phase = "open" /\ tx'[t].puts = {} /\ tx'[t].audits = {}
         /\ tx'[t].pending = {} /\ tx'[t].dels = {} /\ tx'[t].newFloor = NoFloor
  <1>1. tx' = [tx EXCEPT ![t] = [IdleTx EXCEPT !.phase = "open", !.seenMark = mark,
                                               !.seenFloor = floor]]
    BY DEF Begin
  <1>2. tx'[t] = [IdleTx EXCEPT !.phase = "open", !.seenMark = mark, !.seenFloor = floor]
        /\ \A u \in Txs \ {t} : tx'[u] = tx[u]
    BY <1>1 DEF TypeOK
  <1>3. /\ tx'[t].phase = "open" /\ tx'[t].puts = {} /\ tx'[t].audits = {}
        /\ tx'[t].pending = {} /\ tx'[t].dels = {} /\ tx'[t].newFloor = NoFloor
    BY <1>2, IdleType DEF TxType
  <1> QED
    BY <1>2, <1>3 DEF Begin, Local, store, history, locks

LEMMA BuffersEffect ==
  ASSUME TypeOK, NEW t \in Txs, Buffers(t)
  PROVE  /\ Local(t) /\ UNCHANGED <<hwm, ttLock, metaLock>>
         /\ tx[t].phase = "open" /\ tx'[t].phase = "open" /\ tx'[t].puts = tx[t].puts
         /\ tx'[t].audits = tx[t].audits /\ tx'[t].dirty = tx[t].dirty
         /\ tx'[t].dels = tx[t].dels /\ tx'[t].newFloor = tx[t].newFloor
  <1>0. tx \in [Txs -> TxType] /\ tx[t] \in TxType
    BY DEF TypeOK
  <1>1. PICK p, r, d : tx' = [tx EXCEPT ![t] = [tx[t] EXCEPT !.pending = p, !.reconciled = r,
                                                             !.declared = d]]
    BY Zenon DEF Buffers
  <1>2. tx'[t] = [tx[t] EXCEPT !.pending = p, !.reconciled = r, !.declared = d]
        /\ \A u \in Txs \ {t} : tx'[u] = tx[u]
    BY <1>0, <1>1
  <1>3. /\ tx'[t].phase = tx[t].phase /\ tx'[t].puts = tx[t].puts
        /\ tx'[t].audits = tx[t].audits /\ tx'[t].dirty = tx[t].dirty
        /\ tx'[t].dels = tx[t].dels /\ tx'[t].newFloor = tx[t].newFloor
    BY <1>0, <1>2 DEF TxType
  <1> QED
    BY <1>2, <1>3 DEF Buffers, Local, store, history, locks

LEMMA GcEffect ==
  ASSUME TypeOK, NEW t \in Txs, NEW cutoff \in Times, NEW now \in Wall,
         HistoryGc(t, cutoff, now)
  PROVE  /\ Local(t) /\ UNCHANGED <<hwm, ttLock>>
         /\ tx[t].phase = "open" /\ tx'[t].phase = "open" /\ tx'[t].puts = tx[t].puts
         /\ tx'[t].audits = tx[t].audits /\ tx'[t].dirty = tx[t].dirty
         /\ tx'[t].pending = tx[t].pending
         /\ tx'[t].dels = tx[t].dels \cup Superseded(View(t), cutoff)
         /\ tx'[t].newFloor = IF Superseded(View(t), cutoff) = {} THEN tx[t].newFloor
                              ELSE Greater(FloorOf(t), cutoff)
         /\ LockMeta(t)
  <1>0. tx \in [Txs -> TxType] /\ tx[t] \in TxType
    BY DEF TypeOK
  <1> DEFINE d == tx[t].dels \cup Superseded(View(t), cutoff)
             f == IF Superseded(View(t), cutoff) = {} THEN tx[t].newFloor
                  ELSE Greater(FloorOf(t), cutoff)
  <1>1. tx' = [tx EXCEPT ![t] = [tx[t] EXCEPT !.dels = d, !.newFloor = f]]
    BY <1>0, Zenon DEF HistoryGc
  <1>4. LockMeta(t) /\ tx[t].phase = "open" /\ UNCHANGED <<store, history, running, hwm, ttLock>>
    BY DEF HistoryGc
  <1> SUFFICES /\ Local(t)
               /\ tx'[t].phase = "open" /\ tx'[t].puts = tx[t].puts
               /\ tx'[t].audits = tx[t].audits /\ tx'[t].dirty = tx[t].dirty
               /\ tx'[t].pending = tx[t].pending
               /\ tx'[t].dels = d /\ tx'[t].newFloor = f
    BY <1>4
  <1> HIDE DEF d, f
  <1>2. tx'[t] = [tx[t] EXCEPT !.dels = d, !.newFloor = f] /\ \A u \in Txs \ {t} : tx'[u] = tx[u]
    BY <1>0, <1>1
  <1>3. /\ tx'[t].phase = tx[t].phase /\ tx'[t].puts = tx[t].puts
        /\ tx'[t].audits = tx[t].audits /\ tx'[t].dirty = tx[t].dirty
        /\ tx'[t].pending = tx[t].pending
        /\ tx'[t].dels = d /\ tx'[t].newFloor = f
    BY <1>0, <1>2 DEF TxType
  <1> QED
    BY <1>2, <1>3, <1>4 DEF Local, store, history

LEMMA EvictEffect ==
  ASSUME TypeOK, NEW t \in Txs, NEW ks \in SUBSET Keys, NEW now \in Wall, Evict(t, ks, now)
  PROVE  /\ Local(t) /\ UNCHANGED ttLock /\ hwm' \in Times /\ hwm' > hwm
         /\ tx[t].phase = "open" /\ tx'[t].phase = "open" /\ tx'[t].puts = tx[t].puts
         /\ tx'[t].audits = tx[t].audits \cup [key: ks, tt: {hwm'}] /\ tx'[t].dirty
         /\ tx'[t].pending = tx[t].pending
         /\ tx'[t].dels = tx[t].dels \cup {r \in View(t) : r.key \in ks}
         /\ tx'[t].newFloor = tx[t].newFloor
         /\ LockMeta(t)
  <1>0. tx \in [Txs -> TxType] /\ tx[t] \in TxType
    BY DEF TypeOK
  <1> DEFINE d == tx[t].dels \cup {r \in View(t) : r.key \in ks}
             a == tx[t].audits \cup [key: ks, tt: {hwm'}]
  <1>1. /\ tx' = [tx EXCEPT ![t] = [tx[t] EXCEPT !.dels = d, !.audits = a, !.dirty = TRUE]]
        /\ hwm' = Tick(now) /\ Tick(now) <= MaxTt
    BY <1>0, Zenon DEF Evict
  <1>4. LockMeta(t) /\ tx[t].phase = "open" /\ UNCHANGED <<store, history, running, ttLock>>
    BY Zenon DEF Evict
  <1>5. hwm' \in Times /\ hwm' > hwm
    BY <1>1, TickType DEF TypeOK
  <1> SUFFICES /\ Local(t)
               /\ tx'[t].phase = "open" /\ tx'[t].puts = tx[t].puts
               /\ tx'[t].audits = a /\ tx'[t].dirty
               /\ tx'[t].pending = tx[t].pending
               /\ tx'[t].dels = d /\ tx'[t].newFloor = tx[t].newFloor
    BY <1>4, <1>5
  <1> HIDE DEF d, a
  <1>2. /\ tx'[t] = [tx[t] EXCEPT !.dels = d, !.audits = a, !.dirty = TRUE]
        /\ \A u \in Txs \ {t} : tx'[u] = tx[u]
    BY <1>0, <1>1
  <1>3. /\ tx'[t].phase = tx[t].phase /\ tx'[t].puts = tx[t].puts
        /\ tx'[t].audits = a /\ tx'[t].dirty = TRUE
        /\ tx'[t].pending = tx[t].pending
        /\ tx'[t].dels = d /\ tx'[t].newFloor = tx[t].newFloor
    BY <1>0, <1>2 DEF TxType
  <1> QED
    BY <1>2, <1>3, <1>4 DEF Local, store, history

LEMMA SectionEffect ==
  ASSUME TypeOK, NEW t \in Txs
  PROVE  /\ TtEnter(t) =>
              /\ Local(t) /\ UNCHANGED <<hwm, metaLock>> /\ Keeps(t)
              /\ ttLock = NoTx /\ ttLock' = t
              /\ tx[t].phase = "open" /\ tx'[t].phase = "locked" /\ tx'[t].puts = tx[t].puts
         /\ \A now \in Wall : TtAdvance(t, now) =>
              /\ Local(t) /\ UNCHANGED <<ttLock, metaLock>> /\ Keeps(t)
              /\ hwm' \in Times /\ hwm' > hwm /\ tx'[t].tt = hwm'
              /\ tx[t].phase = "locked" /\ tx'[t].phase = "allocated" /\ tx'[t].puts = tx[t].puts
         /\ TtPutMark(t) =>
              /\ Local(t) /\ UNCHANGED <<hwm, ttLock, metaLock>> /\ Keeps(t)
              /\ tx'[t].tt = tx[t].tt
              /\ tx[t].phase = "stamped" /\ tx'[t].phase = "marked" /\ tx'[t].puts = tx[t].puts
         /\ TtCommit(t) =>
              /\ Apply(t) /\ UNCHANGED <<running, hwm, ttLock, metaLock>> /\ Keeps(t)
              /\ mark' = tx[t].tt /\ tx'[t].tt = tx[t].tt
              /\ tx[t].phase = "marked" /\ tx'[t].phase = "committed" /\ tx'[t].puts = tx[t].puts
              /\ \A u \in Txs \ {t} : tx'[u] = tx[u]
  <1>0. tx \in [Txs -> TxType] /\ tx[t] \in TxType
    BY DEF TypeOK
  <1>1. ASSUME NEW ph, tx' = [tx EXCEPT ![t].phase = ph]
        PROVE  /\ Keeps(t) /\ tx'[t].phase = ph /\ tx'[t].puts = tx[t].puts
               /\ tx'[t].tt = tx[t].tt /\ \A u \in Txs \ {t} : tx'[u] = tx[u]
    BY <1>0, <1>1 DEF Keeps, TxType
  <1>2. ASSUME NEW n, tx' = [tx EXCEPT ![t].phase = "allocated", ![t].tt = n]
        PROVE  /\ Keeps(t) /\ tx'[t].phase = "allocated" /\ tx'[t].puts = tx[t].puts
               /\ tx'[t].tt = n /\ \A u \in Txs \ {t} : tx'[u] = tx[u]
    BY <1>0, <1>2 DEF Keeps, TxType
  <1>3. ASSUME TtEnter(t)
        PROVE  /\ Local(t) /\ UNCHANGED <<hwm, metaLock>> /\ Keeps(t)
               /\ ttLock = NoTx /\ ttLock' = t
               /\ tx[t].phase = "open" /\ tx'[t].phase = "locked" /\ tx'[t].puts = tx[t].puts
    BY <1>1, <1>3, Zenon DEF TtEnter, Local, store, history
  <1>4. ASSUME NEW now \in Wall, TtAdvance(t, now)
        PROVE  /\ Local(t) /\ UNCHANGED <<ttLock, metaLock>> /\ Keeps(t)
               /\ hwm' \in Times /\ hwm' > hwm /\ tx'[t].tt = hwm'
               /\ tx[t].phase = "locked" /\ tx'[t].phase = "allocated" /\ tx'[t].puts = tx[t].puts
    <2>1. hwm' = Tick(now) /\ tx' = [tx EXCEPT ![t].phase = "allocated", ![t].tt = hwm']
      BY <1>4 DEF TtAdvance
    <2>2. hwm' \in Times /\ hwm' > hwm
      BY <1>4, <2>1, TickType DEF TtAdvance, TypeOK
    <2> QED
      BY <1>2, <1>4, <2>1, <2>2, Zenon DEF TtAdvance, Local, store, history, locks
  <1>5. ASSUME TtPutMark(t)
        PROVE  /\ Local(t) /\ UNCHANGED <<hwm, ttLock, metaLock>> /\ Keeps(t)
               /\ tx'[t].tt = tx[t].tt
               /\ tx[t].phase = "stamped" /\ tx'[t].phase = "marked" /\ tx'[t].puts = tx[t].puts
    BY <1>1, <1>5, Zenon DEF TtPutMark, Local, store, history, locks
  <1>6. ASSUME TtCommit(t)
        PROVE  /\ Apply(t) /\ UNCHANGED <<running, hwm, ttLock, metaLock>> /\ Keeps(t)
               /\ mark' = tx[t].tt /\ tx'[t].tt = tx[t].tt
               /\ tx[t].phase = "marked" /\ tx'[t].phase = "committed" /\ tx'[t].puts = tx[t].puts
               /\ \A u \in Txs \ {t} : tx'[u] = tx[u]
    BY <1>1, <1>6, Zenon DEF TtCommit, locks
  <1> QED
    BY <1>3, <1>4, <1>5, <1>6

LEMMA StampEffect ==
  ASSUME TypeOK, NEW t \in Txs, TtStamp(t)
  PROVE  /\ Local(t) /\ UNCHANGED <<hwm, ttLock, metaLock>> /\ Keeps(t)
         /\ tx[t].phase = "allocated" /\ tx'[t].phase = "stamped" /\ tx'[t].tt = tx[t].tt
         /\ tx'[t].puts = {[key |-> p.key, vt |-> p.vt, tt |-> tx[t].tt, assert |-> p.assert,
                            val |-> p.val] : p \in tx[t].pending}
         /\ ~AssertsAndRetracts(tx[t].pending)
  <1>0. tx \in [Txs -> TxType] /\ tx[t] \in TxType
    BY DEF TypeOK
  <1> DEFINE P == {[key |-> p.key, vt |-> p.vt, tt |-> tx[t].tt, assert |-> p.assert,
                    val |-> p.val] : p \in tx[t].pending}
  <1>1. /\ tx' = [tx EXCEPT ![t].phase = "stamped", ![t].puts = P]
        /\ ~AssertsAndRetracts(tx[t].pending) /\ tx[t].phase = "allocated"
        /\ UNCHANGED <<store, history, running, hwm, locks>>
    BY DEF TtStamp
  <1> SUFFICES Local(t) /\ Keeps(t) /\ tx'[t].phase = "stamped" /\ tx'[t].tt = tx[t].tt
               /\ tx'[t].puts = P
    BY <1>1 DEF locks
  <1> HIDE DEF P
  <1> QED
    BY <1>0, <1>1 DEF Local, Keeps, TxType, store, history

LEMMA StampTimes ==
  ASSUME TypeOK, NEW t \in Txs, TtStamp(t)
  PROVE  \A p \in tx'[t].puts : p.tt = tx'[t].tt
  BY StampEffect, SMTT(20), Z3T(20)

LEMMA ReleaseEffect ==
  ASSUME TypeOK, NEW t \in Txs, Release(t)
  PROVE  /\ tx'[t] = IdleTx /\ \A u \in Txs \ {t} : tx'[u] = tx[u]
         /\ ttLock' = IF ttLock = t THEN NoTx ELSE ttLock
         /\ metaLock' = IF metaLock = t THEN NoTx ELSE metaLock
  BY DEF Release, TypeOK

LEMMA NoTxFact == ASSUME NEW t \in Txs PROVE t # NoTx
  BY TxTimeAssumption

\* Times compare as naturals.
LEMMA TimeFacts ==
  ASSUME TypeOK
  PROVE  /\ hwm \in Nat /\ mark \in Nat
         /\ \A t \in Txs : /\ tx[t].tt \in Nat
                           /\ \A a \in tx[t].audits : a.tt \in Nat
                           /\ \A p \in tx[t].puts : p.tt \in Nat
         /\ \A r \in rows \cup ledger : r.tt \in Nat
         /\ \A a \in audit : a.tt \in Nat
  <1>1. /\ \A r \in Record : r.tt \in Nat
        /\ \A a \in [key: Keys, tt: Times] : a.tt \in Nat
    BY TimesFacts, Zenon DEF Record
  <1>2. \A t \in Txs : /\ tx[t].tt \in Times
                       /\ tx[t].audits \subseteq [key: Keys, tt: Times]
                       /\ tx[t].puts \subseteq Record
    BY FieldTypes DEF TypeOK
  <1>3. /\ hwm \in Times /\ mark \in Times /\ rows \subseteq Record /\ ledger \subseteq Record
        /\ audit \subseteq [key: Keys, tt: Times]
    BY DEF TypeOK
  <1> QED
    BY <1>1, <1>2, <1>3, TimesFacts, Zenon

LEMMA TimeFactsNext ==
  ASSUME TypeOK'
  PROVE  /\ hwm' \in Nat /\ mark' \in Nat
         /\ \A t \in Txs : /\ tx'[t].tt \in Nat
                           /\ \A a \in tx'[t].audits : a.tt \in Nat
                           /\ \A p \in tx'[t].puts : p.tt \in Nat
         /\ \A r \in rows' \cup ledger' : r.tt \in Nat
         /\ \A a \in audit' : a.tt \in Nat
  <1>1. /\ \A r \in Record : r.tt \in Nat
        /\ \A a \in [key: Keys, tt: Times] : a.tt \in Nat
    BY TimesFacts, Zenon DEF Record
  <1>2. \A t \in Txs : /\ tx'[t].tt \in Times
                       /\ tx'[t].audits \subseteq [key: Keys, tt: Times]
                       /\ tx'[t].puts \subseteq Record
    BY FieldTypes DEF TypeOK
  <1>3. /\ hwm' \in Times /\ mark' \in Times /\ rows' \subseteq Record /\ ledger' \subseteq Record
        /\ audit' \subseteq [key: Keys, tt: Times]
    BY DEF TypeOK
  <1> QED
    BY <1>1, <1>2, <1>3, TimesFacts, Zenon

-----------------------------------------------------------------------------
(* The clock *)

LEMMA ClockInit == Init => ClockInv
  <1> SUFFICES ASSUME Init PROVE ClockInv
    OBVIOUS
  <1>1. TypeOK
    BY IdleType, TimesFacts, Zenon DEF Init, TypeOK, NoMark
  <1>2. Timed(IdleTx, mark, hwm)
    BY IdleType DEF Timed, Allocated
  <1> QED
    BY <1>1, <1>2, IdleType DEF Init, ClockInv, OneInSection, MarkCoversCommits, Section, NoMark

\* The transactions that did not move keep their part of the invariant when the
\* clock did not fall and the mark is still below them.
LEMMA TimedLater ==
  ASSUME NEW x \in TxType, NEW m, NEW h \in Nat, NEW n, NEW g \in Nat,
         Timed(x, m, h), h <= g, x.phase \in Allocated => n < x.tt
  PROVE  Timed(x, n, g)
  <1>1. x.tt \in Times /\ x.audits \subseteq [key: Keys, tt: Times]
    BY FieldTypes
  <1>2. x.tt \in Nat /\ \A a \in x.audits : a.tt \in Nat
    BY <1>1, IntTimes
  <1> QED
    BY <1>2, SMTT(20), Z3T(20) DEF Timed

LEMMA LocalKeepsClock ==
  ASSUME ClockInv, TypeOK', NEW t \in Txs, Local(t), hwm <= hwm', OneInSection',
         Timed(tx'[t], mark, hwm')
  PROVE  ClockInv'
  <1>1. /\ rows' = rows /\ mark' = mark /\ audit' = audit /\ running' = running
        /\ \A u \in Txs \ {t} : tx'[u] = tx[u]
    BY DEF Local
  <1>2. TypeOK /\ hwm \in Nat /\ hwm' \in Nat /\ mark \in Nat
    BY TimeFacts, TimeFactsNext DEF ClockInv
  <1>3. ASSUME NEW u \in Txs, u # t PROVE Timed(tx'[u], mark', hwm')
    <2>1. tx[u] \in TxType /\ Timed(tx[u], mark, hwm)
      BY <1>2 DEF ClockInv, TypeOK
    <2>2. tx[u].phase \in Allocated => mark < tx[u].tt
      BY <2>1 DEF Timed
    <2> QED
      BY <1>1, <1>2, <1>3, <2>1, <2>2, TimedLater
  <1>4. MarkCoversCommits'
    BY <1>1, <1>2, SMTT(20), Z3T(20) DEF ClockInv, MarkCoversCommits
  <1> QED
    BY <1>1, <1>3, <1>4 DEF ClockInv

LEMMA NotFallen == ASSUME NEW h \in Nat, NEW g \in Nat, g = h \/ g > h PROVE h <= g
  BY SMTT(20), Z3T(20)

LEMMA SectionKept ==
  ASSUME OneInSection, NEW t \in Txs, \A u \in Txs \ {t} : tx'[u] = tx[u],
         running' = running, running \/ tx'[t].phase = "idle",
         ttLock' = ttLock, tx'[t].phase \in Section => ttLock = t
  PROVE  OneInSection'
  BY DEF OneInSection

LEMMA StatementClock ==
  ASSUME ClockInv, TypeOK', NEW t \in Txs, Statement(t)
  PROVE  ClockInv'
  <1>0. /\ TypeOK /\ OneInSection /\ Timed(tx[t], mark, hwm)
        /\ tx[t].phase = "open" => running
    BY DEF ClockInv, OneInSection
  <1>1. "open" \notin Allocated /\ "open" \notin Section
    BY DEF Allocated, Section
  <1>2. hwm \in Nat /\ hwm' \in Nat /\ \A a \in tx[t].audits : a.tt \in Nat
    BY <1>0, TimeFacts, TimeFactsNext
  <1>3. ASSUME Local(t), hwm <= hwm', ttLock' = ttLock, tx[t].phase = "open",
               tx'[t].phase = "open", tx'[t].puts = tx[t].puts,
               tx'[t].audits # {} => tx'[t].dirty, \A a \in tx'[t].audits : a.tt <= hwm'
        PROVE  ClockInv'
    <2>1. OneInSection'
      BY <1>0, <1>1, <1>3, SectionKept DEF Local
    <2>2. Timed(tx'[t], mark, hwm')
      BY <1>0, <1>1, <1>3 DEF Timed
    <2> QED
      BY <1>3, <2>1, <2>2, LocalKeepsClock
  <1>4. /\ tx[t].audits # {} => tx[t].dirty
        /\ \A a \in tx[t].audits : a.tt <= hwm
    BY <1>0 DEF Timed
  <1>5. CASE Buffers(t)
    BY <1>0, <1>2, <1>3, <1>4, <1>5, BuffersEffect, SMTT(20), Z3T(20)
  <1>6. ASSUME NEW cutoff \in Times, NEW now \in Wall, HistoryGc(t, cutoff, now)
        PROVE  ClockInv'
    <2>1. /\ Local(t) /\ hwm' = hwm /\ ttLock' = ttLock /\ tx[t].phase = "open"
          /\ tx'[t].phase = "open" /\ tx'[t].puts = tx[t].puts
          /\ tx'[t].audits = tx[t].audits /\ tx'[t].dirty = tx[t].dirty
      BY <1>0, <1>6, GcEffect, Zenon
    <2> QED
      BY <1>2, <1>3, <1>4, <2>1, SMTT(30), Z3T(30)
  <1>7. ASSUME NEW ks \in SUBSET Keys, NEW now \in Wall, Evict(t, ks, now)
        PROVE  ClockInv'
    <2>1. /\ Local(t) /\ hwm' > hwm /\ ttLock' = ttLock /\ tx[t].phase = "open"
          /\ tx'[t].phase = "open" /\ tx'[t].puts = tx[t].puts
          /\ tx'[t].audits = tx[t].audits \cup [key: ks, tt: {hwm'}] /\ tx'[t].dirty
      BY <1>0, <1>7, EvictEffect, Zenon
    <2>2. \A a \in tx'[t].audits : a.tt <= hwm'
      BY <1>2, <1>4, <2>1, SMTT(20), Z3T(20)
    <2> QED
      BY <1>2, <1>3, <2>1, <2>2, SMTT(30), Z3T(30)
  <1> QED
    BY <1>0, <1>5, <1>6, <1>7, StatementSplit

LEMMA SectionClock ==
  ASSUME ClockInv, TypeOK', NEW t \in Txs,
         TtEnter(t) \/ (\E now \in Wall : TtAdvance(t, now)) \/ TtStamp(t) \/ TtPutMark(t)
  PROVE  ClockInv'
  <1>0. /\ TypeOK /\ OneInSection /\ Timed(tx[t], mark, hwm)
        /\ tx[t].phase # "idle" => running
        /\ running => mark <= hwm
        /\ tx[t].phase \in Section => ttLock = t
    BY DEF ClockInv, OneInSection, MarkCoversCommits
  <1>1. /\ hwm \in Nat /\ hwm' \in Nat /\ mark \in Nat
        /\ \A a \in tx[t].audits : a.tt \in Nat
    BY <1>0, TimeFacts, TimeFactsNext
  <1>2. ASSUME Local(t), ttLock' = ttLock, tx[t].phase \in Section, hwm <= hwm',
               Timed(tx'[t], mark, hwm')
        PROVE  ClockInv'
    <2>1. OneInSection'
      BY <1>0, <1>2, SectionKept DEF Local, Section
    <2> QED
      BY <1>2, <2>1, LocalKeepsClock, Zenon
  <1>3. CASE TtEnter(t)
    <2>1. /\ Local(t) /\ hwm' = hwm /\ tx'[t].audits = tx[t].audits /\ tx'[t].dirty = tx[t].dirty
          /\ ttLock = NoTx /\ ttLock' = t
          /\ tx[t].phase = "open" /\ tx'[t].phase = "locked" /\ tx'[t].puts = tx[t].puts
      BY <1>0, <1>3, SectionEffect, Zenon DEF Keeps
    <2>2. OneInSection'
      BY <1>0, <2>1, NoTxFact, Zenon DEF OneInSection, Local
    <2>3. Timed(tx'[t], mark, hwm')
      BY <1>0, <2>1 DEF Timed, Allocated
    <2> QED
      BY <1>1, <2>1, <2>2, <2>3, LocalKeepsClock, NotFallen, Zenon
  <1>4. ASSUME NEW now \in Wall, TtAdvance(t, now) PROVE ClockInv'
    <2>1. /\ Local(t) /\ ttLock' = ttLock
          /\ tx'[t].audits = tx[t].audits /\ tx'[t].dirty = tx[t].dirty
          /\ hwm' > hwm /\ tx'[t].tt = hwm'
          /\ tx[t].phase = "locked" /\ tx'[t].phase = "allocated" /\ tx'[t].puts = tx[t].puts
      BY <1>0, <1>4, SectionEffect, Zenon, SMTT(20) DEF Keeps
    <2>2. /\ mark < tx'[t].tt /\ tx'[t].tt <= hwm'
          /\ \A a \in tx'[t].audits : a.tt <= hwm' /\ a.tt < tx'[t].tt
      BY <1>0, <1>1, <2>1, SMTT(30), Z3T(30) DEF Timed
    <2>3. Timed(tx'[t], mark, hwm')
      BY <1>0, <2>1, <2>2 DEF Timed
    <2> QED
      BY <1>1, <1>2, <2>1, <2>3, NotFallen, Zenon DEF Section
  <1>5. CASE TtStamp(t)
    <2>1. /\ Local(t) /\ hwm' = hwm /\ ttLock' = ttLock
          /\ tx'[t].audits = tx[t].audits /\ tx'[t].dirty = tx[t].dirty
          /\ tx[t].phase = "allocated" /\ tx'[t].phase = "stamped" /\ tx'[t].tt = tx[t].tt
      BY <1>0, <1>5, StampEffect, Zenon DEF Keeps
    <2>2. \A p \in tx'[t].puts : p.tt = tx'[t].tt
      BY <1>0, <1>5, StampTimes, Zenon, SMTT(20)
    <2>3. Timed(tx'[t], mark, hwm')
      BY <1>0, <2>1, <2>2 DEF Timed, Allocated
    <2> QED
      BY <1>1, <1>2, <2>1, <2>3, NotFallen, Zenon DEF Section
  <1>6. CASE TtPutMark(t)
    <2>1. /\ Local(t) /\ hwm' = hwm /\ ttLock' = ttLock
          /\ tx'[t].audits = tx[t].audits /\ tx'[t].dirty = tx[t].dirty
          /\ tx[t].phase = "stamped" /\ tx'[t].phase = "marked" /\ tx'[t].tt = tx[t].tt
          /\ tx'[t].puts = tx[t].puts
      BY <1>0, <1>6, SectionEffect, Zenon DEF Keeps
    <2>2. Timed(tx'[t], mark, hwm')
      BY <1>0, <2>1 DEF Timed, Allocated
    <2> QED
      BY <1>1, <1>2, <2>1, <2>2, NotFallen, Zenon DEF Section
  <1> QED
    BY <1>3, <1>4, <1>5, <1>6

LEMMA ReleaseSection ==
  ASSUME TypeOK, OneInSection, NEW t \in Txs, Release(t), running' = running
  PROVE  OneInSection'
  <1>1. /\ tx'[t] = IdleTx /\ \A u \in Txs \ {t} : tx'[u] = tx[u]
        /\ ttLock' = IF ttLock = t THEN NoTx ELSE ttLock
    BY ReleaseEffect
  <1> QED
    BY <1>1, IdleType DEF OneInSection, Section

LEMMA IdleTimed == ASSUME NEW m, NEW h PROVE Timed(IdleTx, m, h)
  BY IdleType DEF Timed, Allocated

LEMMA EndClock ==
  ASSUME ClockInv, TypeOK', NEW t \in Txs, TtLeave(t) \/ Abort(t)
  PROVE  ClockInv'
  <1>0. TypeOK /\ OneInSection
    BY DEF ClockInv
  <1>1. Release(t) /\ UNCHANGED <<store, history, running, hwm>>
    BY DEF TtLeave, Abort
  <1>2. tx'[t] = IdleTx /\ Local(t) /\ hwm' = hwm /\ hwm \in Nat
    BY <1>0, <1>1, ReleaseEffect, TimeFacts DEF Local, store, history
  <1>3. OneInSection'
    BY <1>0, <1>1, ReleaseSection
  <1> QED
    BY <1>2, <1>3, IdleTimed, LocalKeepsClock, SMTT(20), Z3T(20)

LEMMA TtCommitClock ==
  ASSUME ClockInv, TypeOK', NEW t \in Txs, TtCommit(t)
  PROVE  ClockInv'
  <1>0. TypeOK /\ OneInSection /\ Timed(tx[t], mark, hwm) /\ MarkCoversCommits
    BY DEF ClockInv
  <1>1. /\ Apply(t) /\ UNCHANGED <<running, hwm, ttLock>>
        /\ tx'[t].audits = tx[t].audits /\ tx'[t].dirty = tx[t].dirty
        /\ mark' = tx[t].tt /\ tx'[t].tt = tx[t].tt
        /\ tx[t].phase = "marked" /\ tx'[t].phase = "committed" /\ tx'[t].puts = tx[t].puts
        /\ \A u \in Txs \ {t} : tx'[u] = tx[u]
    BY <1>0, SectionEffect, Zenon DEF Keeps
  <1>2. /\ hwm \in Nat /\ mark \in Nat /\ tx[t].tt \in Nat
        /\ \A r \in rows : r.tt \in Nat
        /\ \A a \in audit \cup tx[t].audits : a.tt \in Nat
    BY <1>0, TimeFacts
  <1>3. "marked" \in Allocated /\ "committed" \notin Allocated /\ Allocated \subseteq Section
        /\ "marked" \in Section
    BY DEF Allocated, Section
  <1>4. /\ mark < tx[t].tt /\ tx[t].tt <= hwm
        /\ \A p \in tx[t].puts : p.tt = tx[t].tt
        /\ \A a \in tx[t].audits : a.tt < tx[t].tt
    BY <1>0, <1>1, <1>3, Zenon DEF Timed
  <1>5. \A r \in rows' : r.tt <= mark'
    <2>1. rows' \subseteq rows \cup tx[t].puts /\ \A r \in rows : r.tt <= mark
      BY <1>0, <1>1, Zenon DEF Apply, MarkCoversCommits
    <2> QED
      BY <1>1, <1>2, <1>4, <2>1, SMTT(30), Z3T(30)
  <1>6. \A a \in audit' : a.tt <= mark'
    <2>1. audit' = audit \cup tx[t].audits /\ \A a \in audit : a.tt <= mark
      BY <1>0, <1>1, Zenon DEF Apply, MarkCoversCommits
    <2> QED
      BY <1>1, <1>2, <1>4, <2>1, SMTT(30), Z3T(30)
  <1>7. MarkCoversCommits'
    BY <1>1, <1>4, <1>5, <1>6, Zenon, SMTT(20) DEF MarkCoversCommits
  <1>8. OneInSection'
    BY <1>0, <1>1, <1>3 DEF OneInSection
  <1>9. Timed(tx'[t], mark', hwm')
    BY <1>0, <1>1, <1>3, Zenon DEF Timed
  <1>10. ASSUME NEW u \in Txs, u # t PROVE Timed(tx'[u], mark', hwm')
    <2>1. tx[u].phase \notin Allocated
      BY <1>0, <1>1, <1>3, <1>10 DEF OneInSection
    <2>2. Timed(tx[u], mark, hwm)
      BY DEF ClockInv
    <2> QED
      BY <1>1, <1>10, <2>1, <2>2, Zenon DEF Timed
  <1> QED
    BY <1>7, <1>8, <1>9, <1>10 DEF ClockInv

LEMMA PlainCommitClock ==
  ASSUME ClockInv, TypeOK', NEW t \in Txs, CommitPlain(t)
  PROVE  ClockInv'
  <1>0. TypeOK /\ OneInSection /\ Timed(tx[t], mark, hwm) /\ MarkCoversCommits
    BY DEF ClockInv
  <1>1. /\ Apply(t) /\ Release(t) /\ UNCHANGED <<mark, running, hwm>>
        /\ tx[t].phase = "open" /\ ~tx[t].dirty
    BY DEF CommitPlain
  <1>2. rows' \subseteq rows /\ audit' = audit
    <2>1. tx[t].puts = {} /\ tx[t].audits = {}
      BY <1>0, <1>1, Zenon DEF Timed
    <2> QED
      BY <1>1, <2>1 DEF Apply
  <1>3. MarkCoversCommits'
    BY <1>0, <1>1, <1>2, Zenon DEF MarkCoversCommits
  <1>4. OneInSection'
    BY <1>0, <1>1, ReleaseSection
  <1>5. tx'[t] = IdleTx /\ \A u \in Txs \ {t} : tx'[u] = tx[u]
    BY <1>0, <1>1, ReleaseEffect
  <1>6. \A u \in Txs : Timed(tx'[u], mark', hwm')
    BY <1>1, <1>5, IdleTimed DEF ClockInv
  <1> QED
    BY <1>3, <1>4, <1>6 DEF ClockInv

LEMMA ProcessClock ==
  ASSUME ClockInv, TypeOK', Crash \/ (\E now \in Wall : Open(now)) \/ UNCHANGED vars
  PROVE  ClockInv'
  <1>0. MarkCoversCommits /\ TypeOK /\ OneInSection
    BY DEF ClockInv
  <1>1. CASE Crash
    <2>1. /\ ~running' /\ UNCHANGED <<rows, mark, audit>>
          /\ \A t \in Txs : tx'[t] = IdleTx
      BY <1>1 DEF Crash, store, history
    <2>2. OneInSection' /\ MarkCoversCommits'
      BY <1>0, <2>1, IdleType DEF OneInSection, MarkCoversCommits, Section
    <2> QED
      BY <2>1, <2>2, IdleTimed DEF ClockInv
  <1>2. ASSUME NEW now \in Wall, Open(now) PROVE ClockInv'
    <2>1. /\ ~running /\ UNCHANGED <<rows, mark, audit, ttLock, tx>>
          /\ hwm' = Greater(hwm, Greater(mark, now))
      BY <1>2 DEF Open, store, history, locks
    <2>2. \A t \in Txs : tx[t].phase = "idle"
      BY <1>0, <2>1 DEF OneInSection
    <2>3. hwm \in Nat /\ mark \in Nat /\ hwm' \in Nat /\ now \in Nat
      BY <1>0, TimeFacts, TimeFactsNext, TimesFacts
    <2>4. mark <= hwm' /\ hwm <= hwm'
      BY <2>1, <2>3, SMTT(20), Z3T(20) DEF Greater
    <2>5. OneInSection' /\ MarkCoversCommits'
      BY <1>0, <2>1, <2>2, <2>4 DEF OneInSection, MarkCoversCommits, Section
    <2>6. ASSUME NEW t \in Txs PROVE Timed(tx'[t], mark', hwm')
      <3>1. tx[t] \in TxType /\ Timed(tx[t], mark, hwm) /\ tx[t].phase \notin Allocated
        BY <1>0, <2>2 DEF ClockInv, TypeOK, Allocated
      <3> QED
        BY <2>1, <2>3, <2>4, <3>1, TimedLater
    <2> QED
      BY <2>5, <2>6 DEF ClockInv
  <1>3. CASE UNCHANGED vars
    BY <1>0, <1>3 DEF vars, store, history, locks, ClockInv, OneInSection, MarkCoversCommits
  <1> QED
    BY <1>1, <1>2, <1>3

LEMMA ClockStep == ClockInv /\ [Next]_vars => ClockInv'
  <1> SUFFICES ASSUME ClockInv, [Next]_vars PROVE ClockInv'
    OBVIOUS
  <1>0. TypeOK /\ TypeOK' /\ OneInSection
    BY TypeStep DEF ClockInv
  <1>1. ASSUME NEW t \in Txs, Begin(t) PROVE ClockInv'
    <2>1. /\ Local(t) /\ running /\ hwm' = hwm /\ ttLock' = ttLock
          /\ tx'[t].phase = "open" /\ tx'[t].puts = {} /\ tx'[t].audits = {}
      BY <1>0, <1>1, BeginEffect
    <2>2. OneInSection'
      BY <1>0, <2>1, SectionKept DEF Local, Section
    <2>3. Timed(tx'[t], mark, hwm') /\ hwm \in Nat
      BY <1>0, <2>1, TimeFacts DEF Timed, Allocated
    <2> QED
      BY <1>0, <2>1, <2>2, <2>3, LocalKeepsClock, SMTT(20), Z3T(20)
  <1> QED
    BY <1>0, <1>1, StatementClock, SectionClock, TtCommitClock, PlainCommitClock, EndClock,
       ProcessClock
       DEF Next, TtStep

LEMMA ClockInvariant == Spec => []ClockInv
  BY ClockInit, ClockStep, PTL DEF Spec

\* The state of every session, of the clock and of the store keeps its type
\* through statements, commits that fail at any step, crashes and restarts.
THEOREM TypeCorrect == Spec => []TypeOK
  <1>1. ClockInv => TypeOK
    BY DEF ClockInv
  <1> QED
    BY <1>1, ClockInvariant, PTL

\* load_last_ids may trust the stored mark: it covers every committed time, and
\* the clock of a running process covers it (commit_tx_with_tt, TtClock::seed).
THEOREM MarkCovers == Spec => []MarkCoversCommits
  <1>1. ClockInv => MarkCoversCommits
    BY DEF ClockInv
  <1> QED
    BY <1>1, ClockInvariant, PTL

LEMMA UpwardStep ==
  ASSUME ClockInv, TypeOK', Next
  PROVE  \A r \in rows' \ rows : \A s \in rows : s.tt < r.tt
  <1>0. TypeOK /\ mark \in Nat /\ \A r \in rows : r.tt \in Nat
    BY TimeFacts DEF ClockInv
  <1>1. \A r \in rows : r.tt <= mark
    BY DEF ClockInv, MarkCoversCommits
  <1>2. ASSUME NEW t \in Txs, TtCommit(t)
        PROVE  \A r \in rows' \ rows : \A s \in rows : s.tt < r.tt
    <2>1. rows' = (rows \ tx[t].dels) \cup tx[t].puts /\ tx[t].phase \in Allocated
      BY <1>2 DEF TtCommit, Apply, Allocated
    <2>2. mark < tx[t].tt /\ tx[t].tt \in Nat /\ \A p \in tx[t].puts : p.tt = tx[t].tt
      BY <1>0, <2>1, TimeFacts, Zenon, SMTT(20) DEF ClockInv, Timed
    <2> QED
      BY <1>0, <1>1, <2>1, <2>2, SMTT(20), Z3T(20)
  <1>3. ASSUME NEW t \in Txs, CommitPlain(t) PROVE rows' \subseteq rows
    BY <1>3 DEF CommitPlain, Apply, ClockInv, Timed
  <1>4. ASSUME NEW t \in Txs, Begin(t) \/ Statement(t) \/ TtEnter(t) \/ Abort(t) \/ TtLeave(t)
        PROVE  rows' = rows
    BY <1>4, Zenon DEF Begin, Statement, Put, Insert, Rm, RmAt, Update, Reconcile, Write, HistoryGc,
         Evict, TtEnter, Abort, TtLeave, store
  <1>5. ASSUME NEW t \in Txs,
               (\E now \in Wall : TtAdvance(t, now)) \/ TtStamp(t) \/ TtPutMark(t)
        PROVE  rows' = rows
    BY <1>5 DEF TtAdvance, TtStamp, TtPutMark, store
  <1>6. ASSUME Crash \/ (\E now \in Wall : Open(now)) PROVE rows' = rows
    BY <1>6 DEF Crash, Open, store
  <1> QED
    BY <1>2, <1>3, <1>4, <1>5, <1>6 DEF Next, TtStep

\* tt order is commit order is visibility order: a commit adds records only
\* above everything committed before it, so a read at a time already seen is
\* stable (commit_tx_with_tt under tt_commit_lock).
THEOREM GrowsUpward == Spec => HistoryGrowsUpward
  <1>1. ClockInv /\ [Next]_vars => [\A r \in rows' \ rows : \A s \in rows : s.tt < r.tt]_vars
    <2> SUFFICES ASSUME ClockInv, Next
                 PROVE  \A r \in rows' \ rows : \A s \in rows : s.tt < r.tt
      OBVIOUS
    <2>1. TypeOK'
      BY TypeStep DEF ClockInv
    <2> QED
      BY <2>1, UpwardStep
  <1> QED
    BY <1>1, ClockInvariant, PTL DEF Spec, HistoryGrowsUpward

-----------------------------------------------------------------------------
(* No committed time is used twice. *)

\* A time drawn by ::evict is nobody else's.
AuditTimesApart ==
  \A t \in Txs : \A a \in tx[t].audits :
    /\ \A r \in rows : r.tt # a.tt
    /\ \A u \in Txs : tx[u].phase \in Allocated => tx[u].tt # a.tt

PendingApart(P) == \A p, q \in P : SameGroup(p, q) /\ p.assert = q.assert => p = q

\* Buffered and stamped rows have distinct keys.
BufferedApart ==
  \A t \in Txs :
    /\ PendingApart(tx[t].pending)
    /\ \A p, q \in tx[t].puts : SameGroup(p, q) => p = q

UniqueInv == ClockInv /\ TimesAreUnique /\ AuditTimesApart /\ BufferedApart

\* Of the stored records that no other supersedes, a group has one.
LEMMA OneLatest ==
  ASSUME TypeOK, TimesAreUnique, NEW r \in rows, NEW s \in rows,
         SameGroup(r, s), r.assert, s.assert, ~Supersedes(r, s), ~Supersedes(s, r)
  PROVE  r = s
  <1>1. r.tt \in Nat /\ s.tt \in Nat
    BY TimeFacts
  <1>2. r.tt = s.tt
    BY <1>1, SMTT(20), Z3T(20) DEF Supersedes, SameGroup
  <1> QED
    BY <1>2 DEF TimesAreUnique

LEMMA OneBelief ==
  ASSUME TypeOK, TimesAreUnique, NEW R \in SUBSET rows, NEW k, NEW v, NEW n,
         NEW r \in Belief(R, k, v, n), NEW s \in Belief(R, k, v, n)
  PROVE  r = s
  <1>1. /\ r \in R /\ r.assert /\ Decides(R, r, k, v, n)
        /\ s \in R /\ s.assert /\ Decides(R, s, k, v, n)
    BY DEF Belief
  <1>2. /\ r.key = k /\ s.key = k /\ s.vt <= r.vt /\ r.vt <= s.vt
        /\ ~Supersedes(r, s) /\ ~Supersedes(s, r)
    BY <1>1 DEF Decides
  <1>3. r.vt \in Nat /\ s.vt \in Nat
    <2>1. VtAxis \subseteq Nat
      BY TxTimeAssumption, SMTT(20), Z3T(20) DEF VtAxis
    <2>2. r \in Record /\ s \in Record
      BY <1>1 DEF TypeOK
    <2>3. r.vt \in VtAxis /\ s.vt \in VtAxis
      BY <2>2 DEF Record
    <2> QED
      BY <2>1, <2>3, Zenon
  <1>4. SameGroup(r, s)
    BY <1>2, <1>3, SMTT(20), Z3T(20) DEF SameGroup
  <1> QED
    BY <1>1, <1>2, <1>4, OneLatest

LEMMA BufferApart ==
  ASSUME NEW P, PendingApart(P), NEW row
  PROVE  PendingApart(Buffer(P, row))
  BY DEF PendingApart, Buffer, SameGroup

LEMMA RevisionApart ==
  ASSUME TypeOK, TimesAreUnique, NEW t \in Txs, NEW desired \in SUBSET Declared,
         \A d, e \in desired : SameGroup(d, e) => d = e
  PROVE  PendingApart(Revision(View(t), desired))
  <1> DEFINE A == {[key |-> d.key, vt |-> d.vt, assert |-> TRUE, val |-> d.val,
                    src |-> NoSource, insert |-> FALSE] :
                     d \in {e \in desired : \A r \in Current(View(t)) :
                                              ~(SameGroup(r, e) /\ r.val = e.val)}}
             B == {[key |-> r.key, vt |-> r.vt, assert |-> FALSE, val |-> r.val,
                    src |-> r.tt, insert |-> FALSE] :
                     r \in {c \in Current(View(t)) : \A d \in desired : ~SameGroup(c, d)}}
  <1>1. Revision(View(t), desired) = A \cup B
    BY Zenon, SMTT(20) DEF Revision
  <1>2. ASSUME NEW p \in A PROVE p.assert /\ \E d \in desired :
          p = [key |-> d.key, vt |-> d.vt, assert |-> TRUE, val |-> d.val,
               src |-> NoSource, insert |-> FALSE]
    BY SMTT(20), Z3T(20)
  <1>3. ASSUME NEW p \in B PROVE ~p.assert /\ \E r \in Current(View(t)) :
          p = [key |-> r.key, vt |-> r.vt, assert |-> FALSE, val |-> r.val,
               src |-> r.tt, insert |-> FALSE]
    BY SMTT(20), Z3T(20)
  <1> HIDE DEF A, B
  <1>4. ASSUME NEW p \in A, NEW q \in A, SameGroup(p, q) PROVE p = q
    <2>1. PICK d \in desired : p = [key |-> d.key, vt |-> d.vt, assert |-> TRUE, val |-> d.val,
               src |-> NoSource, insert |-> FALSE]
      BY <1>2
    <2>2. PICK e \in desired : q = [key |-> e.key, vt |-> e.vt, assert |-> TRUE, val |-> e.val,
               src |-> NoSource, insert |-> FALSE]
      BY <1>2
    <2>3. SameGroup(d, e)
      BY <1>4, <2>1, <2>2, Zenon DEF SameGroup
    <2> QED
      BY <2>1, <2>2, <2>3, Zenon
  <1>5. ASSUME NEW p \in B, NEW q \in B, SameGroup(p, q) PROVE p = q
    <2>1. PICK r \in Current(View(t)) :
            p = [key |-> r.key, vt |-> r.vt, assert |-> FALSE, val |-> r.val,
                 src |-> r.tt, insert |-> FALSE]
      BY <1>3
    <2>2. PICK s \in Current(View(t)) :
            q = [key |-> s.key, vt |-> s.vt, assert |-> FALSE, val |-> s.val,
                 src |-> s.tt, insert |-> FALSE]
      BY <1>3
    <2>3. SameGroup(r, s)
      BY <1>5, <2>1, <2>2 DEF SameGroup
    <2>4. /\ r \in rows /\ s \in rows /\ r.assert /\ s.assert
          /\ ~Supersedes(r, s) /\ ~Supersedes(s, r)
      BY DEF Current, View
    <2>5. r = s
      BY <2>3, <2>4, OneLatest, Zenon, SMTT(20)
    <2> QED
      BY <2>1, <2>2, <2>5
  <1> QED
    BY <1>1, <1>2, <1>3, <1>4, <1>5, Zenon DEF PendingApart

LEMMA RmAtApart ==
  ASSUME TypeOK, TimesAreUnique, NEW t \in Txs, NEW k \in Keys, NEW vs \in SUBSET VtAxis,
         NEW P, PendingApart(P), \A p \in P : p.key # k
  PROVE  PendingApart(P \cup UNION
           {{[key |-> k, vt |-> v, assert |-> FALSE, val |-> r.val,
              src |-> r.tt, insert |-> FALSE] : r \in Belief(View(t), k, v, MaxTt)} : v \in vs})
  <1> DEFINE U == UNION
           {{[key |-> k, vt |-> v, assert |-> FALSE, val |-> r.val,
              src |-> r.tt, insert |-> FALSE] : r \in Belief(View(t), k, v, MaxTt)} : v \in vs}
  <1>1. ASSUME NEW p \in U
        PROVE  p.key = k /\ \E v \in vs : \E r \in Belief(View(t), k, v, MaxTt) :
                 p = [key |-> k, vt |-> v, assert |-> FALSE, val |-> r.val,
                      src |-> r.tt, insert |-> FALSE]
    BY SMTT(30), Z3T(30)
  <1> HIDE DEF U
  <1>2. ASSUME NEW p \in U, NEW q \in U, SameGroup(p, q) PROVE p = q
    <2>1. PICK v \in vs : \E r \in Belief(View(t), k, v, MaxTt) :
            p = [key |-> k, vt |-> v, assert |-> FALSE, val |-> r.val,
                 src |-> r.tt, insert |-> FALSE]
      BY <1>1
    <2>2. PICK r \in Belief(View(t), k, v, MaxTt) :
            p = [key |-> k, vt |-> v, assert |-> FALSE, val |-> r.val,
                 src |-> r.tt, insert |-> FALSE]
      BY <2>1, Zenon
    <2>3. PICK w \in vs : \E s \in Belief(View(t), k, w, MaxTt) :
            q = [key |-> k, vt |-> w, assert |-> FALSE, val |-> s.val,
                 src |-> s.tt, insert |-> FALSE]
      BY <1>1
    <2>4. PICK s \in Belief(View(t), k, w, MaxTt) :
            q = [key |-> k, vt |-> w, assert |-> FALSE, val |-> s.val,
                 src |-> s.tt, insert |-> FALSE]
      BY <2>3, Zenon
    <2>5. v = w
      BY <1>2, <2>2, <2>4, Zenon DEF SameGroup
    <2>6. View(t) \subseteq rows
      BY DEF View
    <2>7. r = s
      BY <2>5, <2>6, OneBelief
    <2> QED
      BY <2>2, <2>4, <2>5, <2>7
  <1>3. PendingApart(P \cup U)
    BY <1>1, <1>2 DEF PendingApart, SameGroup
  <1> QED
    BY <1>3 DEF U

LEMMA WriteApart ==
  ASSUME TypeOK, NEW t \in Txs, NEW row, PendingApart(tx[t].pending), Write(t, row)
  PROVE  PendingApart(tx'[t].pending)
  <1> DEFINE b == Buffer(tx[t].pending, row)
  <1>1. tx' = [tx EXCEPT ![t].pending = b] /\ tx \in [Txs -> TxType] /\ PendingApart(b)
    BY BufferApart DEF Write, TypeOK
  <1> HIDE DEF b
  <1>2. tx'[t].pending = b
    BY <1>1 DEF TxType
  <1> QED
    BY <1>1, <1>2

LEMMA StatementApart ==
  ASSUME TypeOK, TimesAreUnique, NEW t \in Txs, Statement(t), PendingApart(tx[t].pending)
  PROVE  PendingApart(tx'[t].pending)
  <1>0. tx \in [Txs -> TxType]
    BY DEF TypeOK
  <1>1. ASSUME NEW k \in Keys, NEW v \in VtAxis, NEW a \in BOOLEAN, NEW x \in Vals,
               Put(t, k, v, a, x) \/ Insert(t, k, v, a, x)
        PROVE  PendingApart(tx'[t].pending)
    BY <1>1, WriteApart, Zenon, SMTT(20) DEF Put, Insert
  <1>2. ASSUME NEW k \in Keys, Rm(t, k) PROVE PendingApart(tx'[t].pending)
    BY <1>2, WriteApart DEF Rm
  <1>3. ASSUME NEW k \in Keys, NEW now \in VtAxis, NEW x \in Vals, Update(t, k, now, x)
        PROVE  PendingApart(tx'[t].pending)
    BY <1>3, WriteApart, Zenon DEF Update
  <1>4. ASSUME NEW k \in Keys, NEW vs \in SUBSET VtAxis, RmAt(t, k, vs)
        PROVE  PendingApart(tx'[t].pending)
    <2> DEFINE b == tx[t].pending \cup UNION
              {{[key |-> k, vt |-> v, assert |-> FALSE, val |-> r.val,
                 src |-> r.tt, insert |-> FALSE] : r \in Belief(View(t), k, v, MaxTt)} :
                 v \in vs}
    <2>1. tx' = [tx EXCEPT ![t].pending = b]
      BY <1>0, <1>4 DEF RmAt
    <2>2. PendingApart(b)
      BY <1>4, RmAtApart DEF RmAt, PendingConflict
    <2> HIDE DEF b
    <2>3. tx'[t].pending = b
      BY <1>0, <2>1 DEF TxType
    <2> QED
      BY <2>2, <2>3
  <1>5. ASSUME NEW desired \in SUBSET Declared, Reconcile(t, desired)
        PROVE  PendingApart(tx'[t].pending)
    <2> DEFINE b == Revision(View(t), desired)
    <2>1. tx' = [tx EXCEPT ![t].pending = b, ![t].reconciled = TRUE, ![t].declared = desired]
      BY <1>5 DEF Reconcile
    <2>2. PendingApart(b)
      BY <1>5, RevisionApart DEF Reconcile
    <2> HIDE DEF b
    <2>3. tx'[t].pending = b
      BY <1>0, <2>1 DEF TxType
    <2> QED
      BY <2>2, <2>3
  <1>6. ASSUME NEW cutoff \in Times, NEW now \in Wall, HistoryGc(t, cutoff, now)
        PROVE  PendingApart(tx'[t].pending)
    BY <1>6, GcEffect, Zenon
  <1>7. ASSUME NEW ks \in SUBSET Keys, NEW now \in Wall, Evict(t, ks, now)
        PROVE  PendingApart(tx'[t].pending)
    BY <1>7, EvictEffect, Zenon
  <1> QED
    BY <1>1, <1>2, <1>3, <1>4, <1>5, <1>6, <1>7, Zenon DEF Statement

\* A step of t alone, the store untouched: its own part of the invariant is
\* enough.
LEMMA LocalKeepsUnique ==
  ASSUME UniqueInv, TypeOK', NEW t \in Txs, Local(t),
         PendingApart(tx'[t].pending),
         \A p, q \in tx'[t].puts : SameGroup(p, q) => p = q,
         \A a \in tx'[t].audits :
           /\ \A r \in rows : r.tt # a.tt
           /\ \A u \in Txs : tx'[u].phase \in Allocated => tx'[u].tt # a.tt,
         \A u \in Txs \ {t} : \A a \in tx[u].audits :
           tx'[t].phase \in Allocated => tx'[t].tt # a.tt
  PROVE  TimesAreUnique' /\ AuditTimesApart' /\ BufferedApart'
  <1>1. /\ rows' = rows /\ audit' = audit
        /\ \A u \in Txs \ {t} : tx'[u] = tx[u]
    BY DEF Local
  <1>2. TimesAreUnique'
    BY <1>1, Zenon DEF UniqueInv, TimesAreUnique
  <1>3. BufferedApart'
    BY <1>1 DEF UniqueInv, BufferedApart, PendingApart
  <1>4. ASSUME NEW w \in Txs, NEW a \in tx'[w].audits
        PROVE  /\ \A r \in rows' : r.tt # a.tt
               /\ \A u \in Txs : tx'[u].phase \in Allocated => tx'[u].tt # a.tt
    <2>1. CASE w = t
      BY <1>1, <2>1, Zenon
    <2>2. CASE w # t
      BY <1>1, <2>2, Zenon, SMTT(20) DEF UniqueInv, AuditTimesApart
    <2> QED
      BY <2>1, <2>2, Zenon
  <1>5. AuditTimesApart'
    BY <1>4, Zenon DEF AuditTimesApart
  <1> QED
    BY <1>2, <1>3, <1>5

LEMMA StatementUnique ==
  ASSUME UniqueInv, TypeOK', NEW t \in Txs, Statement(t)
  PROVE  TimesAreUnique' /\ AuditTimesApart' /\ BufferedApart'
  <1>0. TypeOK /\ TimesAreUnique /\ PendingApart(tx[t].pending) /\ ClockInv
    BY DEF UniqueInv, ClockInv, BufferedApart, PendingApart
  <1>1. PendingApart(tx'[t].pending)
    BY <1>0, StatementApart
  <1>2. /\ \A p, q \in tx[t].puts : SameGroup(p, q) => p = q
        /\ \A a \in tx[t].audits :
             /\ \A r \in rows : r.tt # a.tt
             /\ \A u \in Txs : tx[u].phase \in Allocated => tx[u].tt # a.tt
    BY DEF UniqueInv, BufferedApart, AuditTimesApart
  <1>3. "open" \notin Allocated
    BY DEF Allocated
  <1>4. ASSUME Local(t), tx'[t].phase = "open", tx'[t].puts = tx[t].puts,
               tx'[t].audits = tx[t].audits
        PROVE  TimesAreUnique' /\ AuditTimesApart' /\ BufferedApart'
    <2>1. \A u \in Txs : tx'[u].phase \in Allocated => u # t /\ tx'[u] = tx[u]
      BY <1>3, <1>4 DEF Local
    <2>2. \A a \in tx'[t].audits :
           /\ \A r \in rows : r.tt # a.tt
           /\ \A u \in Txs : tx'[u].phase \in Allocated => tx'[u].tt # a.tt
      BY <1>2, <1>4, <2>1, Zenon, SMTT(20)
    <2> QED
      BY <1>1, <1>2, <1>3, <1>4, <2>2, LocalKeepsUnique, Zenon
  <1>5. ASSUME NEW ks \in SUBSET Keys, NEW now \in Wall, Evict(t, ks, now)
        PROVE  TimesAreUnique' /\ AuditTimesApart' /\ BufferedApart'
    <2>1. /\ Local(t) /\ hwm' > hwm /\ tx[t].phase = "open" /\ tx'[t].phase = "open"
          /\ tx'[t].puts = tx[t].puts
          /\ tx'[t].audits = tx[t].audits \cup [key: ks, tt: {hwm'}]
      BY <1>0, <1>5, EvictEffect, Zenon
    <2>2. /\ hwm \in Nat /\ hwm' \in Nat /\ mark \in Nat
          /\ \A r \in rows : r.tt \in Nat
          /\ \A u \in Txs : tx[u].tt \in Nat
      BY <1>0, TimeFacts, TimeFactsNext, Zenon
    <2>3. /\ \A r \in rows : r.tt <= mark
          /\ mark <= hwm
          /\ \A u \in Txs : tx[u].phase \in Allocated => tx[u].tt <= hwm
      BY <1>0, <2>1, Zenon DEF ClockInv, MarkCoversCommits, Timed, OneInSection
    <2>4. \A u \in Txs : tx'[u].phase \in Allocated => u # t /\ tx'[u] = tx[u]
      BY <1>3, <2>1, Zenon, SMTT(20) DEF Local
    <2>5. /\ \A r \in rows : r.tt # hwm'
          /\ \A u \in Txs : tx[u].phase \in Allocated => tx[u].tt # hwm'
      BY <2>1, <2>2, <2>3, SMTT(30), Z3T(30)
    <2>6. \A a \in tx'[t].audits : a \in tx[t].audits \/ a.tt = hwm'
      BY <2>1, Zenon
    <2>7. \A a \in tx'[t].audits :
           /\ \A r \in rows : r.tt # a.tt
           /\ \A u \in Txs : tx'[u].phase \in Allocated => tx'[u].tt # a.tt
      BY <1>2, <2>4, <2>5, <2>6, Zenon
    <2> QED
      BY <1>1, <1>2, <1>3, <2>1, <2>7, LocalKeepsUnique, Zenon, SMTT(20)
  <1>6. CASE Buffers(t)
    BY <1>0, <1>4, <1>6, BuffersEffect, Zenon
  <1>7. ASSUME NEW cutoff \in Times, NEW now \in Wall, HistoryGc(t, cutoff, now)
        PROVE  TimesAreUnique' /\ AuditTimesApart' /\ BufferedApart'
    BY <1>0, <1>4, <1>7, GcEffect, Zenon
  <1> QED
    BY <1>0, <1>5, <1>6, <1>7, StatementSplit, Zenon, SMTT(20)

LEMMA SectionUnique ==
  ASSUME UniqueInv, TypeOK', NEW t \in Txs,
         TtEnter(t) \/ (\E now \in Wall : TtAdvance(t, now)) \/ TtStamp(t) \/ TtPutMark(t)
  PROVE  TimesAreUnique' /\ AuditTimesApart' /\ BufferedApart'
  <1>0. TypeOK /\ TimesAreUnique /\ PendingApart(tx[t].pending) /\ ClockInv
    BY Zenon DEF UniqueInv, ClockInv, BufferedApart, PendingApart
  <1>1. \A p, q \in tx[t].puts : SameGroup(p, q) => p = q
    BY DEF UniqueInv, BufferedApart
  <1>2. \A w \in Txs : \A a \in tx[w].audits :
             /\ \A r \in rows : r.tt # a.tt
             /\ \A u \in Txs : tx[u].phase \in Allocated => tx[u].tt # a.tt
    BY Zenon, SMTT(20) DEF UniqueInv, AuditTimesApart
  <1>3. ASSUME Local(t), Keeps(t), \A p, q \in tx'[t].puts : SameGroup(p, q) => p = q,
               \A w \in Txs : \A a \in tx[w].audits :
                  tx'[t].phase \in Allocated => tx'[t].tt # a.tt
        PROVE  TimesAreUnique' /\ AuditTimesApart' /\ BufferedApart'
    <2>1. /\ \A u \in Txs \ {t} : tx'[u] = tx[u]
          /\ tx'[t].audits = tx[t].audits /\ tx'[t].pending = tx[t].pending
      BY <1>3, Zenon DEF Local, Keeps
    <2>2. ASSUME NEW a \in tx'[t].audits
          PROVE  /\ \A r \in rows : r.tt # a.tt
                 /\ \A u \in Txs : tx'[u].phase \in Allocated => tx'[u].tt # a.tt
      BY <1>2, <1>3, <2>1, <2>2, Zenon
    <2> QED
      BY <1>0, <1>3, <2>1, <2>2, LocalKeepsUnique, Zenon, SMTT(20)
  <1>4. CASE TtEnter(t)
    <2>1. Local(t) /\ Keeps(t) /\ tx'[t].phase = "locked" /\ tx'[t].puts = tx[t].puts
      BY <1>0, <1>4, SectionEffect, Zenon
    <2> QED
      BY <1>1, <1>3, <2>1, Zenon DEF Allocated
  <1>5. ASSUME NEW now \in Wall, TtAdvance(t, now)
        PROVE  TimesAreUnique' /\ AuditTimesApart' /\ BufferedApart'
    <2>1. Local(t) /\ Keeps(t) /\ tx'[t].puts = tx[t].puts /\ hwm' > hwm /\ tx'[t].tt = hwm'
      BY <1>0, <1>5, SectionEffect, Zenon, SMTT(20)
    <2>2. /\ hwm \in Nat /\ hwm' \in Nat
          /\ \A w \in Txs : \A a \in tx[w].audits : a.tt \in Nat
      BY <1>0, TimeFacts, TimeFactsNext
    <2>3. \A w \in Txs : \A a \in tx[w].audits : a.tt <= hwm
      BY <1>0, Zenon, SMTT(20) DEF ClockInv, Timed
    <2>4. \A w \in Txs : \A a \in tx[w].audits : tx'[t].tt # a.tt
      BY <2>1, <2>2, <2>3, SMTT(30), Z3T(30)
    <2> QED
      BY <1>1, <1>3, <2>1, <2>4, Zenon
  <1>6. CASE TtStamp(t)
    <2>1. /\ Local(t) /\ Keeps(t) /\ tx[t].phase = "allocated" /\ tx'[t].tt = tx[t].tt
          /\ tx'[t].puts = {[key |-> p.key, vt |-> p.vt, tt |-> tx[t].tt, assert |-> p.assert,
                             val |-> p.val] : p \in tx[t].pending}
          /\ ~AssertsAndRetracts(tx[t].pending)
      BY <1>0, <1>6, StampEffect, Zenon
    <2>2. ASSUME NEW x \in tx'[t].puts, NEW y \in tx'[t].puts, SameGroup(x, y)
          PROVE  x = y
      <3>1. PICK p \in tx[t].pending :
              x = [key |-> p.key, vt |-> p.vt, tt |-> tx[t].tt, assert |-> p.assert, val |-> p.val]
        BY <2>1, Zenon
      <3>2. PICK q \in tx[t].pending :
              y = [key |-> q.key, vt |-> q.vt, tt |-> tx[t].tt, assert |-> q.assert, val |-> q.val]
        BY <2>1, Zenon
      <3>3. SameGroup(p, q)
        BY <2>2, <3>1, <3>2, Zenon DEF SameGroup
      <3>4. p = q
        BY <1>0, <2>1, <3>3, Zenon DEF PendingApart, AssertsAndRetracts
      <3> QED
        BY <3>1, <3>2, <3>4, Zenon
    <2>3. "allocated" \in Allocated
      BY DEF Allocated
    <2> QED
      BY <1>2, <1>3, <2>1, <2>2, <2>3, Zenon
  <1>7. CASE TtPutMark(t)
    <2>1. /\ Local(t) /\ Keeps(t) /\ tx'[t].puts = tx[t].puts /\ tx[t].phase = "stamped"
          /\ tx'[t].tt = tx[t].tt
      BY <1>0, <1>7, SectionEffect, Zenon
    <2>2. "stamped" \in Allocated
      BY DEF Allocated
    <2> QED
      BY <1>1, <1>2, <1>3, <2>1, <2>2, Zenon
  <1> QED
    BY <1>4, <1>5, <1>6, <1>7

LEMMA EndUnique ==
  ASSUME UniqueInv, TypeOK', NEW t \in Txs, Begin(t) \/ TtLeave(t) \/ Abort(t)
  PROVE  TimesAreUnique' /\ AuditTimesApart' /\ BufferedApart'
  <1>0. TypeOK
    BY Zenon DEF UniqueInv, ClockInv
  <1>1. /\ Local(t) /\ tx'[t].phase \in {"idle", "open"} /\ tx'[t].puts = {}
        /\ tx'[t].audits = {} /\ tx'[t].pending = {}
    <2>1. CASE Begin(t)
      BY <1>0, <2>1, BeginEffect, Zenon
    <2>2. CASE TtLeave(t) \/ Abort(t)
      <3>1. Release(t) /\ UNCHANGED <<store, history, running>>
        BY <2>2 DEF TtLeave, Abort
      <3> QED
        BY <1>0, <3>1, ReleaseEffect, IdleType, Zenon, SMTT(20) DEF Local, store, history
    <2> QED
      BY <2>1, <2>2
  <1>2. "idle" \notin Allocated /\ "open" \notin Allocated
    BY DEF Allocated
  <1>3. PendingApart({})
    BY DEF PendingApart
  <1> QED
    BY <1>1, <1>2, <1>3, LocalKeepsUnique, Zenon

LEMMA CommitUnique ==
  ASSUME UniqueInv, TypeOK', NEW t \in Txs, TtCommit(t) \/ CommitPlain(t)
  PROVE  TimesAreUnique' /\ AuditTimesApart' /\ BufferedApart'
  <1>0. TypeOK /\ ClockInv /\ TimesAreUnique
    BY DEF UniqueInv, ClockInv
  <1>1. \A w \in Txs : \A a \in tx[w].audits :
             /\ \A r \in rows : r.tt # a.tt
             /\ \A u \in Txs : tx[u].phase \in Allocated => tx[u].tt # a.tt
    BY DEF UniqueInv, AuditTimesApart
  <1>2. CASE TtCommit(t)
    <2>1. /\ rows' = (rows \ tx[t].dels) \cup tx[t].puts /\ audit' = audit \cup tx[t].audits
          /\ tx'[t].audits = tx[t].audits /\ tx'[t].pending = tx[t].pending
          /\ tx[t].phase = "marked" /\ tx'[t].phase = "committed" /\ tx'[t].puts = tx[t].puts
          /\ \A u \in Txs \ {t} : tx'[u] = tx[u]
      BY <1>0, <1>2, SectionEffect, Zenon DEF Keeps, Apply
    <2>2. "marked" \in Allocated /\ "committed" \notin Allocated
      BY DEF Allocated
    <2>3. /\ mark \in Nat /\ tx[t].tt \in Nat
          /\ \A r \in rows : r.tt \in Nat
          /\ \A a \in audit \cup tx[t].audits : a.tt \in Nat
      BY <1>0, TimeFacts
    <2>4. /\ mark < tx[t].tt
          /\ \A r \in rows : r.tt <= mark
          /\ \A a \in audit : a.tt <= mark
          /\ \A p \in tx[t].puts : p.tt = tx[t].tt
      BY <1>0, <2>1, <2>2, Zenon DEF ClockInv, MarkCoversCommits, Timed
    <2>5. /\ \A r \in rows : r.tt # tx[t].tt
          /\ \A a \in audit : a.tt # tx[t].tt
          /\ \A w \in Txs : \A a \in tx[w].audits : a.tt # tx[t].tt
      BY <1>1, <2>1, <2>2, <2>3, <2>4, SMTT(40), Z3T(40)
    <2>6. \A r \in rows', a \in audit' : r.tt # a.tt
      <3>1. SUFFICES ASSUME NEW r \in rows', NEW a \in audit'
                     PROVE  r.tt # a.tt
        OBVIOUS
      <3>2. r \in rows \/ r \in tx[t].puts
        BY <2>1, <3>1, Zenon
      <3>3. a \in audit \/ a \in tx[t].audits
        BY <2>1, <3>1, Zenon
      <3>4. CASE r \in rows
        BY <1>0, <1>1, <3>3, <3>4, Zenon DEF TimesAreUnique
      <3>5. CASE r \in tx[t].puts
        <4>1. r.tt = tx[t].tt
          BY <2>4, <3>5, Zenon
        <4>2. a.tt # tx[t].tt
          BY <2>5, <3>3, Zenon
        <4> QED
          BY <4>1, <4>2, Zenon
      <3> QED
        BY <3>2, <3>4, <3>5, Zenon
    <2>7. \A p, q \in tx[t].puts : SameGroup(p, q) => p = q
      BY Zenon, SMTT(20) DEF UniqueInv, BufferedApart
    <2>8. \A r, s \in rows' : r.tt = s.tt /\ SameGroup(r, s) => r = s
      BY <1>0, <2>1, <2>4, <2>5, <2>7, Zenon DEF TimesAreUnique
    <2>9. TimesAreUnique'
      BY <2>6, <2>8, Zenon DEF TimesAreUnique
    <2>10. \A w \in Txs : tx'[w].audits = tx[w].audits /\ tx'[w].pending = tx[w].pending
                          /\ tx'[w].puts = tx[w].puts
      BY <2>1, Zenon
    <2>11. BufferedApart'
      BY <2>10 DEF UniqueInv, BufferedApart
    <2>12. \A u \in Txs : tx'[u].phase \in Allocated => u # t /\ tx'[u] = tx[u]
      BY <2>1, <2>2
    <2>13. ASSUME NEW w \in Txs, NEW a \in tx'[w].audits
           PROVE  /\ \A r \in rows' : r.tt # a.tt
                  /\ \A u \in Txs : tx'[u].phase \in Allocated => tx'[u].tt # a.tt
      <3>1. a \in tx[w].audits
        BY <2>10, <2>13, Zenon
      <3>2. ASSUME NEW r \in rows'
            PROVE  r.tt # a.tt
        <4>1. CASE r \in rows
          BY <1>1, <3>1, <4>1, Zenon
        <4>2. CASE r \in tx[t].puts
          <5>1. r.tt = tx[t].tt
            BY <2>4, <4>2, Zenon
          <5>2. a.tt # tx[t].tt
            BY <2>5, <3>1, Zenon
          <5> QED
            BY <5>1, <5>2, Zenon
        <4> QED
          BY <2>1, <3>2, <4>1, <4>2, Zenon
      <3>3. ASSUME NEW u \in Txs, tx'[u].phase \in Allocated
            PROVE  tx'[u].tt # a.tt
        <4>1. tx'[u] = tx[u]
          BY <2>12, <3>3, Zenon
        <4> QED
          BY <1>1, <3>1, <3>3, <4>1, Zenon
      <3> QED
        BY <3>2, <3>3, Zenon
    <2>14. AuditTimesApart'
      BY <2>13, Zenon DEF AuditTimesApart
    <2> QED
      BY <2>9, <2>11, <2>14
  <1>3. CASE CommitPlain(t)
    <2>1. /\ tx[t].phase = "open" /\ ~tx[t].dirty /\ Apply(t) /\ Release(t)
      BY <1>3, Zenon DEF CommitPlain
    <2>2. tx[t].puts = {} /\ tx[t].audits = {}
      BY <1>0, <2>1 DEF ClockInv, Timed
    <2>3. rows' \subseteq rows /\ audit' = audit
      BY <2>1, <2>2, Zenon, SMTT(20) DEF Apply
    <2>4. tx'[t] = IdleTx /\ \A u \in Txs \ {t} : tx'[u] = tx[u]
      BY <1>0, <2>1, ReleaseEffect
    <2>5. "idle" \notin Allocated
      BY Zenon, SMTT(20) DEF Allocated
    <2>6. TimesAreUnique'
      BY <1>0, <2>3 DEF TimesAreUnique
    <2>7. BufferedApart'
      BY <2>4, IdleType, Zenon DEF UniqueInv, BufferedApart, PendingApart
    <2>8. ASSUME NEW w \in Txs, NEW a \in tx'[w].audits
          PROVE  /\ \A r \in rows' : r.tt # a.tt
                 /\ \A u \in Txs : tx'[u].phase \in Allocated => tx'[u].tt # a.tt
      BY <1>1, <2>3, <2>4, <2>5, <2>8, IdleType
    <2>9. AuditTimesApart'
      BY <2>8 DEF AuditTimesApart
    <2> QED
      BY <2>6, <2>7, <2>9
  <1> QED
    BY <1>2, <1>3

LEMMA UniqueStep == UniqueInv /\ [Next]_vars => UniqueInv'
  <1> SUFFICES ASSUME UniqueInv, [Next]_vars
               PROVE  ClockInv' /\ TimesAreUnique' /\ AuditTimesApart' /\ BufferedApart'
    BY Zenon, SMTT(20) DEF UniqueInv
  <1>0. ClockInv' /\ TypeOK' /\ TypeOK
    BY ClockStep DEF UniqueInv, ClockInv
  <1>1. CASE Crash
    <2>1. UNCHANGED <<rows, audit>> /\ \A t \in Txs : tx'[t] = IdleTx
      BY <1>1, Zenon DEF Crash, store
    <2> QED
      BY <1>0, <2>1, IdleType, Zenon
         DEF UniqueInv, TimesAreUnique, AuditTimesApart, BufferedApart, PendingApart
  <1>2. CASE (\E now \in Wall : Open(now)) \/ UNCHANGED vars
    <2>1. UNCHANGED <<rows, audit, tx>>
      BY <1>2 DEF Open, store, vars
    <2> QED
      BY <1>0, <2>1 DEF UniqueInv, TimesAreUnique, AuditTimesApart, BufferedApart
  <1> QED
    BY <1>0, <1>1, <1>2, StatementUnique, SectionUnique, CommitUnique, EndUnique
       DEF Next, TtStep

LEMMA UniqueInit == Init => UniqueInv
  BY ClockInit, IdleType DEF Init, UniqueInv, TimesAreUnique, AuditTimesApart, BufferedApart,
                            PendingApart

LEMMA UniqueInvariant == Spec => []UniqueInv
  BY UniqueInit, UniqueStep, PTL DEF Spec

\* No committed time is used twice, although ::evict draws its time outside
\* tt_commit_lock: a record and an eviction never share one, and the records
\* of one time belong to one belief event (commit_tx_with_tt, evict_keys).
THEOREM UniqueTimes == Spec => []TimesAreUnique
  <1>1. UniqueInv => TimesAreUnique
    BY DEF UniqueInv
  <1> QED
    BY <1>1, UniqueInvariant, PTL
=============================================================================
