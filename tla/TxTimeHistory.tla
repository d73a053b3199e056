--------------------------- MODULE TxTimeHistory ----------------------------
(***************************************************************************)
(* The stored history of a TxTime relation.  Reads at or above the          *)
(* collection floor are exact, on every engine whose ::history_gc locks the *)
(* catalog entry it moves the floor of (all but sled).  Where one write     *)
(* transaction runs at a time (sqlite and mem), an insert overwrites        *)
(* nothing, an evicted key stays evicted, and a reconcile leaves exactly    *)
(* what it declared.                                                        *)
(***************************************************************************)
EXTENDS TxTimeClock, WellFoundedInduction

\* Every collected record is covered by a stored one at or below the floor.
Covered ==
  /\ rows \subseteq ledger
  /\ \A r \in ledger \ rows : \E s \in rows : Supersedes(s, r) /\ s.tt <= floor

\* So is every record that x, the transaction of t, is about to delete from R,
\* by one it keeps and its new floor, unless it evicts the key.  Deletions and
\* floor (f) are guarded by the lock on the catalog entry (lock).
Backed(x, t, lock, f, R) ==
  /\ x.dels # {} \/ x.newFloor # NoFloor => lock = t
  /\ x.phase # "committed" =>
       /\ x.newFloor # NoFloor => f <= x.newFloor
       /\ \A r \in x.dels :
            \/ \E a \in x.audits : a.key = r.key
            \/ /\ x.newFloor # NoFloor
               /\ \E s \in R \ x.dels : Supersedes(s, r) /\ s.tt <= x.newFloor

ExactInv ==
  /\ UniqueInv
  /\ Covered
  /\ \A t \in Txs : Backed(tx[t], t, metaLock, floor, rows)

-----------------------------------------------------------------------------

\* The clock is bounded, so a nonempty set of times has a latest one.
LEMMA LatestTime ==
  ASSUME NEW U \in SUBSET Times, U # {}
  PROVE  \E m \in U : \A x \in U : x <= m
  <1> DEFINE Left == {MaxTt - x : x \in U}
  <1>1. MaxTt \in Nat /\ \A x \in U : x \in Nat /\ MaxTt - x \in Nat
    BY TxTimeAssumption, SMTT(20), Z3T(20) DEF Times
  <1>2. PICK n \in Left : \A y \in Left : <<y, n>> \notin OpToRel(<, Nat)
    <2>1. Left \subseteq Nat /\ Left # {}
      BY <1>1
    <2> HIDE DEF Left
    <2> QED
      BY <2>1, NatLessThanWellFounded, WFMin, Zenon
  <1>3. PICK m \in U : n = MaxTt - m
    OBVIOUS
  <1>4. ASSUME NEW x \in U PROVE x <= m
    <2>1. <<MaxTt - x, MaxTt - m>> \notin OpToRel(<, Nat)
      BY <1>2, <1>3, Zenon
    <2>2. \A i, j \in Nat : <<i, j>> \notin OpToRel(<, Nat) => j <= i
      BY DEF OpToRel
    <2>3. MaxTt - m <= MaxTt - x
      BY <1>1, <2>1, <2>2, Zenon
    <2> QED
      BY <1>1, <2>3, SMTT(20), Z3T(20)
  <1> QED
    BY <1>4

LEMMA SupersedesTransitive ==
  ASSUME NEW a \in Record, NEW b \in Record, NEW c \in Record,
         Supersedes(a, b), Supersedes(b, c)
  PROVE  Supersedes(a, c)
  <1>1. a.tt \in Nat /\ b.tt \in Nat /\ c.tt \in Nat
    BY TimesFacts, Zenon DEF Record
  <1> QED
    BY <1>1, SMTT(20), Z3T(20) DEF Supersedes, SameGroup

\* The record a read at the cutoff would pick is never among the collected, and
\* it covers every one of its group that is.
LEMMA Keeper ==
  ASSUME TypeOK, TimesAreUnique, NEW R \in SUBSET rows, NEW cutoff \in Times,
         NEW r \in Superseded(R, cutoff)
  PROVE  \E s \in R \ Superseded(R, cutoff) : Supersedes(s, r) /\ s.tt <= cutoff
  <1>1. R \subseteq Record
    BY DEF TypeOK
  <1>2. PICK c \in R : c.tt <= cutoff /\ Supersedes(c, r)
    BY DEF Superseded, Known
  <1>3. r \in R
    BY DEF Superseded
  <1> DEFINE G == {s \in R : SameGroup(s, r) /\ s.tt <= cutoff}
             U == {s.tt : s \in G}
  <1>4. c \in G /\ U \in SUBSET Times /\ U # {}
    BY <1>1, <1>2 DEF Supersedes, Record
  <1>5. PICK m \in U : \A x \in U : x <= m
    <2> HIDE DEF U
    <2> QED
      BY <1>4, LatestTime
  <1>6. PICK s \in G : s.tt = m
    OBVIOUS
  <1>7. \A x \in G : x.tt <= s.tt
    BY <1>5, <1>6
  <1>8. /\ s \in R /\ s \in Record /\ c \in Record /\ r \in Record /\ SameGroup(s, r)
        /\ s.tt <= cutoff
    BY <1>1, <1>2, <1>3, <1>6
  <1>9. \A x \in R : x.tt \in Nat
    BY <1>1, TimesFacts, Zenon DEF Record
  <1>10. ASSUME NEW x \in Known(R, cutoff), Supersedes(x, s) PROVE FALSE
    <2>1. x \in R /\ x.tt <= cutoff /\ SameGroup(x, r) /\ SameGroup(x, s)
      BY <1>8, <1>10 DEF Known, Supersedes, SameGroup
    <2>2. x.tt <= s.tt
      <3>1. x \in G
        BY <2>1
      <3> QED
        BY <1>7, <3>1
    <2>3. x.tt = s.tt /\ x.assert /\ ~s.assert
      BY <1>8, <1>9, <1>10, <2>1, <2>2, SMTT(20), Z3T(20) DEF Supersedes
    <2>4. x = s
      BY <1>8, <2>1, <2>3 DEF TimesAreUnique
    <2> QED
      BY <2>3, <2>4
  <1>11. s \notin Superseded(R, cutoff)
    BY <1>10 DEF Superseded
  <1>12. Supersedes(s, r)
    <2>1. c.tt <= s.tt
      BY <1>4, <1>7
    <2>2. CASE c.tt = s.tt
      <3>1. SameGroup(c, s)
        BY <1>2, <1>8 DEF Supersedes, SameGroup
      <3>2. c = s
        BY <1>8, <2>2, <3>1 DEF TimesAreUnique
      <3> QED
        BY <1>2, <3>2
    <2>3. CASE c.tt < s.tt
      BY <1>2, <1>3, <1>8, <1>9, <2>3, SMTT(20), Z3T(20) DEF Supersedes
    <2> QED
      BY <1>8, <1>9, <2>1, <2>2, <2>3, SMTT(20), Z3T(20)
  <1> QED
    BY <1>8, <1>11, <1>12

\* A collected record decides no read at or above the floor, and takes no part
\* in one: the record that covers it does.
LEMMA CoveredReads == TypeOK /\ Covered => ReadsAreExact
  <1> SUFFICES ASSUME TypeOK, Covered, NEW k \in Keys, NEW v \in VtAxis, NEW n \in Times,
                      n >= floor
               PROVE  Belief(rows, k, v, n) = Belief(ledger, k, v, n)
    BY DEF ReadsAreExact
  <1>1. /\ rows \subseteq ledger /\ ledger \subseteq Record
        /\ \A r \in ledger \ rows : \E s \in rows : Supersedes(s, r) /\ s.tt <= floor
    BY DEF Covered, TypeOK
  <1>2. n \in Int /\ floor \in Int /\ \A r \in Record : r.tt \in Int
    <2>1. floor \in Times \cup {NoFloor}
      BY DEF TypeOK
    <2>2. \A r \in Record : r.tt \in Times
      BY DEF Record
    <2> QED
      BY <2>1, <2>2, IntTimes
  <1>3. ASSUME NEW r \in ledger \ rows
        PROVE  \E s \in Known(rows, n) : Supersedes(s, r)
    <2>1. PICK s \in rows : Supersedes(s, r) /\ s.tt <= floor
      BY <1>1
    <2>2. s.tt <= n
      BY <1>1, <1>2, <2>1, SMTT(20), Z3T(20)
    <2> QED
      BY <2>1, <2>2 DEF Known
  <1>4. Known(rows, n) \subseteq Known(ledger, n)
    BY <1>1 DEF Known
  <1>5. ASSUME NEW r \in Belief(rows, k, v, n) PROVE r \in Belief(ledger, k, v, n)
    <2>1. r \in rows /\ r.assert /\ Decides(rows, r, k, v, n)
      BY DEF Belief
    <2>2. ASSUME NEW s \in Known(ledger, n), s.key = k, s.vt <= v
          PROVE  s.vt <= r.vt /\ ~Supersedes(s, r)
      <3>1. CASE s \in rows
        BY <2>1, <2>2, <3>1 DEF Decides, Known
      <3>2. CASE s \notin rows
        <4>1. PICK c \in Known(rows, n) : Supersedes(c, s)
          BY <1>3, <2>2, <3>2 DEF Known
        <4>2. c.key = k /\ c.vt = s.vt
          BY <2>2, <4>1 DEF Supersedes, SameGroup
        <4>3. c.vt <= r.vt /\ ~Supersedes(c, r)
          BY <2>1, <2>2, <4>2 DEF Decides
        <4>4. c \in Record /\ s \in Record /\ r \in Record
          BY <1>1, <2>1, <2>2 DEF Known
        <4> QED
          BY <4>1, <4>2, <4>3, <4>4, SupersedesTransitive
      <3> QED
        BY <3>1, <3>2
    <2>3. Decides(ledger, r, k, v, n)
      BY <1>4, <2>1, <2>2 DEF Decides
    <2> QED
      BY <1>1, <2>1, <2>3 DEF Belief
  <1>6. ASSUME NEW r \in Belief(ledger, k, v, n) PROVE r \in Belief(rows, k, v, n)
    <2>1. r \in ledger /\ r.assert /\ Decides(ledger, r, k, v, n)
      BY DEF Belief
    <2>2. r \in rows
      <3>1. SUFFICES ASSUME r \notin rows PROVE FALSE
        OBVIOUS
      <3>2. PICK c \in Known(rows, n) : Supersedes(c, r)
        BY <1>3, <2>1, <3>1
      <3>3. c.key = k /\ c.vt <= v
        BY <2>1, <3>2 DEF Decides, Supersedes, SameGroup
      <3> QED
        BY <1>4, <2>1, <3>2, <3>3 DEF Decides
    <2>3. Decides(rows, r, k, v, n)
      BY <1>4, <2>1, <2>2 DEF Decides, Known
    <2> QED
      BY <2>1, <2>2, <2>3 DEF Belief
  <1> QED
    BY <1>5, <1>6

LEMMA LocalKeepsExact ==
  ASSUME ExactInv, NEW t \in Txs, Local(t),
         \A u \in Txs \ {t} : tx[u].dels # {} \/ tx[u].newFloor # NoFloor => metaLock' = u,
         Backed(tx'[t], t, metaLock', floor, rows)
  PROVE  Covered' /\ \A u \in Txs : Backed(tx'[u], u, metaLock', floor', rows')
  <1>1. /\ rows' = rows /\ floor' = floor /\ ledger' = ledger
        /\ \A u \in Txs \ {t} : tx'[u] = tx[u]
    BY DEF Local
  <1>2. Covered'
    BY <1>1 DEF ExactInv, Covered
  <1>3. ASSUME NEW u \in Txs, u # t PROVE Backed(tx'[u], u, metaLock', floor', rows')
    <2>1. Backed(tx[u], u, metaLock, floor, rows)
      BY DEF ExactInv
    <2> QED
      BY <1>1, <1>3, <2>1 DEF Backed
  <1> QED
    BY <1>1, <1>2, <1>3

\* Whoever got the lock on the catalog entry is the only one deleting.
LEMMA MetaGuards ==
  ASSUME Validates, ExactInv, NEW t \in Txs, LockMeta(t)
  PROVE  /\ metaLock' = t
         /\ \A u \in Txs \ {t} : tx[u].dels = {} /\ tx[u].newFloor = NoFloor
  <1>1. metaLock' = t /\ (metaLock = t \/ metaLock = NoTx)
    BY DEF LockMeta
  <1>2. \A u \in Txs : tx[u].dels # {} \/ tx[u].newFloor # NoFloor => metaLock = u
    BY DEF ExactInv, Backed
  <1> QED
    BY <1>1, <1>2, NoTxFact

LEMMA GcExact ==
  ASSUME Validates, ExactInv, NEW t \in Txs, NEW cutoff \in Times, NEW now \in Wall,
         HistoryGc(t, cutoff, now)
  PROVE  Covered' /\ \A u \in Txs : Backed(tx'[u], u, metaLock', floor', rows')
  <1> DEFINE gone == Superseded(View(t), cutoff)
  <1>0. TypeOK /\ TimesAreUnique /\ Backed(tx[t], t, metaLock, floor, rows)
    BY DEF ExactInv, UniqueInv, ClockInv
  <1>1. /\ Local(t) /\ tx[t].phase = "open" /\ tx'[t].phase = "open"
        /\ tx'[t].audits = tx[t].audits
        /\ tx'[t].dels = tx[t].dels \cup gone
        /\ tx'[t].newFloor = IF gone = {} THEN tx[t].newFloor ELSE Greater(FloorOf(t), cutoff)
        /\ LockMeta(t)
    BY <1>0, GcEffect, Zenon
  <1>2. ASSUME NEW r \in gone
        PROVE  \E s \in View(t) \ gone : Supersedes(s, r) /\ s.tt <= cutoff
    <2>1. View(t) \subseteq rows
      BY DEF View
    <2> QED
      BY <1>0, <1>2, <2>1, Keeper
  <1> HIDE DEF gone
  <1>3. /\ metaLock' = t
        /\ \A u \in Txs \ {t} : tx[u].dels = {} /\ tx[u].newFloor = NoFloor
    BY <1>1, MetaGuards
  <1>4. SUFFICES Backed(tx'[t], t, metaLock', floor, rows)
    BY <1>1, <1>3, LocalKeepsExact
  <1>5. CASE gone = {}
    BY <1>0, <1>1, <1>3, <1>5, Zenon DEF Backed
  <1>6. CASE gone # {}
    <2>1. /\ floor \in Times \cup {NoFloor} /\ tx[t].newFloor \in Times \cup {NoFloor}
          /\ rows \subseteq Record /\ tx[t].dels \subseteq Record
      BY <1>0, FieldTypes DEF TypeOK
    <2>2. /\ floor \in Int /\ tx[t].newFloor \in Int /\ cutoff \in Int
          /\ \A r \in rows : r.tt \in Int
      BY <1>0, <2>1, IntTimes, TimeFacts, SMTT(20), Z3T(20)
    <2>3. FloorOf(t) \in Times \cup {NoFloor}
      BY <2>1 DEF FloorOf
    <2>4. PICK f : f = tx'[t].newFloor /\ f \in Times /\ f >= FloorOf(t) /\ f >= cutoff
      BY <1>1, <1>6, <2>3, GreaterType
    <2>5. f \in Int /\ f # NoFloor
      BY <2>4, IntTimes
    <2>6. tx[t].newFloor # NoFloor => floor <= tx[t].newFloor
      BY <1>0, <1>1 DEF Backed
    <2>7. floor <= f /\ (tx[t].newFloor # NoFloor => tx[t].newFloor <= f)
      BY <2>2, <2>4, <2>5, <2>6, SMTT(20), Z3T(20) DEF FloorOf
    <2>8. View(t) = rows \ tx[t].dels
      BY DEF View
    <2>9. ASSUME NEW r \in gone PROVE \E s \in rows \ tx'[t].dels : Supersedes(s, r) /\ s.tt <= f
      <3>1. PICK s \in View(t) \ gone : Supersedes(s, r) /\ s.tt <= cutoff
        BY <1>2
      <3>2. s \in rows \ tx'[t].dels
        BY <1>1, <2>8, <3>1
      <3>3. s.tt <= f
        BY <2>2, <2>4, <2>5, <2>8, <3>1, SMTT(20), Z3T(20)
      <3> QED
        BY <3>1, <3>2, <3>3
    <2>10. ASSUME NEW r \in tx[t].dels, ~\E a \in tx[t].audits : a.key = r.key
           PROVE  \E s \in rows \ tx'[t].dels : Supersedes(s, r) /\ s.tt <= f
      <3>1. /\ tx[t].newFloor # NoFloor
            /\ \E s \in rows \ tx[t].dels : Supersedes(s, r) /\ s.tt <= tx[t].newFloor
        BY <1>0, <1>1, <2>10 DEF Backed
      <3>2. PICK s \in rows \ tx[t].dels : Supersedes(s, r) /\ s.tt <= tx[t].newFloor
        BY <3>1
      <3>3. CASE s \in gone
        <4>1. PICK x \in rows \ tx'[t].dels : Supersedes(x, s) /\ x.tt <= f
          BY <2>9, <3>3
        <4>2. Supersedes(x, r)
          BY <2>1, <3>2, <4>1, SupersedesTransitive
        <4> QED
          BY <4>1, <4>2
      <3>4. CASE s \notin gone
        <4>1. s.tt <= f
          BY <2>2, <2>5, <2>7, <3>1, <3>2, SMTT(20), Z3T(20)
        <4> QED
          BY <1>1, <3>2, <3>4, <4>1
      <3> QED
        BY <3>3, <3>4
    <2>11. ASSUME NEW r \in tx'[t].dels
           PROVE  \/ \E a \in tx'[t].audits : a.key = r.key
                  \/ \E s \in rows \ tx'[t].dels : Supersedes(s, r) /\ s.tt <= tx'[t].newFloor
      BY <1>1, <2>4, <2>9, <2>10, SMTT(20), Z3T(20)
    <2> QED
      BY <1>1, <1>3, <2>4, <2>5, <2>7, <2>11 DEF Backed
  <1> QED
    BY <1>5, <1>6

LEMMA EvictExact ==
  ASSUME Validates, ExactInv, NEW t \in Txs, NEW ks \in SUBSET Keys, NEW now \in Wall,
         Evict(t, ks, now)
  PROVE  Covered' /\ \A u \in Txs : Backed(tx'[u], u, metaLock', floor', rows')
  <1>0. TypeOK /\ Backed(tx[t], t, metaLock, floor, rows)
    BY DEF ExactInv, UniqueInv, ClockInv
  <1>1. /\ Local(t) /\ tx[t].phase = "open" /\ tx'[t].phase = "open"
        /\ tx'[t].audits = tx[t].audits \cup [key: ks, tt: {hwm'}]
        /\ tx'[t].dels = tx[t].dels \cup {r \in View(t) : r.key \in ks}
        /\ tx'[t].newFloor = tx[t].newFloor
        /\ LockMeta(t)
    BY <1>0, EvictEffect, Zenon
  <1>2. /\ metaLock' = t
        /\ \A u \in Txs \ {t} : tx[u].dels = {} /\ tx[u].newFloor = NoFloor
    BY <1>1, MetaGuards
  <1>3. ASSUME NEW r, r.key \in ks PROVE \E a \in tx'[t].audits : a.key = r.key
    <2>1. [key |-> r.key, tt |-> hwm'] \in tx'[t].audits
      BY <1>1, <1>3
    <2> QED
      BY <2>1
  <1>4. ASSUME NEW r \in tx'[t].dels
        PROVE  \/ \E a \in tx'[t].audits : a.key = r.key
               \/ /\ tx[t].newFloor # NoFloor
                  /\ \E s \in rows \ tx'[t].dels : Supersedes(s, r) /\ s.tt <= tx[t].newFloor
    <2>1. CASE r.key \in ks
      BY <1>3, <2>1
    <2>2. CASE r.key \notin ks
      <3>1. r \in tx[t].dels
        BY <1>1, <2>2, Zenon
      <3>2. \/ \E a \in tx[t].audits : a.key = r.key
            \/ /\ tx[t].newFloor # NoFloor
               /\ \E s \in rows \ tx[t].dels : Supersedes(s, r) /\ s.tt <= tx[t].newFloor
        BY <1>0, <1>1, <3>1, Zenon DEF Backed
      <3>3. CASE \E a \in tx[t].audits : a.key = r.key
        BY <1>1, <3>3
      <3>4. ASSUME NEW s \in rows \ tx[t].dels, Supersedes(s, r)
            PROVE  s \in rows \ tx'[t].dels
        BY <1>1, <2>2, <3>4 DEF Supersedes, SameGroup
      <3> QED
        BY <3>2, <3>3, <3>4
    <2> QED
      BY <2>1, <2>2
  <1>5. Backed(tx'[t], t, metaLock', floor, rows)
    BY <1>0, <1>1, <1>2, <1>4, Zenon DEF Backed
  <1> QED
    BY <1>1, <1>2, <1>5, LocalKeepsExact, Zenon

LEMMA ApplyExact ==
  ASSUME ExactInv, TypeOK', NEW t \in Txs, Apply(t), tx[t].phase # "committed"
  PROVE  /\ Covered'
         /\ \A u \in Txs \ {t} : tx[u].dels # {} \/ tx[u].newFloor # NoFloor =>
              rows \subseteq rows' /\ floor' = floor
  <1>0. TypeOK /\ Covered /\ Backed(tx[t], t, metaLock, floor, rows)
    BY DEF ExactInv, UniqueInv, ClockInv
  <1> DEFINE evicted == {r \in ledger : /\ \E a \in tx[t].audits : a.key = r.key
                                        /\ r \notin rows \ tx[t].dels}
  <1>1. /\ rows' = (rows \ tx[t].dels) \cup tx[t].puts
        /\ floor' = IF tx[t].newFloor = NoFloor THEN floor ELSE tx[t].newFloor
        /\ ledger' = (ledger \ evicted) \cup tx[t].puts
    BY DEF Apply
  <1>2. /\ rows \subseteq ledger /\ ledger \subseteq Record /\ rows' \subseteq Record
        /\ \A r \in ledger \ rows : \E s \in rows : Supersedes(s, r) /\ s.tt <= floor
    BY <1>0 DEF TypeOK, Covered
  <1>3. floor \in Int /\ floor' \in Int /\ \A r \in rows : r.tt \in Int
    <2>1. floor \in Times \cup {NoFloor} /\ floor' \in Times \cup {NoFloor}
      BY <1>0 DEF TypeOK
    <2>2. \A r \in rows : r.tt \in Nat
      BY <1>0, TimeFacts
    <2> QED
      BY <2>1, <2>2, IntTimes, SMTT(20), Z3T(20)
  <1>4. floor <= floor'
    <2>1. tx[t].newFloor # NoFloor => floor <= tx[t].newFloor
      BY <1>0 DEF Backed
    <2> QED
      BY <1>1, <1>3, <2>1, SMTT(20), Z3T(20)
  <1>5. rows' \subseteq ledger'
    BY <1>1, <1>2
  <1>6. ASSUME NEW r \in tx[t].dels, ~\E a \in tx[t].audits : a.key = r.key
        PROVE  \E s \in rows' : Supersedes(s, r) /\ s.tt <= floor'
    <2>1. /\ tx[t].newFloor # NoFloor
          /\ \E s \in rows \ tx[t].dels : Supersedes(s, r) /\ s.tt <= tx[t].newFloor
      BY <1>0, <1>6 DEF Backed
    <2> QED
      BY <1>1, <2>1
  <1>7. ASSUME NEW r \in ledger' \ rows'
        PROVE  \E s \in rows' : Supersedes(s, r) /\ s.tt <= floor'
    <2>1. r \in ledger /\ r \notin rows \ tx[t].dels /\ ~\E a \in tx[t].audits : a.key = r.key
      BY <1>1, <1>7
    <2>2. CASE r \in rows
      BY <1>6, <2>1, <2>2
    <2>3. CASE r \notin rows
      <3>1. PICK s \in rows : Supersedes(s, r) /\ s.tt <= floor
        BY <1>2, <2>1, <2>3
      <3>2. CASE s \notin tx[t].dels
        <4>1. s.tt <= floor'
          BY <1>3, <1>4, <3>1, SMTT(20), Z3T(20)
        <4> QED
          BY <1>1, <3>1, <3>2, <4>1
      <3>3. CASE s \in tx[t].dels
        <4>1. ~\E a \in tx[t].audits : a.key = s.key
          BY <2>1, <3>1 DEF Supersedes, SameGroup
        <4>2. PICK c \in rows' : Supersedes(c, s) /\ c.tt <= floor'
          BY <1>6, <3>3, <4>1
        <4>3. c \in Record /\ s \in Record /\ r \in Record
          BY <1>2, <2>1, <3>1
        <4>4. Supersedes(c, r)
          BY <3>1, <4>2, <4>3, SupersedesTransitive
        <4> QED
          BY <4>2, <4>4
      <3> QED
        BY <3>2, <3>3
    <2> QED
      BY <2>2, <2>3
  <1>8. Covered'
    BY <1>5, <1>7 DEF Covered
  <1>9. ASSUME NEW u \in Txs \ {t}, tx[u].dels # {} \/ tx[u].newFloor # NoFloor
        PROVE  rows \subseteq rows' /\ floor' = floor
    <2>1. metaLock = u
      BY <1>9 DEF ExactInv, Backed
    <2>2. tx[t].dels = {} /\ tx[t].newFloor = NoFloor
      BY <1>0, <2>1 DEF Backed
    <2> QED
      BY <1>1, <2>2
  <1> QED
    BY <1>8, <1>9

LEMMA CommitExact ==
  ASSUME ExactInv, TypeOK', NEW t \in Txs, TtCommit(t) \/ CommitPlain(t)
  PROVE  Covered' /\ \A u \in Txs : Backed(tx'[u], u, metaLock', floor', rows')
  <1>0. TypeOK
    BY DEF ExactInv, UniqueInv, ClockInv
  <1>1. Apply(t) /\ tx[t].phase # "committed"
    BY DEF TtCommit, CommitPlain
  <1>2. /\ Covered'
        /\ \A u \in Txs \ {t} : tx[u].dels # {} \/ tx[u].newFloor # NoFloor =>
             rows \subseteq rows' /\ floor' = floor
    BY <1>1, ApplyExact
  <1>3. /\ \A u \in Txs \ {t} : tx'[u] = tx[u] /\ (metaLock = u => metaLock' = u)
        /\ \/ /\ tx'[t].phase = "committed" /\ metaLock' = metaLock
              /\ tx'[t].dels = tx[t].dels /\ tx'[t].newFloor = tx[t].newFloor
           \/ tx'[t].dels = {} /\ tx'[t].newFloor = NoFloor
    <2>1. CASE TtCommit(t)
      BY <1>0, <2>1, SectionEffect, Zenon DEF Keeps
    <2>2. CASE CommitPlain(t)
      <3>1. Release(t)
        BY <2>2, Zenon DEF CommitPlain
      <3> QED
        BY <1>0, <3>1, ReleaseEffect, IdleType, Zenon
    <2> QED
      BY <2>1, <2>2
  <1>4. Backed(tx'[t], t, metaLock', floor', rows')
    <2>1. Backed(tx[t], t, metaLock, floor, rows)
      BY DEF ExactInv
    <2> QED
      BY <1>3, <2>1 DEF Backed
  <1>5. ASSUME NEW u \in Txs, u # t PROVE Backed(tx'[u], u, metaLock', floor', rows')
    <2>1. Backed(tx[u], u, metaLock, floor, rows)
      BY DEF ExactInv
    <2>2. CASE tx[u].dels = {} /\ tx[u].newFloor = NoFloor
      BY <1>3, <1>5, <2>2, Zenon DEF Backed
    <2>3. CASE tx[u].dels # {} \/ tx[u].newFloor # NoFloor
      <3>1. rows \subseteq rows' /\ floor' = floor /\ tx'[u] = tx[u] /\ metaLock' = u
        BY <1>2, <1>3, <1>5, <2>1, <2>3 DEF Backed
      <3> QED
        BY <2>1, <3>1 DEF Backed
    <2> QED
      BY <2>2, <2>3
  <1> QED
    BY <1>2, <1>4, <1>5

LEMMA QuietExact ==
  ASSUME ExactInv, NEW t \in Txs,
         \/ Buffers(t)
         \/ TtEnter(t) \/ (\E now \in Wall : TtAdvance(t, now)) \/ TtStamp(t) \/ TtPutMark(t)
  PROVE  Covered' /\ \A u \in Txs : Backed(tx'[u], u, metaLock', floor', rows')
  <1>0. TypeOK /\ Backed(tx[t], t, metaLock, floor, rows)
    BY Zenon DEF ExactInv, UniqueInv, ClockInv
  <1>1. /\ Local(t) /\ metaLock' = metaLock /\ tx'[t].audits = tx[t].audits
        /\ tx'[t].dels = tx[t].dels /\ tx'[t].newFloor = tx[t].newFloor
        /\ tx[t].phase # "committed"
    <2>1. CASE Buffers(t)
      BY <1>0, <2>1, BuffersEffect, Zenon
    <2>2. CASE TtEnter(t) \/ (\E now \in Wall : TtAdvance(t, now)) \/ TtPutMark(t)
      BY <1>0, <2>2, SectionEffect, Zenon DEF Keeps
    <2>3. CASE TtStamp(t)
      BY <1>0, <2>3, StampEffect, Zenon DEF Keeps
    <2> QED
      BY <2>1, <2>2, <2>3
  <1>2. Backed(tx'[t], t, metaLock', floor, rows)
    BY <1>0, <1>1, Zenon, SMTT(20) DEF Backed
  <1>3. \A u \in Txs : tx[u].dels # {} \/ tx[u].newFloor # NoFloor => metaLock = u
    BY DEF ExactInv, Backed
  <1> QED
    BY <1>1, <1>2, <1>3, LocalKeepsExact, Zenon

LEMMA EndExact ==
  ASSUME ExactInv, NEW t \in Txs, Begin(t) \/ TtLeave(t) \/ Abort(t)
  PROVE  Covered' /\ \A u \in Txs : Backed(tx'[u], u, metaLock', floor', rows')
  <1>0. TypeOK
    BY Zenon DEF ExactInv, UniqueInv, ClockInv
  <1>1. /\ Local(t) /\ tx'[t].dels = {} /\ tx'[t].newFloor = NoFloor
        /\ \A u \in Txs \ {t} : metaLock = u => metaLock' = u
    <2>1. CASE Begin(t)
      BY <1>0, <2>1, BeginEffect
    <2>2. CASE TtLeave(t) \/ Abort(t)
      <3>1. Release(t) /\ UNCHANGED <<store, history, running>>
        BY <2>2 DEF TtLeave, Abort
      <3> QED
        BY <1>0, <3>1, ReleaseEffect, IdleType, Zenon DEF Local, store, history
    <2> QED
      BY <2>1, <2>2
  <1>2. Backed(tx'[t], t, metaLock', floor, rows)
    BY <1>1 DEF Backed
  <1>3. \A u \in Txs : tx[u].dels # {} \/ tx[u].newFloor # NoFloor => metaLock = u
    BY DEF ExactInv, Backed
  <1> QED
    BY <1>1, <1>2, <1>3, LocalKeepsExact, Zenon

LEMMA ExactStep == Validates /\ ExactInv /\ [Next]_vars => ExactInv'
  <1> SUFFICES ASSUME Validates, ExactInv, [Next]_vars
               PROVE  UniqueInv' /\ Covered'
                      /\ \A u \in Txs : Backed(tx'[u], u, metaLock', floor', rows')
    BY Zenon DEF ExactInv
  <1>0. UniqueInv' /\ TypeOK' /\ TypeOK
    <2>1. UniqueInv'
      BY UniqueStep DEF ExactInv
    <2>2. TypeOK
      BY DEF ExactInv, UniqueInv, ClockInv
    <2> QED
      BY <2>1, <2>2, TypeStep
  <1>1. CASE Crash
    <2>1. UNCHANGED <<rows, floor, ledger>> /\ \A t \in Txs : tx'[t] = IdleTx
      BY <1>1 DEF Crash, store, history
    <2> QED
      BY <1>0, <2>1, IdleType DEF ExactInv, Covered, Backed
  <1>2. CASE (\E now \in Wall : Open(now)) \/ UNCHANGED vars
    <2>1. UNCHANGED <<rows, floor, ledger, metaLock, tx>>
      BY <1>2 DEF Open, store, history, locks, vars
    <2> QED
      BY <1>0, <2>1 DEF ExactInv, Covered
  <1>3. ASSUME NEW t \in Txs, Statement(t)
        PROVE  Covered' /\ \A u \in Txs : Backed(tx'[u], u, metaLock', floor', rows')
    BY <1>0, <1>3, StatementSplit, QuietExact, GcExact, EvictExact, Zenon
  <1> QED
    BY <1>0, <1>1, <1>2, <1>3, QuietExact, CommitExact, EndExact DEF Next, TtStep

LEMMA ExactInit == Init => ExactInv
  BY UniqueInit, IdleType DEF Init, ExactInv, Covered, Backed

\* Where ::history_gc locks the catalog entry it moves the floor of, a read at
\* or above the floor returns what was believed at that time, as if nothing had
\* been collected, whatever collections, evictions and commits interleave.
THEOREM ExactReads ==
  ASSUME Backend # "sled"
  PROVE  Spec => []ReadsAreExact
  <1>1. Validates
    BY DEF Validates
  <1>2. ExactInv /\ [Next]_vars => ExactInv'
    BY <1>1, ExactStep
  <1>3. ExactInv => ReadsAreExact
    BY CoveredReads DEF ExactInv, UniqueInv, ClockInv
  <1> QED
    BY <1>2, <1>3, ExactInit, PTL DEF Spec
-----------------------------------------------------------------------------
(* One write transaction at a time *)

Live == {"open", "locked", "allocated", "stamped", "marked"}

Solo == \A t, u \in Txs : tx[t].phase # "idle" /\ tx[u].phase # "idle" => t = u

\* Nothing stored has the time of something erased.
Erasure ==
  /\ rows \subseteq ledger
  /\ \A r \in ledger : 0 < r.tt /\ r.tt <= mark
  /\ \A e \in erased : 0 < e[2] /\ e[2] <= mark
  /\ \A r \in rows : <<r.key, r.tt>> \notin erased

Stamped(P, n) ==
  {[key |-> p.key, vt |-> p.vt, tt |-> n, assert |-> p.assert, val |-> p.val] : p \in P}

\* What the transaction x found is still so in the records V that it sees: where
\* it inserts there is no belief, what it copied is stored, what it evicts is
\* gone, and what it reconciled is the difference to what it declared.
Faithful(x, V) ==
  /\ \A p \in x.pending :
       /\ p.insert => \A r \in Current(V) : r.key # p.key
       /\ p.src = NoSource \/ \E r \in V : r.key = p.key /\ r.tt = p.src
  /\ \A a \in x.audits : \A r \in V : r.key # a.key
  /\ x.reconciled /\ x.audits = {} =>
       /\ x.pending = Revision(V, x.declared)
       /\ \A d, e \in x.declared : SameGroup(d, e) => d = e
  /\ x.phase \in {"stamped", "marked"} => x.puts = Stamped(x.pending, x.tt)

SoloInv ==
  /\ UniqueInv /\ Solo /\ Erasure
  /\ \A t \in Txs : tx[t].phase \in Live => Faithful(tx[t], rows \ tx[t].dels)

LEMMA LocalKeepsSolo ==
  ASSUME SoloInv, UniqueInv', NEW t \in Txs, Local(t),
         tx[t].phase # "idle" \/ \A u \in Txs : tx[u].phase = "idle",
         tx'[t].phase \in Live => Faithful(tx'[t], rows \ tx'[t].dels)
  PROVE  SoloInv'
  <1>1. /\ rows' = rows /\ mark' = mark /\ ledger' = ledger /\ erased' = erased
        /\ \A u \in Txs \ {t} : tx'[u] = tx[u]
    BY DEF Local
  <1>2. \A u \in Txs \ {t} : tx[u].phase = "idle"
    BY DEF SoloInv, Solo
  <1>3. Solo'
    BY <1>1, <1>2, SMTT(20), Z3T(20) DEF Solo
  <1>4. Erasure'
    BY <1>1, Zenon DEF SoloInv, Erasure
  <1>5. \A u \in Txs \ {t} : tx'[u].phase \notin Live
    BY <1>1, <1>2 DEF Live
  <1>6. \A u \in Txs : tx'[u].phase \in Live => Faithful(tx'[u], rows' \ tx'[u].dels)
    BY <1>1, <1>5, Zenon
  <1> QED
    BY <1>3, <1>4, <1>6, Zenon DEF SoloInv

\* A row added to the buffer of a transaction that has not reconciled.
LEMMA BufferFaithful ==
  ASSUME NEW x, NEW y, NEW V, Faithful(x, V),
         y.audits = x.audits, y.phase = "open", ~y.reconciled,
         \A p \in y.pending :
           \/ p \in x.pending
           \/ /\ p.insert => \A r \in Current(V) : r.key # p.key
              /\ p.src = NoSource \/ \E r \in V : r.key = p.key /\ r.tt = p.src
  PROVE  Faithful(y, V)
  <1>1. \A p \in y.pending :
          /\ p.insert => \A r \in Current(V) : r.key # p.key
          /\ p.src = NoSource \/ \E r \in V : r.key = p.key /\ r.tt = p.src
    BY Zenon DEF Faithful
  <1>2. \A a \in x.audits : \A r \in V : r.key # a.key
    BY DEF Faithful
  <1> QED
    BY <1>1, <1>2, Zenon DEF Faithful

LEMMA BufferedFields ==
  ASSUME TypeOK, NEW t \in Txs, NEW P, tx' = [tx EXCEPT ![t].pending = P]
  PROVE  /\ tx'[t].pending = P /\ tx'[t].audits = tx[t].audits /\ tx'[t].phase = tx[t].phase
         /\ tx'[t].reconciled = tx[t].reconciled /\ tx'[t].dels = tx[t].dels
  BY DEF TypeOK, TxType

LEMMA WriteFaithful ==
  ASSUME TypeOK, NEW t \in Txs, NEW row, Write(t, row), NEW V,
         tx[t].phase = "open", NotReconciled(t), Faithful(tx[t], V),
         row.insert => \A r \in Current(V) : r.key # row.key,
         row.src = NoSource \/ \E r \in V : r.key = row.key /\ r.tt = row.src
  PROVE  Faithful(tx'[t], V) /\ tx'[t].dels = tx[t].dels
  <1> DEFINE P == Buffer(tx[t].pending, row)
  <1>1. tx' = [tx EXCEPT ![t].pending = P] /\ ~tx[t].reconciled
    BY DEF Write, NotReconciled
  <1>2. \A p \in P : p \in tx[t].pending \/ p = row
    BY DEF Buffer
  <1> HIDE DEF P
  <1>3. \A p \in P : \/ p \in tx[t].pending
                     \/ /\ p.insert => \A r \in Current(V) : r.key # p.key
                        /\ p.src = NoSource \/ \E r \in V : r.key = p.key /\ r.tt = p.src
    BY <1>2
  <1>4. /\ tx'[t].pending = P /\ tx'[t].audits = tx[t].audits /\ tx'[t].phase = "open"
        /\ ~tx'[t].reconciled /\ tx'[t].dels = tx[t].dels
    BY <1>1, BufferedFields, Zenon, SMTT(20)
  <1> QED
    BY <1>3, <1>4, BufferFaithful

\* What a revision is made of: the assertions of what was declared and is not
\* believed, the retractions of what is believed and was not declared.
LEMMA RevisionParts ==
  ASSUME NEW R, NEW desired
  PROVE  /\ \A p \in Revision(R, desired) :
              \/ \E d \in desired :
                   /\ \A r \in Current(R) : ~(SameGroup(r, d) /\ r.val = d.val)
                   /\ p = [key |-> d.key, vt |-> d.vt, assert |-> TRUE, val |-> d.val,
                           src |-> NoSource, insert |-> FALSE]
              \/ \E r \in Current(R) :
                   /\ \A d \in desired : ~SameGroup(r, d)
                   /\ p = [key |-> r.key, vt |-> r.vt, assert |-> FALSE, val |-> r.val,
                           src |-> r.tt, insert |-> FALSE]
         /\ \A d \in desired :
              (\A r \in Current(R) : ~(SameGroup(r, d) /\ r.val = d.val)) =>
                [key |-> d.key, vt |-> d.vt, assert |-> TRUE, val |-> d.val,
                 src |-> NoSource, insert |-> FALSE] \in Revision(R, desired)
         /\ \A r \in Current(R) :
              (\A d \in desired : ~SameGroup(r, d)) =>
                [key |-> r.key, vt |-> r.vt, assert |-> FALSE, val |-> r.val,
                 src |-> r.tt, insert |-> FALSE] \in Revision(R, desired)
  BY Zenon DEF Revision

LEMMA ReconcileFaithful ==
  ASSUME TypeOK, NEW t \in Txs, NEW desired \in SUBSET Declared, Reconcile(t, desired),
         Faithful(tx[t], View(t))
  PROVE  Faithful(tx'[t], View(t)) /\ tx'[t].dels = tx[t].dels
  <1>0. tx \in [Txs -> TxType] /\ tx[t] \in TxType
    BY DEF TypeOK
  <1> DEFINE P == Revision(View(t), desired)
  <1>1. /\ tx' = [tx EXCEPT ![t].pending = P, ![t].reconciled = TRUE, ![t].declared = desired]
        /\ tx[t].phase = "open" /\ \A d, e \in desired : SameGroup(d, e) => d = e
    BY DEF Reconcile
  <1>2. ASSUME NEW p \in P
        PROVE  /\ ~p.insert
               /\ p.src = NoSource \/ \E r \in View(t) : r.key = p.key /\ r.tt = p.src
    <2>1. CASE \E d \in desired :
                 p = [key |-> d.key, vt |-> d.vt, assert |-> TRUE, val |-> d.val,
                      src |-> NoSource, insert |-> FALSE]
      BY <2>1
    <2>2. ASSUME NEW r \in Current(View(t)),
                 p = [key |-> r.key, vt |-> r.vt, assert |-> FALSE, val |-> r.val,
                      src |-> r.tt, insert |-> FALSE]
          PROVE  ~p.insert /\ \E s \in View(t) : s.key = p.key /\ s.tt = p.src
      <3>1. r \in View(t)
        BY <2>2 DEF Current
      <3> QED
        BY <2>2, <3>1
    <2> QED
      BY <1>2, <2>1, <2>2, RevisionParts, Zenon, SMTT(20)
  <1> HIDE DEF P
  <1>3. /\ tx'[t].pending = P /\ tx'[t].declared = desired /\ tx'[t].audits = tx[t].audits
        /\ tx'[t].phase = "open" /\ tx'[t].dels = tx[t].dels
    BY <1>0, <1>1 DEF TxType
  <1>4. \A a \in tx[t].audits : \A r \in View(t) : r.key # a.key
    BY Zenon DEF Faithful
  <1>5. /\ tx'[t].pending = Revision(View(t), tx'[t].declared)
        /\ \A d, e \in tx'[t].declared : SameGroup(d, e) => d = e
    BY <1>1, <1>3, Zenon DEF P
  <1> QED
    BY <1>2, <1>3, <1>4, <1>5, Zenon DEF Faithful

LEMMA BuffersFaithful ==
  ASSUME TypeOK, NEW t \in Txs, Statement(t), Faithful(tx[t], View(t))
  PROVE  \/ Faithful(tx'[t], View(t)) /\ tx'[t].dels = tx[t].dels
         \/ \E cutoff \in Times, now \in Wall : HistoryGc(t, cutoff, now)
         \/ \E ks \in SUBSET Keys, now \in Wall : Evict(t, ks, now)
  <1> DEFINE Same == Faithful(tx'[t], View(t)) /\ tx'[t].dels = tx[t].dels
  <1>0. Current(View(t)) \subseteq View(t)
    BY DEF Current
  <1>1. ASSUME NEW k \in Keys, NEW v \in VtAxis, NEW a \in BOOLEAN, NEW x \in Vals,
               Put(t, k, v, a, x)
        PROVE  Same
    <2> DEFINE row == [key |-> k, vt |-> v, assert |-> a, val |-> x, src |-> NoSource,
                       insert |-> FALSE]
    <2>1. Write(t, row) /\ tx[t].phase = "open" /\ NotReconciled(t)
      BY <1>1 DEF Put
    <2>2. ~row.insert /\ row.src = NoSource
      OBVIOUS
    <2> HIDE DEF row
    <2> QED
      BY <2>1, <2>2, WriteFaithful, Zenon, SMTT(20)
  <1>2. ASSUME NEW k \in Keys, NEW v \in VtAxis, NEW a \in BOOLEAN, NEW x \in Vals,
               Insert(t, k, v, a, x)
        PROVE  Same
    <2> DEFINE row == [key |-> k, vt |-> v, assert |-> a, val |-> x, src |-> NoSource,
                       insert |-> TRUE]
    <2>1. Write(t, row) /\ tx[t].phase = "open" /\ NotReconciled(t) /\ Absent(t, k)
      BY <1>2, Zenon DEF Insert
    <2>2. row.key = k /\ row.src = NoSource
      OBVIOUS
    <2>3. \A r \in Current(View(t)) : r.key # k
      BY <1>0, <2>1, Zenon DEF Absent
    <2> HIDE DEF row
    <2> QED
      BY <2>1, <2>2, <2>3, WriteFaithful, Zenon
  <1>3. ASSUME NEW k, NEW v, NEW a, NEW x, NEW r \in View(t), r.key = k, tx[t].phase = "open",
               NotReconciled(t),
               Write(t, [key |-> k, vt |-> v, assert |-> a, val |-> x, src |-> r.tt,
                         insert |-> FALSE])
        PROVE  Same
    <2> DEFINE row == [key |-> k, vt |-> v, assert |-> a, val |-> x, src |-> r.tt,
                       insert |-> FALSE]
    <2>1. ~row.insert /\ row.src = r.tt /\ row.key = k /\ Write(t, row)
      BY <1>3
    <2> HIDE DEF row
    <2> QED
      BY <1>3, <2>1, WriteFaithful, Zenon
  <1>4. ASSUME NEW k \in Keys, Rm(t, k) PROVE  Same
    BY <1>0, <1>3, <1>4, Zenon DEF Rm
  <1>5. ASSUME NEW k \in Keys, NEW now \in VtAxis, NEW x \in Vals, Update(t, k, now, x)
        PROVE  Same
    <2>1. \A r \in Belief(View(t), k, now, MaxTt) : r \in View(t) /\ r.key = k
      BY DEF Belief, Decides
    <2> QED
      BY <1>3, <1>5, <2>1, Zenon DEF Update
  <1>6. ASSUME NEW k \in Keys, NEW vs \in SUBSET VtAxis, RmAt(t, k, vs)
        PROVE  Same
    <2> DEFINE U == UNION
              {{[key |-> k, vt |-> v, assert |-> FALSE, val |-> r.val,
                 src |-> r.tt, insert |-> FALSE] : r \in Belief(View(t), k, v, MaxTt)} :
                 v \in vs}
               P == tx[t].pending \cup U
    <2>1. tx' = [tx EXCEPT ![t].pending = P] /\ tx[t].phase = "open" /\ ~tx[t].reconciled
      BY <1>6, Zenon DEF RmAt, NotReconciled, TypeOK
    <2>2. ASSUME NEW p \in U
          PROVE  ~p.insert /\ \E r \in View(t) : r.key = p.key /\ r.tt = p.src
      <3>1. PICK v \in vs : \E r \in Belief(View(t), k, v, MaxTt) :
              p = [key |-> k, vt |-> v, assert |-> FALSE, val |-> r.val,
                   src |-> r.tt, insert |-> FALSE]
        BY Zenon
      <3>2. PICK r \in Belief(View(t), k, v, MaxTt) :
              p = [key |-> k, vt |-> v, assert |-> FALSE, val |-> r.val,
                   src |-> r.tt, insert |-> FALSE]
        BY <3>1, Zenon, SMTT(20)
      <3>3. r \in View(t) /\ r.key = k
        BY <3>2 DEF Belief, Decides
      <3> QED
        BY <3>2, <3>3, Zenon
    <2> HIDE DEF U
    <2>3. \A p \in P : p \in tx[t].pending \/ p \in U
      OBVIOUS
    <2> HIDE DEF P
    <2>4. \A p \in P : \/ p \in tx[t].pending
                       \/ /\ p.insert => \A r \in Current(View(t)) : r.key # p.key
                          /\ \/ p.src = NoSource
                             \/ \E r \in View(t) : r.key = p.key /\ r.tt = p.src
      BY <2>2, <2>3, Zenon
    <2>5. /\ tx'[t].pending = P /\ tx'[t].audits = tx[t].audits /\ tx'[t].phase = "open"
          /\ ~tx'[t].reconciled /\ tx'[t].dels = tx[t].dels
      BY <2>1, BufferedFields, Zenon
    <2> QED
      BY <2>4, <2>5, BufferFaithful
  <1>7. ASSUME NEW desired \in SUBSET Declared, Reconcile(t, desired) PROVE Same
    BY <1>7, ReconcileFaithful, Zenon
  <1>8. ASSUME NEW ks \in SUBSET Keys \ {{}}, NEW now \in Wall, Evict(t, ks, now)
        PROVE  \E js \in SUBSET Keys, n \in Wall : Evict(t, js, n)
    BY <1>8, Zenon
  <1>9. ASSUME NEW vs \in SUBSET VtAxis \ {{}} PROVE vs \in SUBSET VtAxis
    OBVIOUS
  <1> HIDE DEF Same
  <1>a. Same \/ (\E cutoff \in Times, now \in Wall : HistoryGc(t, cutoff, now))
             \/ \E ks \in SUBSET Keys, now \in Wall : Evict(t, ks, now)
    BY <1>1, <1>2, <1>4, <1>5, <1>6, <1>7, <1>8, <1>9, Zenon DEF Statement
  <1> QED
    BY <1>a, Zenon DEF Same

\* The fields that :reconcile alone sets.
LEMMA DeclaredKept ==
  ASSUME TypeOK, NEW t \in Txs,
         \/ \E cutoff \in Times, now \in Wall : HistoryGc(t, cutoff, now)
         \/ \E ks \in SUBSET Keys, now \in Wall : Evict(t, ks, now)
         \/ TtEnter(t) \/ (\E now \in Wall : TtAdvance(t, now)) \/ TtStamp(t) \/ TtPutMark(t)
  PROVE  tx'[t].reconciled = tx[t].reconciled /\ tx'[t].declared = tx[t].declared
  <1>0. tx \in [Txs -> TxType] /\ tx[t] \in TxType
    BY DEF TypeOK
  <1>1. \A d, f : tx' = [tx EXCEPT ![t].dels = d, ![t].newFloor = f] =>
          tx'[t].reconciled = tx[t].reconciled /\ tx'[t].declared = tx[t].declared
    BY <1>0, SMTT(20), Z3T(20) DEF TxType
  <1>2. \A d, a : tx' = [tx EXCEPT ![t].dels = d, ![t].audits = a, ![t].dirty = TRUE] =>
          tx'[t].reconciled = tx[t].reconciled /\ tx'[t].declared = tx[t].declared
    BY <1>0, SMTT(20), Z3T(20) DEF TxType
  <1>3. \A ph : tx' = [tx EXCEPT ![t].phase = ph] =>
          tx'[t].reconciled = tx[t].reconciled /\ tx'[t].declared = tx[t].declared
    BY <1>0 DEF TxType
  <1>4. \A ph, n : tx' = [tx EXCEPT ![t].phase = ph, ![t].tt = n] =>
          tx'[t].reconciled = tx[t].reconciled /\ tx'[t].declared = tx[t].declared
    BY <1>0 DEF TxType
  <1>5. \A ph, P : tx' = [tx EXCEPT ![t].phase = ph, ![t].puts = P] =>
          tx'[t].reconciled = tx[t].reconciled /\ tx'[t].declared = tx[t].declared
    BY <1>0 DEF TxType
  <1>6. CASE \E cutoff \in Times, now \in Wall : HistoryGc(t, cutoff, now)
    BY <1>1, <1>6, Zenon DEF HistoryGc
  <1>7. CASE \E ks \in SUBSET Keys, now \in Wall : Evict(t, ks, now)
    BY <1>2, <1>7, Zenon DEF Evict
  <1>8. CASE TtEnter(t) \/ TtPutMark(t)
    BY <1>3, <1>8, Zenon DEF TtEnter, TtPutMark
  <1>9. CASE \E now \in Wall : TtAdvance(t, now)
    BY <1>4, <1>9, Zenon DEF TtAdvance
  <1>a. CASE TtStamp(t)
    BY <1>5, <1>a, Zenon DEF TtStamp
  <1> QED
    BY <1>6, <1>7, <1>8, <1>9, <1>a, Zenon, SMTT(20)

\* A collection takes nothing that is believed now.
LEMMA GcKeepsCurrent ==
  ASSUME TypeOK, TimesAreUnique, NEW R \in SUBSET rows, NEW cutoff \in Times
  PROVE  Current(R \ Superseded(R, cutoff)) = Current(R)
  <1> DEFINE K == R \ Superseded(R, cutoff)
  <1>1. R \subseteq Record
    BY DEF TypeOK
  <1>2. ASSUME NEW r \in Current(R) PROVE r \in Current(K)
    <2>1. r \in R /\ r.assert /\ \A s \in R : ~Supersedes(s, r)
      BY <1>2 DEF Current
    <2>2. r \notin Superseded(R, cutoff)
      BY <2>1 DEF Superseded, Known
    <2> QED
      BY <2>1, <2>2 DEF Current
  <1>3. ASSUME NEW r \in Current(K) PROVE r \in Current(R)
    <2>1. r \in K /\ r.assert /\ \A s \in K : ~Supersedes(s, r)
      BY <1>3 DEF Current
    <2>2. ASSUME NEW s \in R, Supersedes(s, r) PROVE FALSE
      <3>1. s \in Superseded(R, cutoff)
        BY <2>1, <2>2
      <3>2. PICK q \in K : Supersedes(q, s)
        BY <3>1, Keeper, Zenon
      <3>3. Supersedes(q, r)
        BY <1>1, <2>1, <2>2, <3>2, SupersedesTransitive, Zenon, SMTT(20)
      <3> QED
        BY <2>1, <3>2, <3>3
    <2> QED
      BY <2>1, <2>2 DEF Current
  <1> QED
    BY <1>2, <1>3

LEMMA GcFaithful ==
  ASSUME UniqueInv, NEW t \in Txs, NEW cutoff \in Times, NEW now \in Wall,
         HistoryGc(t, cutoff, now), Faithful(tx[t], View(t))
  PROVE  Faithful(tx'[t], rows \ tx'[t].dels)
  <1>0. TypeOK /\ TimesAreUnique
    BY DEF UniqueInv, ClockInv
  <1> DEFINE V == View(t)
             W == rows \ tx'[t].dels
  <1>1. /\ tx'[t].phase = "open" /\ tx'[t].audits = tx[t].audits
        /\ tx'[t].pending = tx[t].pending
        /\ tx'[t].dels = tx[t].dels \cup Superseded(V, cutoff)
    BY <1>0, GcEffect, Zenon
  <1>2. tx[t].pending = {}
    BY DEF HistoryGc, NothingPending
  <1>3. tx'[t].reconciled = tx[t].reconciled /\ tx'[t].declared = tx[t].declared
    BY <1>0, DeclaredKept, Zenon, SMTT(20)
  <1>4. W = V \ Superseded(V, cutoff) /\ W \subseteq V /\ V \in SUBSET rows
    BY <1>1 DEF View
  <1> HIDE DEF V, W
  <1>5. Current(W) = Current(V)
    BY <1>0, <1>4, GcKeepsCurrent
  <1>6. \A D : Revision(W, D) = Revision(V, D)
    BY <1>5, Zenon DEF Revision
  <1>7. /\ \A a \in tx[t].audits : \A r \in V : r.key # a.key
        /\ tx[t].reconciled /\ tx[t].audits = {} =>
             /\ tx[t].pending = Revision(V, tx[t].declared)
             /\ \A d, e \in tx[t].declared : SameGroup(d, e) => d = e
    BY Zenon, SMTT(20) DEF Faithful, V
  <1>8. \A a \in tx'[t].audits : \A r \in W : r.key # a.key
    BY <1>1, <1>4, <1>7
  <1>9. tx'[t].reconciled /\ tx'[t].audits = {} =>
             /\ tx'[t].pending = Revision(W, tx'[t].declared)
             /\ \A d, e \in tx'[t].declared : SameGroup(d, e) => d = e
    BY <1>1, <1>3, <1>6, <1>7, Zenon
  <1>10. Faithful(tx'[t], W)
    BY <1>1, <1>2, <1>8, <1>9, Zenon, SMTT(20) DEF Faithful
  <1> QED
    BY <1>10 DEF W

LEMMA EvictFaithful ==
  ASSUME UniqueInv, NEW t \in Txs, NEW ks \in SUBSET Keys, NEW now \in Wall,
         Evict(t, ks, now), Faithful(tx[t], View(t))
  PROVE  Faithful(tx'[t], rows \ tx'[t].dels)
  <1>0. TypeOK
    BY DEF UniqueInv, ClockInv
  <1> DEFINE V == View(t)
             W == rows \ tx'[t].dels
  <1>1. /\ tx'[t].phase = "open" /\ tx'[t].audits = tx[t].audits \cup [key: ks, tt: {hwm'}]
        /\ tx'[t].pending = tx[t].pending
        /\ tx'[t].dels = tx[t].dels \cup {r \in V : r.key \in ks}
    BY <1>0, EvictEffect, Zenon
  <1>2. tx[t].pending = {}
    BY Zenon DEF Evict, NothingPending
  <1>3. tx'[t].reconciled = tx[t].reconciled /\ tx'[t].declared = tx[t].declared
    BY <1>0, DeclaredKept, Zenon, SMTT(20)
  <1>4. W = {r \in V : r.key \notin ks}
    BY <1>1 DEF View
  <1> HIDE DEF V, W
  <1>5. /\ \A a \in tx[t].audits : \A r \in V : r.key # a.key
        /\ tx[t].reconciled /\ tx[t].audits = {} =>
             /\ tx[t].pending = Revision(V, tx[t].declared)
             /\ \A d, e \in tx[t].declared : SameGroup(d, e) => d = e
    BY Zenon, SMTT(20) DEF Faithful, V
  <1>6. \A a \in tx'[t].audits : \A r \in W : r.key # a.key
    BY <1>1, <1>4, <1>5
  <1>7. ASSUME tx'[t].reconciled, tx'[t].audits = {}
        PROVE  /\ tx'[t].pending = Revision(W, tx'[t].declared)
               /\ \A d, e \in tx'[t].declared : SameGroup(d, e) => d = e
    <2>1. ASSUME NEW k \in ks PROVE FALSE
      <3>1. [key |-> k, tt |-> hwm'] \in [key: ks, tt: {hwm'}]
        OBVIOUS
      <3> QED
        BY <1>1, <1>7, <3>1, Zenon
    <2>2. W = V
      BY <1>4, <2>1, Zenon
    <2>3. tx[t].audits = {}
      BY <1>1, <1>7
    <2> QED
      BY <1>1, <1>3, <1>5, <1>7, <2>2, <2>3, Zenon
  <1>8. Faithful(tx'[t], W)
    BY <1>1, <1>2, <1>6, <1>7, Zenon DEF Faithful
  <1> QED
    BY <1>8 DEF W

LEMMA StatementSolo ==
  ASSUME SoloInv, UniqueInv', NEW t \in Txs, Statement(t)
  PROVE  SoloInv'
  <1>0. TypeOK /\ UniqueInv
    BY DEF SoloInv, UniqueInv, ClockInv
  <1>1. Local(t) /\ tx[t].phase = "open" /\ tx'[t].phase = "open"
    BY <1>0, StatementSplit, BuffersEffect, GcEffect, EvictEffect, Zenon
  <1>2. Faithful(tx[t], View(t))
    BY <1>1, Zenon DEF SoloInv, Live, View
  <1>3. ASSUME Faithful(tx'[t], View(t)), tx'[t].dels = tx[t].dels
        PROVE  Faithful(tx'[t], rows \ tx'[t].dels)
    BY <1>3 DEF View
  <1>4. Faithful(tx'[t], rows \ tx'[t].dels)
    BY <1>0, <1>2, <1>3, BuffersFaithful, GcFaithful, EvictFaithful, Zenon, SMTT(20)
  <1> QED
    BY <1>1, <1>4, LocalKeepsSolo, Zenon

LEMMA SectionSolo ==
  ASSUME SoloInv, UniqueInv', NEW t \in Txs,
         TtEnter(t) \/ (\E now \in Wall : TtAdvance(t, now)) \/ TtStamp(t) \/ TtPutMark(t)
  PROVE  SoloInv'
  <1>0. TypeOK /\ UniqueInv
    BY Zenon DEF SoloInv, UniqueInv, ClockInv
  <1>1. /\ Local(t) /\ Keeps(t) /\ tx[t].phase \in Live
        /\ \/ tx'[t].phase \in {"locked", "allocated"}
           \/ /\ tx'[t].phase = "stamped" /\ tx'[t].puts = Stamped(tx'[t].pending, tx'[t].tt)
           \/ /\ tx[t].phase = "stamped" /\ tx'[t].phase = "marked" /\ tx'[t].tt = tx[t].tt
              /\ tx'[t].puts = tx[t].puts
    <2>1. CASE TtEnter(t) \/ (\E now \in Wall : TtAdvance(t, now)) \/ TtPutMark(t)
      BY <1>0, <2>1, SectionEffect, Zenon DEF Live
    <2>2. CASE TtStamp(t)
      <3>1. /\ Local(t) /\ Keeps(t) /\ tx[t].phase = "allocated" /\ tx'[t].phase = "stamped"
            /\ tx'[t].tt = tx[t].tt /\ tx'[t].pending = tx[t].pending
            /\ tx'[t].puts = {[key |-> p.key, vt |-> p.vt, tt |-> tx[t].tt, assert |-> p.assert,
                               val |-> p.val] : p \in tx[t].pending}
        BY <1>0, <2>2, StampEffect, Zenon, SMTT(20) DEF Keeps
      <3>2. tx'[t].puts = Stamped(tx'[t].pending, tx'[t].tt)
        BY <3>1, Zenon DEF Stamped
      <3> QED
        BY <3>1, <3>2, Zenon, SMTT(20) DEF Live
    <2> QED
      BY <2>1, <2>2, Zenon
  <1>2. /\ tx'[t].reconciled = tx[t].reconciled /\ tx'[t].declared = tx[t].declared
        /\ tx'[t].audits = tx[t].audits /\ tx'[t].dels = tx[t].dels
        /\ tx'[t].pending = tx[t].pending
    BY <1>0, <1>1, DeclaredKept, Zenon DEF Keeps
  <1>3. Faithful(tx[t], rows \ tx[t].dels)
    BY <1>1, Zenon DEF SoloInv
  <1>4. tx'[t].phase \in {"stamped", "marked"} => tx'[t].puts = Stamped(tx'[t].pending, tx'[t].tt)
    BY <1>1, <1>2, <1>3, Zenon DEF Faithful
  <1>5. Faithful(tx'[t], rows \ tx[t].dels)
    BY <1>2, <1>3, <1>4, Zenon, SMTT(20) DEF Faithful
  <1>6. tx[t].phase # "idle"
    BY <1>1 DEF Live
  <1> QED
    BY <1>1, <1>2, <1>5, <1>6, LocalKeepsSolo, Zenon

LEMMA BeginSolo ==
  ASSUME Exclusive, SoloInv, UniqueInv', NEW t \in Txs, Begin(t)
  PROVE  SoloInv'
  <1>0. TypeOK
    BY Zenon, SMTT(20) DEF SoloInv, UniqueInv, ClockInv
  <1>1. /\ Local(t) /\ tx'[t].phase = "open" /\ tx'[t].audits = {} /\ tx'[t].pending = {}
    BY <1>0, BeginEffect, Zenon
  <1>2. ~tx'[t].reconciled
    <2>1. ~IdleTx.reconciled
      BY DEF IdleTx
    <2>2. tx'[t] = [IdleTx EXCEPT !.phase = "open", !.seenMark = mark, !.seenFloor = floor]
      BY <1>0 DEF Begin, TypeOK
    <2> QED
      BY <2>1, <2>2, IdleType, Zenon, SMTT(20) DEF TxType
  <1>3. Faithful(tx'[t], rows \ tx'[t].dels)
    BY <1>1, <1>2, Zenon DEF Faithful
  <1>4. \A u \in Txs : tx[u].phase = "idle"
    BY DEF Begin
  <1> QED
    BY <1>1, <1>3, <1>4, LocalKeepsSolo, Zenon

LEMMA EndSolo ==
  ASSUME SoloInv, UniqueInv', NEW t \in Txs, TtLeave(t) \/ Abort(t)
  PROVE  SoloInv'
  <1>0. TypeOK
    BY Zenon, SMTT(20) DEF SoloInv, UniqueInv, ClockInv
  <1>1. Release(t) /\ UNCHANGED <<store, history, running, hwm>> /\ tx[t].phase # "idle"
    BY DEF TtLeave, Abort
  <1>2. Local(t) /\ tx'[t].phase \notin Live
    BY <1>0, <1>1, ReleaseEffect, IdleType DEF Local, store, history, Live
  <1> QED
    BY <1>1, <1>2, LocalKeepsSolo, Zenon, SMTT(20)

\* The commit of the one transaction there is, up to its release.
LEMMA ApplySolo ==
  ASSUME SoloInv, UniqueInv', NEW t \in Txs, TtCommit(t) \/ CommitPlain(t)
  PROVE  Erasure'
  <1>0. TypeOK /\ ClockInv /\ Erasure /\ Faithful(tx[t], rows \ tx[t].dels)
    BY DEF SoloInv, UniqueInv, ClockInv, TtCommit, CommitPlain, Live
  <1> DEFINE V == rows \ tx[t].dels
             evicted == {r \in ledger : /\ \E a \in tx[t].audits : a.key = r.key
                                        /\ r \notin V}
  <1>1. /\ rows' = V \cup tx[t].puts
        /\ ledger' = (ledger \ evicted) \cup tx[t].puts
        /\ erased' = erased \cup {<<r.key, r.tt>> : r \in evicted}
    BY Zenon, SMTT(20) DEF TtCommit, CommitPlain, Apply
  <1>2. \A r \in V : \A a \in tx[t].audits : r.key # a.key
    BY <1>0 DEF Faithful
  <1>3. /\ V \subseteq ledger
        /\ \A r \in evicted : r \in ledger /\ \E a \in tx[t].audits : a.key = r.key
    BY <1>0, Zenon DEF Erasure
  <1>4. /\ mark \in Nat /\ mark' \in Nat
        /\ \A r \in ledger : r.tt \in Nat /\ 0 < r.tt /\ r.tt <= mark
        /\ \A e \in erased : e[2] \in Nat /\ 0 < e[2] /\ e[2] <= mark
    <2>1. \A e \in erased : e[2] \in Nat
      BY <1>0, TimesFacts, Zenon, SMTT(20) DEF TypeOK
    <2>2. mark' \in Nat
      BY TimeFactsNext DEF UniqueInv, ClockInv
    <2> QED
      BY <1>0, <2>1, <2>2, TimeFacts DEF Erasure
  <1>5. mark <= mark' /\ \A p \in tx[t].puts : p.tt \in Nat /\ mark < p.tt /\ p.tt <= mark'
    <2>1. CASE TtCommit(t)
      <3>1. mark' = tx[t].tt /\ mark < tx[t].tt /\ \A p \in tx[t].puts : p.tt = tx[t].tt
        BY <1>0, <2>1 DEF TtCommit, ClockInv, Timed, Allocated
      <3> QED
        BY <1>4, <3>1, SMTT(20), Z3T(20)
    <2>2. CASE CommitPlain(t)
      <3>1. mark' = mark /\ tx[t].puts = {}
        BY <1>0, <2>2, Zenon, SMTT(20) DEF CommitPlain, ClockInv, Timed
      <3> QED
        BY <1>4, <3>1, SMTT(20), Z3T(20)
    <2> QED
      BY <2>1, <2>2
  <1>6. rows' \subseteq ledger'
    BY <1>1, <1>3
  <1>7. \A r \in ledger' : 0 < r.tt /\ r.tt <= mark'
    <2>1. ASSUME NEW r \in ledger' PROVE 0 < r.tt /\ r.tt <= mark'
      <3>1. r \in ledger \/ r \in tx[t].puts
        BY <1>1
      <3> HIDE DEF V, evicted
      <3> QED
        BY <1>4, <1>5, <3>1, SMTT(20), Z3T(20)
    <2> QED
      BY <2>1
  <1> HIDE DEF evicted
  <1>8. \A e \in erased' : e \in erased \/ \E r \in evicted : e = <<r.key, r.tt>>
    BY <1>1, Zenon
  <1> HIDE DEF V
  <1>9. ASSUME NEW e \in erased' PROVE 0 < e[2] /\ e[2] <= mark'
    <2>1. CASE e \in erased
      BY <1>4, <1>5, <2>1, SMTT(20), Z3T(20)
    <2>2. CASE \E r \in evicted : e = <<r.key, r.tt>>
      <3>1. PICK r \in evicted : e = <<r.key, r.tt>>
        BY <2>2
      <3>2. e[2] = r.tt /\ r \in ledger
        BY <1>3, <3>1
      <3> QED
        BY <1>4, <1>5, <3>2, SMTT(20), Z3T(20)
    <2> QED
      BY <1>8, <1>9, <2>1, <2>2, Zenon
  <1>10. ASSUME NEW r \in rows', <<r.key, r.tt>> \in erased' PROVE FALSE
    <2>1. CASE r \in tx[t].puts
      <3>1. \A e \in erased' : e[2] <= mark
        <4>1. ASSUME NEW e \in erased', NEW s \in evicted, e = <<s.key, s.tt>> PROVE e[2] <= mark
          BY <1>3, <1>4, <4>1, Zenon
        <4> QED
          BY <1>4, <1>8, <4>1, Zenon
      <3>2. <<r.key, r.tt>>[2] = r.tt
        OBVIOUS
      <3>3. r.tt <= mark
        BY <1>10, <3>1, <3>2
      <3> QED
        BY <1>4, <1>5, <2>1, <3>3, SMTT(20), Z3T(20)
    <2>2. CASE r \in V
      <3>1. <<r.key, r.tt>> \notin erased
        BY <1>0, <2>2 DEF Erasure, V
      <3>2. PICK s \in evicted : <<r.key, r.tt>> = <<s.key, s.tt>>
        BY <1>8, <1>10, <3>1, Zenon
      <3>3. r.key = s.key
        BY <3>2
      <3> QED
        BY <1>2, <1>3, <2>2, <3>3, Zenon, SMTT(20)
    <2> QED
      BY <1>1, <1>10, <2>1, <2>2, Zenon
  <1> QED
    BY <1>6, <1>7, <1>9, <1>10 DEF Erasure

LEMMA CommitSolo ==
  ASSUME SoloInv, UniqueInv', NEW t \in Txs, TtCommit(t) \/ CommitPlain(t)
  PROVE  SoloInv'
  <1>0. TypeOK
    BY Zenon DEF SoloInv, UniqueInv, ClockInv
  <1>1. /\ tx[t].phase # "idle" /\ tx'[t].phase \notin Live
        /\ \A u \in Txs \ {t} : tx'[u] = tx[u]
    <2>1. CASE TtCommit(t)
      <3>1. tx[t] \in TxType /\ tx[t].phase = "marked" /\ tx' = [tx EXCEPT ![t].phase = "committed"]
        BY <1>0, <2>1 DEF TtCommit, TypeOK
      <3>2. tx'[t].phase = "committed" /\ \A u \in Txs \ {t} : tx'[u] = tx[u]
        BY <1>0, <3>1 DEF TypeOK, TxType
      <3> QED
        BY <3>1, <3>2 DEF Live
    <2>2. CASE CommitPlain(t)
      BY <1>0, <2>2, ReleaseEffect, IdleType, Zenon DEF CommitPlain, Live
    <2> QED
      BY <2>1, <2>2
  <1>2. \A u \in Txs \ {t} : tx[u].phase = "idle"
    BY <1>1, Zenon DEF SoloInv, Solo
  <1>3. Solo'
    BY <1>1, <1>2, SMTT(20), Z3T(20) DEF Solo
  <1>4. \A u \in Txs : tx'[u].phase \notin Live
    BY <1>1, <1>2 DEF Live
  <1> QED
    BY <1>3, <1>4, ApplySolo, Zenon, SMTT(20) DEF SoloInv

LEMMA SoloStep == Exclusive /\ SoloInv /\ [Next]_vars => SoloInv'
  <1> SUFFICES ASSUME Exclusive, SoloInv, [Next]_vars PROVE SoloInv'
    OBVIOUS
  <1>0. UniqueInv'
    BY UniqueStep DEF SoloInv
  <1>1. CASE UNCHANGED vars
    <2>1. rows' = rows /\ mark' = mark /\ ledger' = ledger /\ erased' = erased /\ tx' = tx
      BY <1>1 DEF vars, store, history
    <2> QED
      BY <1>0, <2>1, Zenon DEF SoloInv, Solo, Erasure
  <1>2. ASSUME NEW t \in Txs,
               Begin(t) \/ Statement(t) \/ CommitPlain(t) \/ TtEnter(t) \/ TtStep(t) \/ Abort(t)
        PROVE  SoloInv'
    BY <1>0, <1>2, BeginSolo, StatementSolo, CommitSolo, SectionSolo, EndSolo, Zenon DEF TtStep
  <1>3. CASE Crash \/ \E now \in Wall : Open(now)
    <2>1. /\ rows' = rows /\ mark' = mark /\ ledger' = ledger /\ erased' = erased
          /\ tx' = tx \/ \A t \in Txs : tx'[t].phase = "idle"
      BY <1>3, IdleType DEF Crash, Open, store, history
    <2>2. CASE tx' = tx
      BY <1>0, <2>1, <2>2, Zenon DEF SoloInv, Solo, Erasure
    <2>3. CASE \A t \in Txs : tx'[t].phase = "idle"
      <3>1. Solo' /\ \A t \in Txs : tx'[t].phase \notin Live
        BY <2>3, Zenon DEF Solo, Live
      <3> QED
        BY <1>0, <2>1, <3>1, Zenon DEF SoloInv, Erasure
    <2> QED
      BY <2>1, <2>2, <2>3, Zenon
  <1> QED
    BY <1>1, <1>2, <1>3, Zenon DEF Next

LEMMA SoloInit == Init => SoloInv
  BY UniqueInit, IdleType DEF Init, SoloInv, Solo, Erasure, Live

\* Stamping the revision after everything stored turns what is believed in V
\* into what was declared.
LEMMA RevisionIsComplete ==
  ASSUME TypeOK, TimesAreUnique, NEW V \in SUBSET rows, NEW n \in Times,
         \A r \in V : r.tt < n, NEW D \in SUBSET Declared,
         \A d, e \in D : SameGroup(d, e) => d = e
  PROVE  Believed(V \cup Stamped(Revision(V, D), n)) = D
  <1> DEFINE S == Stamped(Revision(V, D), n)
             W == V \cup S
             Unmet(d) == \A r \in Current(V) : ~(SameGroup(r, d) /\ r.val = d.val)
             Lost(r) == \A d \in D : ~SameGroup(r, d)
  <1>0. /\ n \in Nat /\ \A r \in V : r.tt \in Nat /\ r.tt < n
        /\ \A d \in D : d = [key |-> d.key, vt |-> d.vt, val |-> d.val]
    BY TimeFacts, TimesFacts, SMTT(20), Z3T(20) DEF Declared
  <1>1. \A q \in S :
          \/ \E d \in D : /\ Unmet(d)
                          /\ q = [key |-> d.key, vt |-> d.vt, tt |-> n, assert |-> TRUE,
                                  val |-> d.val]
          \/ \E r \in Current(V) : /\ Lost(r)
                                   /\ q = [key |-> r.key, vt |-> r.vt, tt |-> n,
                                           assert |-> FALSE, val |-> r.val]
    <2> SUFFICES ASSUME NEW q \in S
                 PROVE  \/ \E d \in D : /\ Unmet(d)
                                        /\ q = [key |-> d.key, vt |-> d.vt, tt |-> n,
                                                assert |-> TRUE, val |-> d.val]
                        \/ \E r \in Current(V) : /\ Lost(r)
                                                 /\ q = [key |-> r.key, vt |-> r.vt, tt |-> n,
                                                         assert |-> FALSE, val |-> r.val]
      OBVIOUS
    <2>1. PICK p \in Revision(V, D) :
            q = [key |-> p.key, vt |-> p.vt, tt |-> n, assert |-> p.assert, val |-> p.val]
      BY Zenon, SMTT(20) DEF Stamped
    <2>2. \/ \E d \in D : /\ Unmet(d)
                          /\ p = [key |-> d.key, vt |-> d.vt, assert |-> TRUE, val |-> d.val,
                                  src |-> NoSource, insert |-> FALSE]
          \/ \E r \in Current(V) : /\ Lost(r)
                                   /\ p = [key |-> r.key, vt |-> r.vt, assert |-> FALSE,
                                           val |-> r.val, src |-> r.tt, insert |-> FALSE]
      BY RevisionParts, SMTT(20), Z3T(20)
    <2>3. CASE \E d \in D : /\ Unmet(d)
                            /\ p = [key |-> d.key, vt |-> d.vt, assert |-> TRUE, val |-> d.val,
                                    src |-> NoSource, insert |-> FALSE]
      <3>1. PICK d \in D : /\ Unmet(d)
                           /\ p = [key |-> d.key, vt |-> d.vt, assert |-> TRUE, val |-> d.val,
                                   src |-> NoSource, insert |-> FALSE]
        BY <2>3, Zenon
      <3>2. q = [key |-> d.key, vt |-> d.vt, tt |-> n, assert |-> TRUE, val |-> d.val]
        BY <2>1, <3>1
      <3> QED
        BY <3>1, <3>2, Zenon
    <2>4. CASE \E r \in Current(V) : /\ Lost(r)
                                     /\ p = [key |-> r.key, vt |-> r.vt, assert |-> FALSE,
                                             val |-> r.val, src |-> r.tt, insert |-> FALSE]
      <3>1. PICK r \in Current(V) : /\ Lost(r)
                                    /\ p = [key |-> r.key, vt |-> r.vt, assert |-> FALSE,
                                            val |-> r.val, src |-> r.tt, insert |-> FALSE]
        BY <2>4, Zenon, SMTT(20)
      <3>2. q = [key |-> r.key, vt |-> r.vt, tt |-> n, assert |-> FALSE, val |-> r.val]
        BY <2>1, <3>1
      <3> QED
        BY <3>1, <3>2, Zenon
    <2> QED
      BY <2>2, <2>3, <2>4, Zenon, SMTT(20)
  <1>2. ASSUME NEW d \in D, Unmet(d)
        PROVE  [key |-> d.key, vt |-> d.vt, tt |-> n, assert |-> TRUE, val |-> d.val] \in S
    <2> DEFINE p == [key |-> d.key, vt |-> d.vt, assert |-> TRUE, val |-> d.val,
                     src |-> NoSource, insert |-> FALSE]
    <2>1. p \in Revision(V, D)
      BY <1>2, RevisionParts, Zenon, SMTT(20)
    <2>2. /\ p.key = d.key /\ p.vt = d.vt /\ p.assert = TRUE /\ p.val = d.val
      OBVIOUS
    <2> HIDE DEF p
    <2>3. [key |-> p.key, vt |-> p.vt, tt |-> n, assert |-> p.assert, val |-> p.val] \in S
      BY <2>1, Zenon DEF Stamped
    <2> QED
      BY <2>2, <2>3, Zenon
  <1>3. ASSUME NEW r \in Current(V), Lost(r)
        PROVE  [key |-> r.key, vt |-> r.vt, tt |-> n, assert |-> FALSE, val |-> r.val] \in S
    <2> DEFINE p == [key |-> r.key, vt |-> r.vt, assert |-> FALSE, val |-> r.val,
                     src |-> r.tt, insert |-> FALSE]
    <2>1. p \in Revision(V, D)
      BY <1>3, RevisionParts, Zenon, SMTT(20)
    <2>2. /\ p.key = r.key /\ p.vt = r.vt /\ p.assert = FALSE /\ p.val = r.val
      OBVIOUS
    <2> HIDE DEF p
    <2>3. [key |-> p.key, vt |-> p.vt, tt |-> n, assert |-> p.assert, val |-> p.val] \in S
      BY <2>1, Zenon DEF Stamped
    <2> QED
      BY <2>2, <2>3, Zenon
  <1> HIDE DEF S
  <1>4. ASSUME NEW r \in Current(W)
        PROVE  \E d \in D : SameGroup(r, d) /\ r.val = d.val
    <2>1. r \in W /\ r.assert /\ \A s \in W : ~Supersedes(s, r)
      BY <1>4, Zenon, SMTT(20) DEF Current
    <2>2. CASE r \in S
      BY <1>1, <2>1, <2>2, SMTT(20), Z3T(20) DEF SameGroup
    <2>3. CASE r \in V
      <3>1. r \in Current(V) /\ r.tt \in Nat /\ r.tt < n
        BY <1>0, <2>1, <2>3, Zenon, SMTT(20) DEF Current
      <3>2. \A q \in S : SameGroup(q, r) => q.tt # n
        BY <1>0, <2>1, <3>1 DEF Supersedes
      <3>3. PICK d \in D : SameGroup(r, d)
        <4>1. CASE Lost(r)
          <5>1. [key |-> r.key, vt |-> r.vt, tt |-> n, assert |-> FALSE, val |-> r.val] \in S
            BY <1>3, <3>1, <4>1, Zenon
          <5> QED
            BY <3>2, <5>1, Zenon, SMTT(20) DEF SameGroup
        <4> QED
          BY <4>1
      <3>4. ~Unmet(d)
        <4>1. CASE Unmet(d)
          <5>1. [key |-> d.key, vt |-> d.vt, tt |-> n, assert |-> TRUE, val |-> d.val] \in S
            BY <1>2, <4>1, Zenon
          <5> QED
            BY <3>2, <3>3, <5>1 DEF SameGroup
        <4> QED
          BY <4>1, Zenon, SMTT(20)
      <3>5. PICK c \in Current(V) : SameGroup(c, d) /\ c.val = d.val
        BY <3>4, Zenon
      <3>6. c \in V /\ c.assert /\ ~Supersedes(r, c) /\ ~Supersedes(c, r) /\ SameGroup(r, c)
        BY <2>1, <2>3, <3>3, <3>5, Zenon, SMTT(20) DEF Current, SameGroup
      <3>7. r = c
        BY <2>1, <2>3, <3>6, OneLatest
      <3> QED
        BY <3>3, <3>5, <3>7, Zenon
    <2> QED
      BY <2>1, <2>2, <2>3, Zenon
  <1>5. ASSUME NEW d \in D
        PROVE  \E r \in Current(W) : SameGroup(r, d) /\ r.val = d.val
    <2>1. CASE Unmet(d)
      <3> DEFINE q == [key |-> d.key, vt |-> d.vt, tt |-> n, assert |-> TRUE, val |-> d.val]
      <3>1. q \in W /\ q.assert /\ q.tt = n /\ SameGroup(q, d) /\ q.val = d.val
        BY <1>2, <2>1, Zenon, SMTT(20) DEF SameGroup
      <3> HIDE DEF q
      <3>2. ASSUME NEW s \in W PROVE ~Supersedes(s, q)
        <4>1. s.tt \in Nat /\ s.tt <= n
          <5>1. CASE s \in V
            BY <1>0, <5>1, SMTT(20), Z3T(20)
          <5>2. CASE s \in S
            <6>1. s.tt = n
              BY <1>1, <5>2, SMTT(20), Z3T(20)
            <6> QED
              BY <1>0, <6>1, SMTT(20), Z3T(20)
          <5> QED
            BY <5>1, <5>2, Zenon
        <4> QED
          BY <1>0, <3>1, <4>1, SMTT(20), Z3T(20) DEF Supersedes
      <3>3. q \in Current(W)
        BY <3>1, <3>2 DEF Current
      <3> QED
        BY <3>1, <3>3, Zenon, SMTT(20)
    <2>2. CASE ~Unmet(d)
      <3>1. PICK c \in Current(V) : SameGroup(c, d) /\ c.val = d.val
        BY <2>2
      <3>2. c \in V /\ c.assert /\ \A s \in V : ~Supersedes(s, c)
        BY <3>1 DEF Current
      <3>3. ASSUME NEW s \in S PROVE ~SameGroup(s, c)
        <4>1. CASE \E e \in D : /\ Unmet(e)
                                /\ s = [key |-> e.key, vt |-> e.vt, tt |-> n, assert |-> TRUE,
                                        val |-> e.val]
          <5>1. PICK e \in D : Unmet(e) /\ s.key = e.key /\ s.vt = e.vt
            BY <4>1, SMTT(20), Z3T(20)
          <5>2. SameGroup(s, c) => e = d
            BY <3>1, <5>1, Zenon DEF SameGroup
          <5> QED
            BY <3>1, <5>1, <5>2, Zenon, SMTT(20)
        <4>2. CASE \E r \in Current(V) : /\ Lost(r)
                                         /\ s = [key |-> r.key, vt |-> r.vt, tt |-> n,
                                                 assert |-> FALSE, val |-> r.val]
          <5>1. PICK r \in Current(V) : Lost(r) /\ s.key = r.key /\ s.vt = r.vt
            BY <4>2, SMTT(20), Z3T(20)
          <5>2. ~SameGroup(r, d)
            BY <5>1
          <5> QED
            BY <3>1, <5>1, <5>2, Zenon, SMTT(20) DEF SameGroup
        <4> QED
          BY <1>1, <4>1, <4>2, Zenon
      <3>4. c \in Current(W)
        BY <3>2, <3>3, Zenon DEF Current, Supersedes
      <3> QED
        BY <3>1, <3>4
    <2> QED
      BY <2>1, <2>2, Zenon
  <1> HIDE DEF W
  <1>6. ASSUME NEW b \in Believed(W) PROVE b \in D
    <2>1. PICK r \in Current(W) : b = [key |-> r.key, vt |-> r.vt, val |-> r.val]
      BY <1>6, Zenon DEF Believed
    <2>2. PICK d \in D : SameGroup(r, d) /\ r.val = d.val
      BY <1>4, Zenon, SMTT(20)
    <2>3. b = [key |-> d.key, vt |-> d.vt, val |-> d.val]
      BY <2>1, <2>2 DEF SameGroup
    <2> QED
      BY <1>0, <2>3
  <1>7. ASSUME NEW d \in D PROVE d \in Believed(W)
    <2>1. PICK r \in Current(W) : SameGroup(r, d) /\ r.val = d.val
      BY <1>5, Zenon
    <2>2. d = [key |-> r.key, vt |-> r.vt, val |-> r.val]
      BY <1>0, <2>1 DEF SameGroup
    <2> QED
      BY <2>2, Zenon DEF Believed
  <1>8. Believed(W) = D
    BY <1>6, <1>7
  <1> QED
    BY <1>8, Zenon DEF W, S

\* The storage commit is the only step that takes a transaction to "committed".
LEMMA CommitsByCommit ==
  ASSUME TypeOK, [Next]_vars, NEW t \in Txs, Commits(t)
  PROVE  TtCommit(t)
  <1>0. tx[t].phase = "marked" /\ tx'[t].phase = "committed" /\ tx'[t] # tx[t]
    BY Zenon DEF Commits
  <1>1. CASE UNCHANGED vars
    BY <1>0, <1>1, Zenon DEF vars
  <1>2. CASE Crash \/ \E now \in Wall : Open(now)
    <2>1. tx' = tx \/ tx'[t].phase = "idle"
      BY <1>2, IdleType, Zenon DEF Crash, Open
    <2> QED
      BY <1>0, <2>1
  <1>3. ASSUME NEW u \in Txs, u # t,
               Begin(u) \/ Statement(u) \/ CommitPlain(u) \/ TtEnter(u) \/ TtStep(u) \/ Abort(u)
        PROVE  FALSE
    <2>1. CASE Begin(u) \/ Statement(u)
      BY <1>0, <1>3, <2>1, BeginEffect, StatementSplit, BuffersEffect, GcEffect, EvictEffect,
         Zenon DEF Local
    <2>2. CASE CommitPlain(u) \/ TtLeave(u) \/ Abort(u)
      BY <1>0, <1>3, <2>2, ReleaseEffect, Zenon DEF CommitPlain, TtLeave, Abort
    <2>3. CASE TtEnter(u) \/ (\E now \in Wall : TtAdvance(u, now)) \/ TtPutMark(u) \/ TtStamp(u)
      BY <1>0, <1>3, <2>3, SectionEffect, StampEffect, Zenon, SMTT(20) DEF Local
    <2>4. CASE TtCommit(u)
      <3>1. tx'[t] = tx[t]
        BY <1>3, <2>4, Zenon, SMTT(20) DEF TtCommit, TypeOK
      <3> QED
        BY <1>0, <3>1
    <2> QED
      BY <1>3, <2>1, <2>2, <2>3, <2>4, Zenon DEF TtStep
  <1>4. CASE Begin(t) \/ Statement(t) \/ TtEnter(t) \/ \E now \in Wall : TtAdvance(t, now)
    <2>1. tx[t].phase \in {"idle", "open", "locked"}
      BY <1>4, StatementSplit, BuffersEffect, GcEffect, EvictEffect
         DEF Begin, TtEnter, TtAdvance
    <2> QED
      BY <1>0, <2>1, Zenon
  <1>5. CASE CommitPlain(t) \/ TtStamp(t) \/ TtPutMark(t) \/ TtLeave(t)
    BY <1>0, <1>5, Zenon DEF CommitPlain, TtStamp, TtPutMark, TtLeave
  <1>6. CASE Abort(t)
    BY <1>0, <1>6, ReleaseEffect, IdleType, Zenon DEF Abort
  <1> QED
    BY <1>1, <1>2, <1>3, <1>4, <1>5, <1>6, Zenon DEF Next, TtStep

\* Where the engine admits one write transaction at a time (mem, sqlite), an
\* :insert is committed only where no belief stands that it would overwrite,
\* although the belief was looked up when the statement ran and the row is
\* stamped at commit.
THEOREM InsertOverwritesNothing ==
  ASSUME Exclusive
  PROVE  Spec => InsertFindsNothing
  <1> DEFINE Found(t) == Commits(t) => \A p \in tx[t].pending :
                           p.insert => \A r \in Current(rows \ tx[t].dels) : r.key # p.key
  <1>1. SoloInv /\ [Next]_vars => \A t \in Txs : Found(t)
    <2> SUFFICES ASSUME SoloInv, NEW t \in Txs, Commits(t) PROVE Found(t)
      OBVIOUS
    <2>1. Faithful(tx[t], rows \ tx[t].dels)
      BY DEF SoloInv, Commits, Live
    <2> QED
      BY <2>1, Zenon DEF Faithful
  <1>2. Exclusive
    OBVIOUS
  <1> QED
    BY <1>1, <1>2, SoloInit, SoloStep, PTL DEF Spec, InsertFindsNothing

\* There, what ::evict erased stays erased: no committed row is one that :rm,
\* :update or :reconcile copied from an evicted record, its own transaction's
\* evictions included.
THEOREM ErasureIsFinal ==
  ASSUME Exclusive
  PROVE  Spec => EvictedStaysEvicted
  <1> DEFINE Gone(t) == Commits(t) => \A p \in tx[t].pending : <<p.key, p.src>> \notin erased'
  <1>1. SoloInv /\ [Next]_vars => \A t \in Txs : Gone(t)
    <2> SUFFICES ASSUME SoloInv, [Next]_vars, NEW t \in Txs, Commits(t),
                        NEW p \in tx[t].pending, <<p.key, p.src>> \in erased'
                 PROVE  FALSE
      BY Zenon
    <2>0. TypeOK /\ Erasure'
      BY SoloStep, Zenon DEF SoloInv, UniqueInv, ClockInv
    <2>1. Faithful(tx[t], rows \ tx[t].dels)
      BY DEF SoloInv, Commits, Live
    <2>2. rows \ tx[t].dels \subseteq rows'
      BY <2>0, CommitsByCommit DEF TtCommit, Apply
    <2>3. CASE p.src = NoSource
      <3>1. <<p.key, p.src>>[2] = 0
        BY <2>3 DEF NoSource
      <3>2. ~(0 < 0)
        BY SMTT(20), Z3T(20)
      <3> QED
        BY <2>0, <3>1, <3>2, Zenon DEF Erasure
    <2>4. CASE \E r \in rows \ tx[t].dels : r.key = p.key /\ r.tt = p.src
      BY <2>0, <2>2, <2>4, Zenon DEF Erasure
    <2> QED
      BY <2>1, <2>3, <2>4, Zenon DEF Faithful
  <1>2. Exclusive
    OBVIOUS
  <1> QED
    BY <1>1, <1>2, SoloInit, SoloStep, PTL DEF Spec, EvictedStaysEvicted

\* There, a committed :reconcile leaves exactly the belief it declared: every
\* declared row is believed, with the declared value, and nothing else is,
\* whatever its transaction collected between the statement and the commit.
THEOREM ReconcileLeavesDeclared ==
  ASSUME Exclusive
  PROVE  Spec => ReconcileIsComplete
  <1> DEFINE Complete(t) == Commits(t) /\ tx[t].reconciled /\ tx[t].audits = {} =>
                              Believed(rows') = tx[t].declared
  <1>1. SoloInv /\ [Next]_vars => \A t \in Txs : Complete(t)
    <2> SUFFICES ASSUME SoloInv, [Next]_vars, NEW t \in Txs, Commits(t),
                        tx[t].reconciled, tx[t].audits = {}
                 PROVE  Believed(rows') = tx[t].declared
      BY Zenon
    <2>0. TypeOK /\ ClockInv /\ TimesAreUnique
      BY DEF SoloInv, UniqueInv, ClockInv
    <2> DEFINE V == rows \ tx[t].dels
               D == tx[t].declared
    <2>1. tx[t].phase = "marked"
      BY Zenon DEF Commits
    <2>2. Faithful(tx[t], V)
      BY <2>1, Zenon, SMTT(20) DEF SoloInv, Live
    <2>3. /\ tx[t].puts = Stamped(Revision(V, D), tx[t].tt)
          /\ \A d, e \in D : SameGroup(d, e) => d = e
      BY <2>1, <2>2 DEF Faithful
    <2>4. rows' = V \cup tx[t].puts
      BY <2>0, CommitsByCommit, Zenon DEF TtCommit, Apply
    <2>5. /\ V \in SUBSET rows /\ D \in SUBSET Declared /\ tx[t].tt \in Times
      BY <2>0, Zenon, SMTT(20) DEF TypeOK, TxType
    <2>6. \A r \in V : r.tt < tx[t].tt
      <3>1. mark < tx[t].tt /\ \A r \in rows : r.tt <= mark
        BY <2>0, <2>1 DEF ClockInv, Timed, Allocated, MarkCoversCommits
      <3> QED
        BY <2>0, <2>5, <3>1, TimeFacts, SMTT(20), Z3T(20)
    <2> HIDE DEF V, D
    <2>7. Believed(V \cup Stamped(Revision(V, D), tx[t].tt)) = D
      BY <2>0, <2>3, <2>5, <2>6, RevisionIsComplete, Zenon
    <2> QED
      BY <2>3, <2>4, <2>7, Zenon DEF D
  <1>2. Exclusive
    OBVIOUS
  <1> QED
    BY <1>1, <1>2, SoloInit, SoloStep, PTL DEF Spec, ReconcileIsComplete

=============================================================================
