----------------------------- MODULE TempStore ------------------------------
(***************************************************************************)
(* The stores of derived rows (runtime/temp_store.rs).  An epoch store     *)
(* keeps the total, the delta of the last epoch and a flag that the total  *)
(* itself is the delta.  Rows are tuples of integers; the last column is   *)
(* the aggregated one in the aggregating kinds.                            *)
(***************************************************************************)
EXTENDS Integers, Sequences, SequencesExt, FiniteSetsExt

CONSTANT K            \* rows per group a top-k aggregate keeps

Null == -1
Group(rows, t) == {r \in rows : Front(r) = Front(t)}

-----------------------------------------------------------------------------
(* Meet aggregates.  min: a null never wins.  union: sets of up to six     *)
(* elements, written as bit masks, grow.                                   *)
Bits(mask) == {b \in {1, 2, 4, 8, 16, 32} : (mask \div b) % 2 = 1}
Union(a, b) == a + MapThenSumSet(LAMBDA x : x, Bits(b) \ Bits(a))

MeetUpdate(kind, held, new) ==
  CASE kind = "union" -> Union(held, new)
    [] kind = "min" -> IF new # Null /\ (held = Null \/ new < held) THEN new ELSE held

MeetPut(kind, rows, t) ==
  LET held == Group(rows, t)
  IN IF held = {} THEN rows \cup {t}
     ELSE (rows \ held) \cup {Append(Front(h), MeetUpdate(kind, Last(h), Last(t))) : h \in held}

\* The k least candidates of a group; the delta twin does not truncate.
BoundedPut(rows, t, unbounded) ==
  LET held == Group(rows, t)
      pos == Cardinality({h \in held : Last(h) < Last(t)})
      worst == CHOOSE h \in held : \A g \in held : Last(g) <= Last(h)
  IN IF t \in rows \/ (~unbounded /\ pos >= K) THEN rows
     ELSE IF ~unbounded /\ Cardinality(held) = K THEN (rows \ {worst}) \cup {t}
     ELSE rows \cup {t}

\* A strict partial order with incomparable values.
Dominates(a, b) == a < b /\ (b - a) % 2 = 0

\* The antichain of a group; the delta twin only removes duplicates.
DominancePut(rows, t, dedupOnly) ==
  LET held == Group(rows, t)
  IN IF t \in rows THEN rows
     ELSE IF dedupOnly THEN rows \cup {t}
     ELSE IF \E h \in held : Dominates(Last(h), Last(t)) THEN rows
     ELSE (rows \ {h \in held : Dominates(Last(t), Last(h))}) \cup {t}

Put(kind, rows, t) == CASE kind \in {"min", "union"} -> MeetPut(kind, rows, t)
                        [] kind = "topk" -> BoundedPut(rows, t, FALSE)
                        [] kind = "pareto" -> DominancePut(rows, t, FALSE)
                        [] OTHER -> rows \cup {t}

\* The row that goes to the delta when t changed the total.
PutDelta_Incoming(kind, delta, total, t) == delta \cup {t}
PutDelta(kind, delta, total, t) ==
  CASE kind \in {"min", "union"} -> delta \cup Group(total, t)
    [] kind = "topk" -> BoundedPut(delta, t, TRUE)
    [] kind = "pareto" -> DominancePut(delta, t, TRUE)
    [] OTHER -> delta \cup {t}

-----------------------------------------------------------------------------
(* The memory budget: what a row is estimated to take, what putting it     *)
(* charges (a meet charges a group when it is new and not when its value   *)
(* grows), and the charges a store holds.                                  *)
Cost(kind, t) == IF kind = "union" THEN 1 + Cardinality(Bits(Last(t))) ELSE 1
CostOf(kind, rows) == MapThenSumSet(LAMBDA t : Cost(kind, t), rows)

PutCharge(kind, rows, t) ==
  CASE kind \in {"topk", "pareto"} -> CostOf(kind, Put(kind, rows, t)) - CostOf(kind, rows)
    [] kind \in {"min", "union"} -> IF Group(rows, t) = {} THEN Cost(kind, t) ELSE 0
    [] OTHER -> IF t \in rows THEN 0 ELSE Cost(kind, t)

-----------------------------------------------------------------------------
\* chargedTotal and chargedDelta are the `charged` fields of the two halves.
NewStore(kind) == [kind |-> kind, total |-> {}, delta |-> {}, useTotal |-> TRUE, skipped |-> {},
                   chargedTotal |-> 0, chargedDelta |-> 0]

Delta(store) == IF store.useTotal THEN store.total ELSE store.delta
HasDelta(store) == Delta(store) # {}

\* The rows of new whose key the total holds already: their charges go.
Duplicates_Kept(store, new) == {}
Duplicates(store, new) ==
  {t \in new : IF store.kind = "none" THEN t \in store.total ELSE Group(store.total, t) # {}}

\* merge_in: a row of new that changes the total goes to the delta; the
\* store after it, and what it does to the budget's counter.
MergeRow(kind, s, total, t) ==
  IF total = s.total THEN s
  ELSE [total |-> total, delta |-> PutDelta(kind, s.delta, total, t)]
MergeRows(store, new) ==
  FoldSet(LAMBDA t, s : MergeRow(store.kind, s, Put(store.kind, s.total, t), t),
          [total |-> store.total, delta |-> {}], new)

Merged(store, out, merged) ==
  LET new == out.rows
      clones == CostOf(store.kind, merged.delta)
      exact == store.kind \in {"topk", "pareto"}
      held == CostOf(store.kind, merged.total) - CostOf(store.kind, store.total)
      dropped == CostOf(store.kind, Duplicates(store, new))
      kept == store.chargedTotal + IF exact THEN held ELSE out.charged - dropped
      cleared == [store EXCEPT !.delta = {}, !.chargedDelta = 0]
  IN IF new = {} THEN [store |-> [cleared EXCEPT !.useTotal = FALSE], net |-> -store.chargedDelta]
     ELSE IF store.total = {}
     THEN [store |-> [cleared EXCEPT !.total = new, !.useTotal = TRUE, !.skipped = out.skipped,
                                     !.chargedTotal = out.charged],
           net |-> -store.chargedDelta]
     ELSE [store |-> [store EXCEPT !.total = merged.total, !.delta = merged.delta,
                                   !.useTotal = FALSE, !.skipped = (@ \ new) \cup out.skipped,
                                   !.chargedTotal = IF kept < 0 THEN 0 ELSE kept,
                                   !.chargedDelta = clones],
           net |-> clones - store.chargedDelta + IF exact THEN held - out.charged ELSE -dropped]
MergeIn(store, out) == Merged(store, out, MergeRows(store, out.rows))
=============================================================================
