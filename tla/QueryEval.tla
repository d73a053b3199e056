------------------------------ MODULE QueryEval -----------------------------
(***************************************************************************)
(* One read query through run_query (runtime/db.rs): normalisation,        *)
(* stratification, magic sets, then the stratified semi-naive evaluation   *)
(* of query/eval.rs epoch by epoch, and the rows returned.  The rules of   *)
(* an epoch read the stores as they were before it, so their order and     *)
(* their parallel execution do not matter and an epoch is one step.  The    *)
(* epoch is 0 at first, then its parity.                                   *)
(***************************************************************************)
EXTENDS NormalForm, MagicSets, TempStore

CONSTANTS Queries,      \* records [prog, edb, limit, offset, sort]
          BoundedCap    \* BOUNDED_MEET_MAX_EPOCHS

VARIABLES query, phase, plan, lifetimes, stratum, epoch, stores, limiter, changedEpochs, budget, answer

vars == <<query, phase, plan, lifetimes, stratum, epoch, stores, limiter, changedEpochs, budget, answer>>

NoLimit == -1

Init == /\ query \in Queries
        /\ phase = "parsed"
        /\ plan = query.prog
        /\ lifetimes = <<>> /\ stratum = 0 /\ epoch = 0 /\ stores = <<>>
        /\ limiter = [counter |-> 0, used |-> FALSE]
        /\ changedEpochs = 0
        /\ budget = 0
        /\ answer = {}

-----------------------------------------------------------------------------
(* Relational algebra: a body is folded over sets of variable bindings,    *)
(* left to right, whichever join a base relation is read with.             *)

\* Equality of the language crosses number types; joins do not.
OpEq(a, b) == a = b \/ ({a, b} \subseteq Numerics /\ a % 10 = b % 10)
ValueOf(s, arg) == IF IsConst(arg) THEN Val(arg) ELSE s[arg]
Agrees(s, args, t) == \A i \in DOMAIN args : args[i] \in DOMAIN s => s[args[i]] = t[i]
Bind(args, t) == [v \in ToSet(args) |-> t[CHOOSE i \in DOMAIN args : args[i] = v]]

JoinAtom(rows, bindings, a) ==
  CASE a.t \in {"rule", "rel"} ->
         {b[1] @@ Bind(a.args, b[2]) :
            b \in {p \in bindings \X rows : Agrees(p[1], a.args, p[2])}}
    [] a.t \in {"nrule", "nrel"} -> {s \in bindings : ~\E t \in rows : Agrees(s, a.args, t)}
    [] a.t = "unif" ->
         LET free == {s \in bindings : a.args[1] \notin DOMAIN s}
         IN {s @@ (a.args[1] :> ValueOf(s, a.args[2])) : s \in free}
              \cup {s \in bindings \ free : OpEq(s[a.args[1]], ValueOf(s, a.args[2]))}
    [] a.t = "eq" -> {s \in bindings : OpEq(ValueOf(s, a.args[1]), ValueOf(s, a.args[2]))}
    [] a.t = "neq" -> {s \in bindings : ~OpEq(ValueOf(s, a.args[1]), ValueOf(s, a.args[2]))}

\* The bindings of a rule, with `delta` read as its delta (NoDelta: nothing is).
NoDelta == Muggle("")
RuleIter(rule, delta) ==
  LET Source(a) == CASE a.t \in {"rel", "nrel"} -> query.edb[a.name.inner]
                     [] a.t = "rule" /\ a.name = delta -> Delta(stores[a.name])
                     [] IsApply(a) -> stores[a.name].total
                     [] OTHER -> {}
  IN FoldLeft(LAMBDA bs, a : JoinAtom(Source(a), bs, a), {<<>>}, rule.body)

HeadRow(rule, s) == [i \in DOMAIN rule.head |-> s[rule.head[i]]]
Rows(rule, delta) == {HeadRow(rule, s) : s \in RuleIter(rule, delta)}

-----------------------------------------------------------------------------
(* Aggregation kinds, by the first rule of a set.                          *)
AggrsLast(aggr) == \A i, j \in DOMAIN aggr : i < j /\ aggr[i] # "none" => aggr[j] # "none"
BoundedMisplaced(rs) ==
  LET aggr == rs.rules[1].aggr
  IN /\ ~rs.fixed
     /\ \E i \in DOMAIN aggr : aggr[i] \in BoundedAggrs
     /\ ~(Last(aggr) \in BoundedAggrs /\ Front(aggr) \in Seq({"none"}))

AggrKind(rs) ==
  LET aggr == rs.rules[1].aggr
      found == ToSet(aggr) \ {"none"}
  IN CASE rs.fixed -> "none"
       [] found = {} -> "none"
       [] found \cap BoundedAggrs # {} -> Last(aggr)
       [] found \subseteq MeetAggrs /\ AggrsLast(aggr) -> Last(aggr)
       [] OTHER -> "normal"

StoreKind(rs) == IF AggrKind(rs) = "normal" THEN "none" ELSE AggrKind(rs)

-----------------------------------------------------------------------------
(* The limiter is consulted by the entry rule only.                        *)
NumToTake == IF query.limit = NoLimit \/ query.sort THEN NoLimit ELSE query.limit + query.offset
NumToSkip == IF query.sort THEN 0 ELSE query.offset
Limited(k) == NumToTake # NoLimit /\ k = Muggle(Entry)

\* Put a row, flagged while the rows to skip are not used up, count it, stop
\* at the limit.  `known` rows are passed over without being counted.
LimitedPut(out, row, known) ==
  IF out.stop \/ row \in known THEN out
  ELSE [rows |-> out.rows \cup {row},
        charged |-> out.charged + PutCharge("none", out.rows, row),
        skipped |-> IF NumToSkip > out.counter THEN out.skipped \cup {row}
                                               ELSE out.skipped \ {row},
        counter |-> out.counter + 1,
        stop |-> out.counter + 1 >= NumToTake]

NothingOut == [rows |-> {}, charged |-> 0, skipped |-> {}, counter |-> limiter.counter, stop |-> FALSE]

\* The bindings in the order the joins produce them: by the values of the
\* variables, in the order the body binds these.
InOrder(rule, bindings) ==
  LET order == FoldLeft(LAMBDA seen, a : seen \o SelectSeq(a.args, LAMBDA v : v \notin ToSet(seen) /\ IsVar(v)),
                        <<>>, rule.body)
      Key(s) == FoldLeft(LAMBDA n, v : 100 * n + IF v \in DOMAIN s THEN s[v] ELSE 0, 0, order)
      keys == Ascending({Key(s) : s \in bindings})
  IN [i \in DOMAIN keys |-> CHOOSE s \in bindings : Key(s) = keys[i]]

\* Fold the bindings of every run of every rule into a limited store.
LimitedRuns(rules, deltasOf(_), Known(_)) ==
  LET OneRun(rule, delta, out) ==
        FoldLeft(LAMBDA o, s : LimitedPut(o, HeadRow(rule, s), Known(o)), out,
                 InOrder(rule, RuleIter(rule, delta)))
      OneRule(out, rule) == FoldSet(LAMBDA d, o : OneRun(rule, d, o), out, deltasOf(rule))
  IN FoldLeft(OneRule, NothingOut, rules)

Plain(rows) == [NothingOut EXCEPT !.rows = rows, !.charged = CostOf("none", rows)]

\* The runs of every rule put into an aggregating store, in order.
Aggregating(kind, rules, deltasOf(_)) ==
  LET OnePut(out, t) == [out EXCEPT !.rows = Put(kind, @, t),
                                    !.charged = @ + PutCharge(kind, out.rows, t)]
      OneRun(rule, delta, out) ==
        FoldLeft(LAMBDA o, s : OnePut(o, HeadRow(rule, s)), out, InOrder(rule, RuleIter(rule, delta)))
      OneRule(out, rule) == FoldSet(LAMBDA d, o : OneRun(rule, d, o), out, deltasOf(rule))
  IN FoldLeft(OneRule, NothingOut, rules)

-----------------------------------------------------------------------------
InitialNonAggr(k, rs) ==
  IF Limited(k) THEN LimitedRuns(rs.rules, LAMBDA r : {NoDelta}, LAMBDA o : o.rows)
  ELSE Plain(UNION {Rows(rs.rules[i], NoDelta) : i \in DOMAIN rs.rules})

\* A meet over no rows at all, without grouping columns, is the unit row.
InitialMeet(rs, kind) ==
  LET out == Aggregating(kind, rs.rules, LAMBDA r : {NoDelta})
      unit == [i \in DOMAIN rs.rules[1].aggr |-> IF kind = "union" THEN 0 ELSE Null]
  IN IF kind \in MeetAggrs /\ out.rows = {} /\ "none" \notin ToSet(rs.rules[1].aggr)
     THEN [out EXCEPT !.rows = {unit}, !.charged = Cost(kind, unit)] ELSE out

\* Ordinary aggregation: bindings are grouped by the columns not aggregated.
Aggregated(aggr, values) ==
  CASE aggr = "count" -> Cardinality(values)
    [] aggr = "min" -> IF values = {} THEN Null ELSE Min({v[2] : v \in values})

InitialNormalAggr(k, rs) ==
  LET aggr == rs.rules[1].aggr
      keys == {i \in DOMAIN aggr : aggr[i] = "none"}
      items == UNION {{<<HeadRow(rs.rules[i], s), i, s>> : s \in RuleIter(rs.rules[i], NoDelta)} :
                        i \in DOMAIN rs.rules}
      Out(group) == [i \in DOMAIN aggr |->
                       IF i \in keys THEN group[i]
                       ELSE Aggregated(aggr[i], {<<<<x[2], x[3]>>, x[1][i]>> :
                               x \in {y \in items : \A j \in keys : y[1][j] = group[j]}})]
      groups == {[j \in keys |-> x[1][j]] : x \in items}
      rows == {Out(g) : g \in groups}
      unit == {[i \in DOMAIN aggr |-> Aggregated(aggr[i], {})]}
  IN IF items = {} /\ keys = {} THEN Plain(unit)
     ELSE IF Limited(k)
     THEN FoldSet(LAMBDA t, o : LimitedPut(o, t, o.rows), NothingOut, rows)
     ELSE Plain(rows)

\* A fixed rule sees its whole argument: here, the pairs that are not in it.
FixedRun(rs) ==
  Plain({t \in {1, 2, 3} \X {1, 2, 3} : \A n \in rs.args : t \notin stores[n].total})

InitialOut(k, rs) ==
  CASE rs.fixed -> FixedRun(rs)
    [] AggrKind(rs) = "none" -> InitialNonAggr(k, rs)
    [] AggrKind(rs) = "normal" -> InitialNormalAggr(k, rs)
    [] OTHER -> InitialMeet(rs, AggrKind(rs))

-----------------------------------------------------------------------------
(* Later epochs: a rule is run once per delta it contains, or completely   *)
(* when a changed store occurs in it more than once.                       *)
ContainedRules(rule) == {rule.body[i].name : i \in {j \in DOMAIN rule.body : IsApply(rule.body[j])}}
Many(rule, n) == \E i, j \in DOMAIN rule.body :
                   i < j /\ IsApply(rule.body[i]) /\ IsApply(rule.body[j])
                   /\ rule.body[i].name = n /\ rule.body[j].name = n

Deltas(rule) ==
  LET changed == {n \in ContainedRules(rule) : HasDelta(stores[n])}
  IN CASE changed = {} -> {}
       [] \E n \in changed : Many(rule, n) -> {NoDelta}
       [] OTHER -> ContainedRules(rule)

IncrementalRows(rs) ==
  UNION {UNION {Rows(rs.rules[i], d) : d \in Deltas(rs.rules[i])} : i \in DOMAIN rs.rules}

IncrementalOut(k, rs) ==
  CASE rs.fixed \/ AggrKind(rs) = "normal" -> Plain({})
    [] AggrKind(rs) # "none" -> Aggregating(AggrKind(rs), rs.rules, Deltas)
    [] Limited(k) -> LimitedRuns(rs.rules, Deltas, LAMBDA o : stores[k].total)
    [] OTHER -> Plain(IncrementalRows(rs) \ stores[k].total)

-----------------------------------------------------------------------------
Refuse == phase' = "refused" /\ UNCHANGED <<query, plan, lifetimes, stratum, epoch, stores, limiter, changedEpochs, budget, answer>>

DoNormalize ==
  /\ phase = "parsed"
  /\ \E n \in {NormalizeProgram(plan, query.limit = NoLimit \/ query.sort)} :
       IF n.ok
       THEN /\ phase' = "normal" /\ plan' = n.prog
            /\ UNCHANGED <<query, lifetimes, stratum, epoch, stores, limiter, changedEpochs, budget, answer>>
       ELSE Refuse

DoStratify ==
  /\ phase = "normal"
  /\ \E s \in {IntoStratifiedProgram(plan)} :
       IF s.ok
       THEN /\ phase' = "stratified" /\ plan' = s.strata /\ lifetimes' = s.lifetimes
            /\ UNCHANGED <<query, stratum, epoch, stores, limiter, changedEpochs, budget, answer>>
       ELSE Refuse

DoRewrite ==
  /\ phase = "stratified"
  /\ phase' = "compiled"
  /\ plan' = MagicSetsRewrite(plan)
  /\ UNCHANGED <<query, lifetimes, stratum, epoch, stores, limiter, changedEpochs, budget, answer>>

\* Drop the stores that have outlived their use, open the stratum's own.
Kept(s) == {k \in DOMAIN stores : /\ k.tag = "muggle" /\ k.inner \in DOMAIN lifetimes
                                  /\ lifetimes[k.inner] >= s}

ChargedOf(ks) == MapThenSumSet(LAMBDA k : stores[k].chargedTotal + stores[k].chargedDelta, ks)

EnterStratum ==
  /\ phase = "compiled"
  /\ IF \E k \in DOMAIN plan[stratum + 1] : BoundedMisplaced(plan[stratum + 1][k])
     THEN Refuse
     ELSE /\ phase' = "epoch" /\ stratum' = stratum + 1 /\ epoch' = 0
          /\ stores' = [k \in DOMAIN plan[stratum + 1] |-> NewStore(StoreKind(plan[stratum + 1][k]))]
                         @@ [k \in IF stratum = 0 THEN {} ELSE Kept(stratum) |-> stores[k]]
          /\ limiter' = [counter |-> 0, used |-> FALSE]
          /\ changedEpochs' = 0
          /\ budget' = budget - ChargedOf(IF stratum = 0 THEN {} ELSE DOMAIN stores \ Kept(stratum))
          /\ UNCHANGED <<query, plan, lifetimes, answer>>

EpochOut(k, rs) == IF epoch = 0 THEN InitialOut(k, rs) ELSE IncrementalOut(k, rs)

\* Epochs in which a bounded store changed are counted, and no others.
CapReached_OneLater == changedEpochs + 1 > BoundedCap
CapReached == changedEpochs + 1 >= BoundedCap

\* The epoch's rows merged into the stores, and what follows from it.
EpochEnd(prog, out, result) ==
  LET changed == {k \in DOMAIN prog : HasDelta(result[k].store)}
      bounded == \E k \in changed : result[k].store.kind \in BoundedAggrs
      entry == Muggle(Entry)
  IN /\ stores' = [k \in DOMAIN prog |-> result[k].store] @@ stores
     /\ epoch' = IF epoch = 1 THEN 2 ELSE 1
     /\ limiter' = IF entry \in DOMAIN prog /\ Limited(entry) /\ ~prog[entry].fixed
                      /\ (AggrKind(prog[entry]) = "none"
                            \/ (AggrKind(prog[entry]) = "normal" /\ epoch = 0))
                   THEN [counter |-> out[entry].counter, used |-> TRUE] ELSE limiter
     /\ budget' = budget + MapThenSumSet(LAMBDA k : out[k].charged + result[k].net, DOMAIN prog)
     /\ changedEpochs' = IF bounded THEN changedEpochs + 1 ELSE changedEpochs
     /\ phase' = CASE changed # {} /\ bounded /\ CapReached -> "diverged"
                   [] changed # {} -> "epoch"
                   [] stratum = Len(plan) -> "evaluated"
                   [] OTHER -> "compiled"
     /\ UNCHANGED <<query, plan, lifetimes, stratum, answer>>

Epoch ==
  /\ phase = "epoch"
  /\ \E out \in {[k \in DOMAIN plan[stratum] |-> EpochOut(k, plan[stratum][k])]} :
       \E result \in {[k \in DOMAIN out |-> MergeIn(stores[k], out[k])]} :
         EpochEnd(plan[stratum], out, result)

\* The rows returned: the flagged ones are left out after an early return,
\* otherwise the offset and the limit are applied to the whole store.
Return ==
  LET store == stores[Muggle(Entry)]
      n == Cardinality(store.total) - query.offset
      size == IF n < 0 THEN 0 ELSE IF query.limit = NoLimit \/ n < query.limit THEN n ELSE query.limit
  IN /\ phase = "evaluated"
     /\ answer' = IF limiter.used /\ ~query.sort THEN store.total \ store.skipped
                  ELSE CHOOSE T \in kSubset(size, store.total) : TRUE
     /\ phase' = "done"
     /\ UNCHANGED <<query, plan, lifetimes, stratum, epoch, stores, limiter, changedEpochs, budget>>

Next == DoNormalize \/ DoStratify \/ DoRewrite \/ EnterStratum \/ Epoch \/ Return
Spec == Init /\ [][Next]_vars

\* The calling thread does not stop: WF_vars(Next), with its enabledness
\* written out (a step is possible in every phase but the last ones).
Running == phase \notin {"done", "refused", "diverged"}
FairSpec == Spec /\ ([]<>~Running \/ []<><<TRUE>>_vars)
=============================================================================
