-------------------------- MODULE DatalogSemantics --------------------------
(***************************************************************************)
(* What a query means, written without the pipeline: the perfect model of  *)
(* the program as the user wrote it.  Formulas are evaluated over all      *)
(* assignments of the rule's variables; strata are any level function that *)
(* the strict dependencies allow; an aggregate is taken over everything    *)
(* derivable, at the end.                                                  *)
(***************************************************************************)
EXTENDS QueryEval

\* The values of a database, of the fixed rule and of the counts.
Domain(edb) == 1..4 \cup UNION {ToSet(t) : t \in UNION {edb[r] : r \in DOMAIN edb}}

Term(s, arg) == IF IsConst(arg) THEN Val(arg) ELSE s[arg]
Matches(s, args, rows) ==
  \E t \in rows : \A i \in DOMAIN args : args[i] = Wildcard \/ Term(s, args[i]) = t[i]

RECURSIVE Sat(_, _, _, _)
Sat(edb, model, s, f) ==
  CASE f.t = "rel" -> Matches(s, f.args, edb[f.name])
    [] f.t = "rule" -> Matches(s, f.args, model[f.name])
    [] f.t = "and" -> \A i \in DOMAIN f.kids : Sat(edb, model, s, f.kids[i])
    [] f.t = "or" -> \E i \in DOMAIN f.kids : Sat(edb, model, s, f.kids[i])
    [] f.t = "not" -> ~Sat(edb, model, s, f.kids[1])
    [] f.t = "unif" -> Term(s, f.args[1]) = Term(s, f.args[2])
    [] f.t = "eq" -> OpEq(Term(s, f.args[1]), Term(s, f.args[2]))
    [] f.t = "neq" -> ~OpEq(Term(s, f.args[1]), Term(s, f.args[2]))

RECURSIVE AllVars(_)
AllVars(f) == Vars(f) \cup UNION {AllVars(f.kids[i]) : i \in DOMAIN f.kids}

Satisfying(edb, model, rule) ==
  LET body == Node("and", rule.body)
  IN {s \in [AllVars(body) -> Domain(edb)] : Sat(edb, model, s, body)}

\* Everything the rules of a name derive, aggregated columns as they come.
Derived(edb, model, rs) ==
  UNION {{[i \in DOMAIN rs.rules[r].head |-> s[rs.rules[r].head[i]]] :
            s \in Satisfying(edb, model, rs.rules[r])} : r \in DOMAIN rs.rules}

-----------------------------------------------------------------------------
(* Dependencies with the polarity of the formula they occur in.            *)
RECURSIVE Occurs(_, _, _)
Occurs(f, name, positive) ==
  CASE f.t = "rule" -> f.name = name /\ positive
    [] f.t = "not" -> Occurs(f.kids[1], name, ~positive)
    [] OTHER -> \E i \in DOMAIN f.kids : Occurs(f.kids[i], name, positive)

Uses(prog, k, name, positive) ==
  \E r \in DOMAIN prog[k].rules : Occurs(Node("and", prog[k].rules[r].body), name, positive)

DependsOn(prog, k, name) ==
  Uses(prog, k, name, TRUE) \/ Uses(prog, k, name, FALSE) \/ name \in prog[k].args

\* What name must be complete before k is computed: a negation, anything an
\* algorithm or an aggregate reads, and an aggregate or an algorithm that is
\* read.  A lattice aggregate may read itself.
Aggregates(prog, k) == HasAggr(prog[k])
Strictly(prog, k, name) ==
  \/ Uses(prog, k, name, FALSE)
  \/ prog[k].fixed \/ prog[name].fixed
  \/ Aggregates(prog, k) /\ (k # name \/ ~IsMeet(prog[k]))
  \/ IsMeet(prog[name]) /\ k # name

\* The names the entry needs.
RECURSIVE Needed(_, _)
Needed(prog, found) ==
  LET more == {n \in DOMAIN prog : \E k \in found : DependsOn(prog, k, n)} \ found
  IN IF more = {} THEN found ELSE Needed(prog, found \cup more)

Levelings(prog) ==
  LET names == Needed(prog, {Entry})
      loose == {d \in names \X names : DependsOn(prog, d[1], d[2])}
      strict == {d \in loose : Strictly(prog, d[1], d[2])}
  IN {lv \in [names -> 1..Cardinality(names)] :
        /\ \A d \in loose : lv[d[2]] <= lv[d[1]]
        /\ \A d \in strict : lv[d[2]] < lv[d[1]]}

-----------------------------------------------------------------------------
(* The aggregate of everything derived for a name.                         *)
Best(rows, t, aggr) ==
  LET rivals == {r \in Group(rows, t) : r # t}
  IN CASE aggr = "min" -> \A r \in rivals : Last(t) < Last(r)
       [] aggr = "topk" -> Cardinality({r \in rivals : Last(r) < Last(t)}) < K
       [] aggr = "pareto" -> ~\E r \in rivals : Dominates(Last(r), Last(t))

Counted(edb, model, rs) ==
  LET rule == rs.rules[1]
      sat == Satisfying(edb, model, rule)
      Row(s) == [i \in DOMAIN rule.head |-> s[rule.head[i]]]
      keys == {i \in DOMAIN rule.head : rule.aggr[i] = "none"}
  IN IF sat = {} /\ keys = {} THEN {<<0>>}
     ELSE {[i \in DOMAIN rule.head |->
              IF i \in keys THEN Row(s)[i]
              ELSE Cardinality({u \in sat : \A j \in keys : Row(u)[j] = Row(s)[j]})] : s \in sat}

Aggregate(rs, rows) ==
  LET aggr == rs.rules[1].aggr
      a == Last(aggr)
  IN IF a = "none" THEN rows
     ELSE IF a = "min" /\ rows = {} /\ Len(aggr) = 1 THEN {<<Null>>}
     ELSE IF a = "union"
     THEN {Append(Front(t), MapThenSumSet(LAMBDA b : b, UNION {Bits(Last(r)) : r \in Group(rows, t)})) :
             t \in rows}
     ELSE {t \in rows : Best(rows, t, a)}

Means(edb, model, rs) ==
  CASE rs.fixed -> {t \in {1, 2, 3} \X {1, 2, 3} : \A n \in rs.args : t \notin model[n]}
    [] "count" \in ToSet(rs.rules[1].aggr) -> Counted(edb, model, rs)
    [] OTHER -> Derived(edb, model, rs)

RECURSIVE LevelFixpoint(_, _, _, _)
LevelFixpoint(prog, edb, model, names) ==
  LET next == [k \in DOMAIN model |-> IF k \in names THEN Means(edb, model, prog[k]) ELSE model[k]]
  IN IF next = model THEN model ELSE LevelFixpoint(prog, edb, next, names)

RECURSIVE ModelUpTo(_, _, _, _, _)
ModelUpTo(prog, edb, lv, model, level) ==
  LET names == {k \in DOMAIN lv : lv[k] = level}
      full == LevelFixpoint(prog, edb, model, names)
      done == [k \in DOMAIN full |->
                 IF k \in names /\ ~prog[k].fixed /\ "count" \notin ToSet(prog[k].rules[1].aggr)
                 THEN Aggregate(prog[k], full[k]) ELSE full[k]]
  IN IF level > Cardinality(DOMAIN lv) THEN model
     ELSE ModelUpTo(prog, edb, lv, done, level + 1)

PerfectModel(prog, edb, lv) ==
     ModelUpTo(prog, edb, lv, [k \in DOMAIN lv |-> {}], 1)

\* The rounds in which a bounded aggregate improves, from nothing.
RECURSIVE Rounds(_, _, _, _)
Rounds(prog, edb, model, k) ==
  LET next == [model EXCEPT ![k] = Aggregate(prog[k], @ \cup Derived(edb, model, prog[k]))]
  IN IF next = model THEN 0 ELSE 1 + Rounds(prog, edb, next, k)

MostRounds(prog, edb, model) ==
  LET bounded == {k \in DOMAIN model : ~prog[k].fixed /\ Last(prog[k].rules[1].aggr) \in BoundedAggrs}
  IN Max({0} \cup {Rounds(prog, edb, [model EXCEPT ![k] = {}], k) : k \in bounded})

\* A query with its meaning; an unstratifiable program has none.
WithMeaning(q) ==
  LET levelings == Levelings(q.prog)
      ok == levelings # {}
      model == IF ok THEN PerfectModel(q.prog, q.edb, CHOOSE l \in levelings : TRUE) ELSE <<>>
  IN [prog |-> q.prog, edb |-> q.edb, limit |-> q.limit, offset |-> q.offset, sort |-> q.sort,
      stratifiable |-> ok, model |-> model, rounds |-> MostRounds(q.prog, q.edb, model)]

-----------------------------------------------------------------------------
(* Without :limit and :offset a query that ends returns exactly the entry  *)
(* relation of the program's perfect model: normalisation, reordering,     *)
(* magic sets and semi-naive epochs (run_query) lose nothing and add       *)
(* nothing.  With them it returns rows of that relation only.              *)
AnswerIsModel ==
  phase = "done" => /\ answer \subseteq query.model[Entry]
                    /\ query.limit = NoLimit /\ query.offset = 0 => answer = query.model[Entry]

\* The rows :limit and :offset leave of the entry relation, and the entries
\* that read nothing the epochs of their own stratum are still deriving.
Due == LET n == Cardinality(query.model[Entry]) - query.offset
       IN IF n < 0 THEN 0 ELSE IF query.limit = NoLimit \/ n < query.limit THEN n ELSE query.limit
ReadsWhole == \A n \in DOMAIN query.model :
                DependsOn(query.prog, Entry, n) => Strictly(query.prog, Entry, n)

(* A query returns as many rows as :limit and :offset leave of its answer: *)
(* duplicates do not use the limit up, the rows of the offset are skipped  *)
(* once (QueryLimiter, run_query).                                         *)
LimitIsMet == phase = "done" => Cardinality(answer) = Due


(* A program is refused by the stratifier (stratify.rs verify_no_cycle)    *)
(* exactly when no assignment of strata exists; no other program of the    *)
(* instances is refused.                                                   *)
RefusedIffUnstratifiable ==
  /\ phase = "refused" => ~query.stratifiable
  /\ phase = "done" => query.stratifiable

(* No store ever holds a row outside the perfect model, at any epoch: the  *)
(* input and supplementary rules of magic.rs restrict a rule and never     *)
(* widen it, and no row has to be taken back.                              *)
NothingUnderivable ==
  \A k \in DOMAIN stores :
     k.tag \in {"muggle", "magic"} /\ stores[k].kind = "none"
       => stores[k].total \subseteq query.model[k.inner]

(* While a stratum runs every store its rules read exists, and what they   *)
(* read under a negation, below an aggregate or as an argument of a fixed  *)
(* rule is already complete: the strata of generalized_kahn are in order   *)
(* and the lifetimes keep a store for its last reader                      *)
(* (stratified_magic_evaluate).                                            *)
LowerStrataComplete ==
  phase = "epoch" =>
    \A k \in DOMAIN plan[stratum] :
      LET rs == plan[stratum][k]
          Reads == UNION {ContainedRules(rs.rules[i]) : i \in DOMAIN rs.rules} \cup rs.args
          Negated == UNION {{r.body[j].name : j \in {x \in DOMAIN r.body : r.body[x].t = "nrule"}} :
                              r \in ToSet(rs.rules)}
          Whole == Negated \cup rs.args \cup (IF HasAggr(rs) THEN Reads \ {k} ELSE {})
      IN /\ Reads \subseteq DOMAIN stores
         /\ \A n \in Whole : n.tag = "muggle" /\ stores[n].total = query.model[n.inner]

(* The delta of an epoch (EpochStore merge_in) holds every row the total   *)
(* gained, and for rows that are never displaced it holds nothing else:    *)
(* semi-naive evaluation neither misses nor repeats work.                  *)
DeltaIsWhatIsNew ==
  [][\A k \in DOMAIN stores : phase = "epoch" =>
       LET gained == stores'[k].total \ stores[k].total
       IN /\ gained \subseteq Delta(stores'[k]) \cup (IF k \in DOMAIN plan[stratum] THEN {} ELSE gained)
          /\ stores[k].kind \in {"none", "min", "union"} /\ k \in DOMAIN plan[stratum]
               => Delta(stores'[k]) = gained]_vars

(* The memory budget's counter never underflows: every debit releases a    *)
(* prior charge of the same estimate (MemBudget::debit, db.rs).  A counter *)
(* below zero here is one that has wrapped around there.                   *)
BudgetNeverUnderflows == budget >= 0

(* Where no row changes its size in place, which is every store but a meet *)
(* whose values grow, the counter is what the rows of the live stores      *)
(* take, in both their halves: nothing is charged twice, kept after a      *)
(* duplicate is dropped or released twice, by merge_in or by dropping a    *)
(* store between strata (runtime/temp_store.rs).                           *)
FixedSizesAreExact ==
  (\A k \in DOMAIN stores : stores[k].kind # "union") =>
    budget = MapThenSumSet(LAMBDA k : CostOf(stores[k].kind, stores[k].total)
                                        + CostOf(stores[k].kind, stores[k].delta), DOMAIN stores)

(* Every query ends in the right way: unless it is refused, with an error  *)
(* at BOUNDED_MEET_MAX_EPOCHS when some bounded aggregate improves in that *)
(* many epochs, and with an answer when none does, however many epochs the *)
(* other rules take (semi_naive_magic_evaluate).                           *)
QueryEnds ==
  <>(phase \in {"refused", IF query.rounds >= BoundedCap THEN "diverged" ELSE "done"})
=============================================================================
