----------------------------- MODULE MagicSets ------------------------------
(***************************************************************************)
(* The magic-sets rewrite of a stratified program (query/magic.rs): rules  *)
(* that are not exempt are adorned with which arguments are bound where    *)
(* they are applied, and every application with a bound argument is fed    *)
(* through supplementary and input rules.                                  *)
(***************************************************************************)
EXTENDS Stratify, TLC

Symb(tag, inner, adornment, ruleIdx, supIdx) ==
  [tag |-> tag, inner |-> inner, adornment |-> adornment, rule |-> ruleIdx, sup |-> supIdx]
Muggle(name) == Symb("muggle", name, <<>>, 0, 0)
HasBound(symb) == symb.tag = "magic" /\ \E i \in DOMAIN symb.adornment : symb.adornment[i]

IsApply(a) == a.t \in {"rule", "nrule"}
Binds(a) == CASE a.t \in {"rule", "rel"} -> ToSet(a.args)
              [] a.t = "unif" -> {a.args[1]}
              [] OTHER -> {}
\* The arguments at the bound positions.
BoundArgs(args, adornment) ==
  LET at == Ascending({i \in DOMAIN adornment : adornment[i]})
  IN [i \in DOMAIN at |-> args[at[i]]]

-----------------------------------------------------------------------------
ExemptAggrRules(stratum) == {k \in DOMAIN stratum : HasAggr(stratum[k])}

DownstreamRules(stratum) ==
 (UNION {{r.body[j].name : j \in {x \in DOMAIN r.body : IsApply(r.body[x])}} :
           r \in UNION {ToSet(stratum[k].rules) : k \in DOMAIN stratum}}
    \cup UNION {stratum[k].args : k \in DOMAIN stratum})
    \ DOMAIN stratum

\* Names an application is given: adorned when its rule is to be rewritten.
AdornRule(rule, rewrite, bound) ==
  LET Adorn(s, a) ==
        LET name == IF a.t = "rule" /\ a.name \in rewrite
                    THEN Symb("magic", a.name, [i \in DOMAIN a.args |-> a.args[i] \in s.seen], 0, 0)
                    ELSE Muggle(a.name)
        IN [seen |-> s.seen \cup Binds(a),
            body |-> Append(s.body, [a EXCEPT !.name = name])]
  IN [rule EXCEPT !.body = FoldLeft(Adorn, [seen |-> bound, body |-> <<>>], rule.body).body]

AdornRules(stratum, rewrite, head) ==
  LET rules == stratum[head.inner].rules
      Bound(r) == ToSet(BoundArgs(r.head, head.adornment))
  IN [i \in DOMAIN rules |-> AdornRule(rules[i], rewrite, Bound(rules[i]))]

MagicApplied(rules) ==
  {a.name : a \in {x \in UNION {ToSet(r.body) : r \in ToSet(rules)} :
                     x.t = "rule" /\ x.name.tag = "magic"}}

\* The exempt rules keep their names; an adorned head is added for every
\* adornment some added body applies.
RECURSIVE AdornPending(_, _, _, _)
AdornPending(stratum, rewrite, adorned, pending) ==
  LET heads == pending \ DOMAIN adorned
      new == [h \in heads |-> AdornRules(stratum, rewrite, h)]
  IN IF heads = {} THEN adorned
     ELSE AdornPending(stratum, rewrite, adorned @@ new,
                       UNION {MagicApplied(new[h]) : h \in heads})

AdornStratum(stratum, exempt) ==
  LET rewrite == DOMAIN stratum \ exempt
      kept == {Muggle(k) : k \in {x \in DOMAIN stratum \cap exempt : ~stratum[x].fixed}}
  IN AdornPending(stratum, rewrite, <<>>, kept)

-----------------------------------------------------------------------------
(* The rewrite of one rule: the pairs <<head, rule>> it adds.              *)
PlainRule(head, body) == [head |-> head, aggr |-> [i \in DOMAIN head |-> "none"], body |-> body]
RuleApp(name, args) == [t |-> "rule", name |-> name, args |-> args, kids |-> <<>>]
Input(symb) == Symb("input", symb.inner, symb.adornment, 0, 0)

MagicRewriteRule(head, rule, idx) ==
  LET Sup(n) == Symb("sup", head.inner, head.adornment, idx, n)
      given == BoundArgs(rule.head, head.adornment)
      start == IF HasBound(head)
               THEN [out |-> <<<<Sup(0), PlainRule(given, <<RuleApp(Input(head), given)>>)>>>>,
                     atoms |-> <<RuleApp(Sup(0), given)>>, seen |-> ToSet(given), sup |-> 1]
               ELSE [out |-> <<>>, atoms |-> <<>>, seen |-> {}, sup |-> 0]
      Step(s, a) ==
        LET args == Ascending(s.seen)
            app == RuleApp(Sup(s.sup), args)
            passed == BoundArgs(a.args, a.name.adornment)
        IN IF a.t = "rule" /\ HasBound(a.name)
           THEN [out |-> s.out \o <<<<Sup(s.sup), PlainRule(args, s.atoms)>>,
                                    <<Input(a.name), PlainRule(passed, <<app>>)>>>>,
                 atoms |-> <<app, a>>, seen |-> s.seen \cup Binds(a), sup |-> s.sup + 1]
           ELSE [s EXCEPT !.atoms = Append(@, a), !.seen = @ \cup Binds(a)]
      WithHead(s) == Append(s.out, <<head, [rule EXCEPT !.body = s.atoms]>>)
  IN WithHead(FoldLeft(Step, start, rule.body))

\* The rules of a head, its own in their order.
MagicRewrite(adorned) ==
  LET RulesOf(h, all, pairs) ==
        IF h \in DOMAIN all THEN [i \in DOMAIN all[h] |-> Last(all[h][i])[2]]
        ELSE SetToSeq({p[2] : p \in {x \in pairs : x[1] = h}})
      Collect(all, pairs) ==
        [h \in {p[1] : p \in pairs} |-> [fixed |-> FALSE, args |-> {}, rules |-> RulesOf(h, all, pairs)]]
      Pairs(all) == UNION {UNION {ToSet(all[h][i]) : i \in DOMAIN all[h]} : h \in DOMAIN all}
      Gather(all) == Collect(all, Pairs(all))
  IN Gather([h \in DOMAIN adorned |-> [i \in DOMAIN adorned[h] |-> MagicRewriteRule(h, adorned[h][i], i)]])

FixedRules(stratum) ==
  LET fixed == {k \in DOMAIN stratum : stratum[k].fixed}
  IN [h \in {Muggle(k) : k \in fixed} |->
        [fixed |-> TRUE, args |-> {Muggle(n) : n \in stratum[h.inner].args}, rules |-> <<>>]]

\* Strata come with the entry's first; what a stratum takes from later ones
\* is exempt there.  Evaluation goes the other way.
RECURSIVE MagicSetsFrom(_, _)
MagicSetsFrom(strata, exempt) ==
  IF strata = <<>> THEN <<>> ELSE
  LET now == exempt \cup ExemptAggrRules(Head(strata))
      rest == MagicSetsFrom(Tail(strata), now \cup DownstreamRules(Head(strata)))
  IN Append(rest, MagicRewrite(AdornStratum(Head(strata), now)) @@ FixedRules(Head(strata)))

MagicSetsRewrite(strata) == MagicSetsFrom(strata, {Entry})
=============================================================================
