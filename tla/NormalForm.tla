----------------------------- MODULE NormalForm -----------------------------
(***************************************************************************)
(* Compile-time normalisation of rule bodies (query/logical.rs,            *)
(* query/reorder.rs, data/program.rs into_normalized_program): negation    *)
(* normal form, disjunctive normal form, fresh variables for repeated      *)
(* arguments and constants, equality pushdown, greedy join reorder and the *)
(* binding-before-use pass.                                                *)
(*                                                                         *)
(* An atom is a record [t, name, args, kids].  Arguments are integers:     *)
(* 0 is the wildcard, 1..99 are the user's variables, 100..299 generated   *)
(* ones, 300..399 the ones made for a repeated head variable, 500..999     *)
(* generated wildcards, and 1000 + v is the constant v.                    *)
(***************************************************************************)
EXTENDS Integers, Sequences, SequencesExt, FiniteSetsExt

CONSTANTS KeyArity,   \* stored relation -> number of its key columns
          Numerics    \* the values that are numbers (DataValue::Num)

Wildcard == 0
IsVar(a) == a \in 1..999
IsIgnored(a) == a \in 500..999
Const(v) == 1000 + v
IsConst(a) == a >= 1000
Val(a) == a - 1000

Atom(t, name, args) == [t |-> t, name |-> name, args |-> args, kids |-> <<>>]
Node(t, kids) == [t |-> t, name |-> "", args |-> <<>>, kids |-> kids]
Unify(binding, expr) == Atom("unif", "", <<binding, expr>>)

Vars(atom) == {a \in ToSet(atom.args) : IsVar(a)}
\* The variables an atom has to find bound: all of a predicate's, the
\* right-hand side of a unification.
Needs(atom) == IF atom.t = "unif" THEN {atom.args[2]} \cap 1..999 ELSE Vars(atom)

-----------------------------------------------------------------------------
(* Negation normal form: negations are driven down to the atoms.  A        *)
(* negated unification is refused (UnsafeNegation), the atom "bad".        *)
Negate(p) == [p EXCEPT !.t = CASE p.t = "eq" -> "neq" [] p.t = "neq" -> "eq"
                               [] p.t = "lt" -> "ge"  [] p.t = "ge" -> "lt"]
IsPredicate(a) == a.t \in {"eq", "neq", "lt", "ge"}

RECURSIVE NegationNormalForm(_)
NegationNormalForm(a) ==
  LET inner == a.kids[1]
      Each(t, f(_)) == Node(t, [i \in DOMAIN inner.kids |-> f(inner.kids[i])])
      Pushed(k) == NegationNormalForm(Node("not", <<k>>))
  IN CASE a.t \in {"and", "or"} ->
            Node(a.t, [i \in DOMAIN a.kids |-> NegationNormalForm(a.kids[i])])
       [] a.t # "not" -> a
       [] inner.t \in {"rule", "rel"} -> a
       [] IsPredicate(inner) -> Negate(inner)
       [] inner.t = "not" -> NegationNormalForm(inner.kids[1])
       [] inner.t = "and" -> Each("or", Pushed)
       [] inner.t = "or" -> Each("and", Pushed)
       [] OTHER -> Atom("bad", "", <<>>)

FreshArg_DropsRepeated(s, arg) ==
  IF IsVar(arg) /\ arg \notin ToSet(s.args)
  THEN [s EXCEPT !.args = Append(@, arg)]
  ELSE [s EXCEPT !.args = Append(@, 500 + s.gen), !.gen = @ + 1]
(* An application gets distinct variables for arguments: a wildcard, a     *)
(* repeated variable and a constant are replaced by a fresh one, the last  *)
(* two with a unification placed before the application.                   *)
FreshArg(s, arg) ==
  CASE arg = Wildcard -> [s EXCEPT !.args = Append(@, 500 + s.gen), !.gen = @ + 1]
    [] IsVar(arg) /\ arg \notin ToSet(s.args) -> [s EXCEPT !.args = Append(@, arg)]
    [] OTHER -> [args |-> Append(s.args, 100 + s.gen), gen |-> s.gen + 1,
                 unifs |-> Append(s.unifs, Unify(100 + s.gen, arg))]

Applied(t, name, s) == [dis |-> <<Append(s.unifs, Atom(t, name, s.args))>>, gen |-> s.gen]
Normalize(a, t, gen) ==
  Applied(t, a.name, FoldLeft(FreshArg, [args |-> <<>>, unifs |-> <<>>, gen |-> gen], a.args))

(* The conjunction of two disjunctions, left operand outermost.            *)
ConjunctiveToDisjunctive(left, right) ==
  FlattenSeq([i \in DOMAIN left |-> [j \in DOMAIN right |-> left[i] \o right[j]]])

RECURSIVE DisjunctiveNormalForm(_, _)
DisjunctiveNormalForm(a, gen) ==
  LET Either(l, r) == [dis |-> l.dis \o r.dis, gen |-> r.gen]
      Both(l, r) == [dis |-> ConjunctiveToDisjunctive(l.dis, r.dis), gen |-> r.gen]
      Or(s, kid) == Either(s, DisjunctiveNormalForm(kid, s.gen))
      And(s, kid) == Both(s, DisjunctiveNormalForm(kid, s.gen))
  IN CASE a.t = "or" -> FoldLeft(Or, [dis |-> <<>>, gen |-> gen], a.kids)
       [] a.t = "and" -> FoldLeft(And, DisjunctiveNormalForm(a.kids[1], gen), Tail(a.kids))
       [] a.t = "not" -> Normalize(a.kids[1], IF a.kids[1].t = "rule" THEN "nrule" ELSE "nrel", gen)
       [] a.t \in {"rule", "rel"} -> Normalize(a, a.t, gen)
       [] OTHER -> [dis |-> <<<<a>>>>, gen |-> gen]

-----------------------------------------------------------------------------
(* Equality pushdown: `v == ground` on a variable some stored relation     *)
(* produces becomes a unification in front, unless the ground value is a   *)
(* number, whose equality crosses the types that key order tells apart.    *)
AsUnification_Numbers(a, generated) ==
  a.t = "eq" /\ \E i \in {1, 2} : a.args[i] \in generated /\ IsConst(a.args[3 - i])
AsUnification(a, generated) ==
  /\ a.t = "eq"
  /\ \E i \in {1, 2} : /\ a.args[i] \in generated
                       /\ IsConst(a.args[3 - i]) /\ Val(a.args[3 - i]) \notin Numerics

PushEqualityFilters(body) ==
  LET generated == UNION {Vars(body[i]) : i \in {j \in DOMAIN body : body[j].t = "rel"}}
      Pushed(a) == AsUnification(a, generated)
      Turn(a) == IF IsConst(a.args[2]) THEN Unify(a.args[1], a.args[2])
                                       ELSE Unify(a.args[2], a.args[1])
      front == SelectSeq(body, Pushed)
  IN [i \in DOMAIN front |-> Turn(front[i])] \o SelectSeq(body, LAMBDA a : ~Pushed(a))

(* The greedy reorder: among the stored relations joined to what is bound, *)
(* the one with fewest new variables, then a complete key lookup, then the *)
(* written order; when none is joined, the earliest written.               *)
FullKeyBonus(a, bound) ==
  LET n == KeyArity[a.name]
  IN IF \A i \in 1..n : ~IsIgnored(a.args[i]) /\ a.args[i] \in bound THEN n ELSE 0

Named(a) == {v \in Vars(a) : ~IsIgnored(v)}

RECURSIVE GreedyOrder(_, _, _)
GreedyOrder(cands, bound, remaining) ==
  IF remaining = {} THEN <<>> ELSE
  LET connected == {i \in remaining : Named(cands[i]) \cap bound # {}}
      New(i) == Cardinality(Named(cands[i]) \ bound)
      Before(i, j) ==
        LET bi == FullKeyBonus(cands[i], bound)  bj == FullKeyBonus(cands[j], bound)
        IN \/ New(i) < New(j)
           \/ New(i) = New(j) /\ bi > bj
           \/ New(i) = New(j) /\ bi = bj /\ i <= j
      pick == IF connected = {} THEN Min(remaining)
              ELSE CHOOSE i \in connected : \A j \in connected : Before(i, j)
  IN <<cands[pick]>> \o GreedyOrder(cands, bound \cup Named(cands[pick]), remaining \ {pick})

Reordered(body, rels, order, leading, rest) ==
  IF order = rels THEN body ELSE leading \o order \o rest

GreedyReorder(body) ==
  LET IsRel(a) == a.t = "rel"
      rels == SelectSeq(body, IsRel)
      first == SelectInSeq(body, IsRel)
      leading == SubSeq(body, 1, first - 1)
      bound == {leading[i].args[1] : i \in {j \in DOMAIN leading : leading[j].t = "unif"}}
      rest == SelectSeq(SubSeq(body, first, Len(body)), LAMBDA a : ~IsRel(a))
  IN IF Len(rels) < 3 \/ \E i \in DOMAIN body : body[i].t = "rule" THEN body
     ELSE Reordered(body, rels, GreedyOrder(rels, bound, DOMAIN rels), leading, rest)

(* The binding-before-use pass.  Round 1 keeps the generators and the      *)
(* unifications that are bound where they stand; round 2 puts each pending *)
(* atom after the first generator that completes its bindings (a pending   *)
(* unification does not add its variable to the seen ones); a negation may *)
(* stay partly bound, at the end.                                          *)
Round1(s, a) ==
  IF a.t \in {"rule", "rel"} \/ (a.t = "unif" /\ Needs(a) \subseteq s.seen)
  THEN [s EXCEPT !.out = Append(@, a), !.seen = @ \cup (Vars(a) \ (IF a.t = "unif" THEN Needs(a) ELSE {}))]
  ELSE [s EXCEPT !.pending = Append(@, a)]
Round2(s, a) ==
  LET seen == s.seen \cup (IF a.t = "unif" THEN {a.args[1]} ELSE Vars(a))
      Ready(p) == Needs(p) \subseteq seen
  IN [out |-> Append(s.out, a) \o SelectSeq(s.pending, Ready), seen |-> seen,
      pending |-> SelectSeq(s.pending, LAMBDA p : ~Ready(p))]

WithPending(r1) == FoldLeft(Round2, [out |-> <<>>, seen |-> {}, pending |-> r1.pending], r1.out)
Safe(r2) == [ok |-> \A i \in DOMAIN r2.pending : /\ r2.pending[i].t \in {"nrule", "nrel"}
                                                 /\ Vars(r2.pending[i]) \cap r2.seen # {},
             body |-> r2.out \o r2.pending]
WellOrderBody(body) ==
  Safe(WithPending(FoldLeft(Round1, [out |-> <<>>, seen |-> {}, pending |-> <<>>], body)))

\* The greedy order, and the written one when that leaves something unbound.
FirstSafe(reordered, written) == IF reordered.ok THEN reordered ELSE written
WellOrdered(body, greedy) ==
  FirstSafe(WellOrderBody(IF greedy THEN GreedyReorder(body) ELSE body), WellOrderBody(body))
ConvertToWellOrdered(body, greedy) == WellOrdered(PushEqualityFilters(body), greedy)

-----------------------------------------------------------------------------
(* One rule: its body to disjunctive normal form, a fresh variable and a   *)
(* unification for every repeated head variable, one rule per disjunct.    *)
NormalizeRule(rule, greedy) ==
  LET Repeated(i) == \E j \in 1..(i - 1) : rule.head[j] = rule.head[i]
      head == [i \in DOMAIN rule.head |-> IF Repeated(i) THEN 300 + i ELSE rule.head[i]]
      unifs == SelectSeq([i \in DOMAIN head |-> Unify(head[i], rule.head[i])],
                         LAMBDA u : u.args[1] # u.args[2])
      Ordered(dis) == [d \in DOMAIN dis |-> ConvertToWellOrdered(dis[d] \o unifs, greedy)]
      Good(dis) == \A d \in DOMAIN dis : \A i \in DOMAIN dis[d] : dis[d][i].t # "bad"
      Rules(good, bodies) ==
        [ok |-> good /\ \A d \in DOMAIN bodies : bodies[d].ok,
         rules |-> [d \in DOMAIN bodies |-> [head |-> head, aggr |-> rule.aggr, body |-> bodies[d].body]]]
      Both(dis) == Rules(Good(dis), Ordered(dis))
  IN Both(DisjunctiveNormalForm(NegationNormalForm(Node("and", rule.body)), 0).dis)

(* A `:limit` without a `:sort` keeps the written join order.              *)
NormalizeProgram(prog, greedy) ==
  LET Collect(all) ==
        [ok |-> \A k \in DOMAIN prog : \A i \in DOMAIN all[k] : all[k][i].ok,
         prog |-> [k \in DOMAIN prog |->
                     [prog[k] EXCEPT !.rules =
                        FlattenSeq([i \in DOMAIN all[k] |-> all[k][i].rules])]]]
  IN Collect([k \in DOMAIN prog |->
                [i \in DOMAIN prog[k].rules |-> NormalizeRule(prog[k].rules[i], greedy)]])
=============================================================================
