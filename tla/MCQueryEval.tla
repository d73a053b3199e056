---------------------------- MODULE MCQueryEval -----------------------------
(***************************************************************************)
(* Small programs over a stored relation e (both columns keys) and f (one  *)
(* key column).  11 stands for the float 1.0, equal to the integer 1 in    *)
(* the language and another key in storage; 4 is a string.                 *)
(***************************************************************************)
EXTENDS DatalogSemantics

X == 1
Y == 2
Z == 3
W == 4
E(a, b) == Atom("rel", "e", <<a, b>>)
F(a, b) == Atom("rel", "f", <<a, b>>)
P(a, b) == Atom("rule", "p", <<a, b>>)
Q(a, b) == Atom("rule", "q", <<a, b>>)
Not(a) == Node("not", <<a>>)
Rule(head, body) == [head |-> head, aggr |-> [i \in DOMAIN head |-> "none"], body |-> body]
Aggr(head, aggr, body) == [head |-> head, aggr |-> aggr, body |-> body]
Rules(rules) == [fixed |-> FALSE, rules |-> rules, args |-> {}]
Fixed(arg) == [fixed |-> TRUE, rules |-> <<>>, args |-> {arg}]

Base == Rule(<<X, Y>>, <<E(X, Y)>>)
Closure == Rules(<<Base, Rule(<<X, Y>>, <<P(X, Z), E(Z, Y)>>)>>)
Cheapest(aggr) == Rules(<<Aggr(<<X, Y>>, <<"none", aggr>>, <<F(X, Y)>>),
                          Aggr(<<Y, Z>>, <<"none", aggr>>, <<P(X, Z), E(X, Y)>>)>>)

\* The rules below the entry: recursion (linear, doubled, mutual), normal
\* forms, negation, aggregates and a fixed rule.
Recursive == {
  "p" :> Closure,
  "p" :> Rules(<<Base, Rule(<<X, Y>>, <<P(X, Z), P(Z, Y)>>)>>),
  "p" :> Rules(<<Base, Rule(<<X, Y>>, <<Q(X, Z), E(Z, Y)>>)>>)
    @@ "q" :> Rules(<<Rule(<<X, Y>>, <<F(X, Z), P(Z, Y)>>)>>),
  "p" :> Rules(<<Base, Rule(<<X, Y>>, <<P(X, Z), Q(Z, Y)>>)>>)
    @@ "q" :> Rules(<<Rule(<<X, Y>>, <<F(X, Y)>>), Rule(<<X, Y>>, <<P(Y, X)>>)>>) }
Flat == {
  "p" :> Rules(<<Rule(<<X, Y>>, <<Node("or", <<E(X, Y), Node("and", <<E(Y, X), Not(F(X, Y))>>)>>)>>)>>),
  "p" :> Rules(<<Rule(<<X, Y>>, <<E(X, Y), Not(Node("and", <<E(Y, X), Atom("neq", "", <<X, Y>>)>>))>>)>>),
  "p" :> Rules(<<Rule(<<X, X>>, <<E(X, Wildcard)>>)>>),
  "p" :> Rules(<<Rule(<<X, Y>>, <<E(X, Y), Atom("eq", "", <<X, Const(4)>>)>>)>>),
  "p" :> Rules(<<Rule(<<X, Y>>, <<E(X, Y), Atom("eq", "", <<Const(1), X>>)>>)>>),
  "p" :> Rules(<<Rule(<<X, Y>>, <<Atom("unif", "", <<Y, X>>), E(X, Z), F(Z, Wildcard)>>)>>),
  "p" :> Rules(<<Rule(<<X, Y>>, <<E(X, W), F(Z, Y), E(W, Z)>>)>>) }
Layered == {
  "p" :> Rules(<<Rule(<<X, Y>>, <<Not(Q(X, Y)), E(Y, X)>>)>>)
    @@ "q" :> Rules(<<Base, Rule(<<X, Y>>, <<Q(X, Z), E(Z, Y)>>)>>),
  "p" :> Rules(<<Rule(<<X, Y>>, <<F(X, Y), Not(Not(Q(X, Wildcard)))>>)>>) @@ "q" :> Rules(<<Base>>),
  "p" :> Fixed("q") @@ "q" :> Rules(<<Base>>),
  "p" :> Rules(<<Rule(<<X, Y>>, <<Q(X, Y), F(X, Y)>>), Rule(<<X, Y>>, <<P(Y, X)>>)>>) @@ "q" :> Fixed("r")
    @@ "r" :> Rules(<<Base, Rule(<<X, Y>>, <<Atom("rule", "r", <<X, Z>>), E(Z, Y)>>)>>),
  "p" :> Rules(<<Aggr(<<X, Y>>, <<"none", "count">>, <<E(X, Y)>>)>>),
  "p" :> Rules(<<Aggr(<<X, Y>>, <<"none", "count">>, <<Q(X, Y)>>)>>)
    @@ "q" :> Rules(<<Base, Rule(<<X, Y>>, <<Q(X, Z), Q(Z, Y)>>)>>),
  "p" :> Cheapest("min"), "p" :> Cheapest("topk"), "p" :> Cheapest("pareto"), "p" :> Cheapest("union") }
Refusable == {
  "p" :> Rules(<<Rule(<<X, Y>>, <<E(X, Y), Not(Q(X, Y))>>)>>)
    @@ "q" :> Rules(<<Rule(<<X, Y>>, <<E(X, Y), Not(P(Y, X))>>)>>),
  "p" :> Rules(<<Base, Rule(<<X, Y>>, <<Q(X, Y)>>)>>)
    @@ "q" :> Rules(<<Aggr(<<X, Y>>, <<"none", "min">>, <<P(X, Y)>>)>>),
  "p" :> Rules(<<Aggr(<<X, Y>>, <<"none", "count">>, <<E(X, Y)>>),
                 Aggr(<<X, Y>>, <<"none", "count">>, <<P(Y, X)>>)>>),
  "p" :> Rules(<<Base, Rule(<<X, Y>>, <<Q(X, Y)>>)>>) @@ "q" :> Fixed("p") }

Entries == {
  <<Rule(<<X, Y>>, <<P(X, Y)>>)>>,
  <<Rule(<<Y>>, <<P(Const(1), Y)>>)>>,
  <<Rule(<<X>>, <<P(X, X)>>)>>,
  <<Rule(<<X>>, <<P(X, Wildcard)>>)>>,
  <<Rule(<<X, Y>>, <<E(X, Z), P(Z, Y)>>)>>,
  <<Rule(<<X, Y>>, <<E(X, Y), Not(P(Y, Wildcard))>>)>>,
  <<Aggr(<<X>>, <<"count">>, <<P(X, Y)>>)>>,
  <<Aggr(<<Y>>, <<"min">>, <<P(X, Y)>>)>>,
  <<Rule(<<X>>, <<P(X, Wildcard)>>), Rule(<<X>>, <<E(X, Wildcard)>>)>> }

Program(below, entry) == below @@ (Entry :> Rules(entry))

Databases == {
  [e |-> {}, f |-> {<<1, 2>>}],
  [e |-> {<<1, 2>>, <<2, 3>>}, f |-> {<<1, 3>>, <<2, 1>>}],
  [e |-> {<<1, 2>>, <<2, 3>>, <<3, 1>>}, f |-> {<<1, 3>>, <<3, 2>>}],
  [e |-> {<<1, 1>>, <<1, 2>>, <<2, 1>>, <<3, 3>>}, f |-> {<<1, 1>>, <<2, 3>>, <<3, 2>>}],
  [e |-> {<<1, 2>>, <<2, 4>>, <<4, 1>>, <<4, 2>>}, f |-> {<<2, 1>>, <<1, 3>>, <<4, 2>>}] }
\* Both ones as keys.  A variable that is repeated within an atom or unified
\* with another tells them apart or not depending on where it is bound first,
\* so such programs are left out here.
Mixed == [e |-> {<<1, 2>>, <<11, 2>>, <<4, 1>>, <<2, 4>>}, f |-> {<<2, 1>>, <<1, 1>>, <<4, 2>>}]
Distinct == {p \in Flat : p["p"].rules[1].head = <<X, Y>> /\ p["p"].rules[1].body[1].t # "unif"}

Ask(below, entry, edb, limit, offset, sort) ==
  WithMeaning([prog |-> Program(below, entry), edb |-> edb,
               limit |-> limit, offset |-> offset, sort |-> sort])

MCQueries ==
       {Ask(b, e, d, NoLimit, 0, FALSE) : b \in Recursive \cup Flat \cup Layered, e \in Entries, d \in Databases}
  \cup {Ask(b, e, d, NoLimit, 0, FALSE) : b \in Refusable, e \in Entries, d \in {CHOOSE x \in Databases : TRUE}}
  \cup {Ask(b, e, Mixed, NoLimit, 0, FALSE) : b \in Distinct, e \in {<<Rule(<<X, Y>>, <<P(X, Y)>>)>>}}
  \cup {Ask(b, e, d, l, o, s) : b \in {"p" :> Closure, "p" :> Cheapest("min")}, e \in Entries,
          d \in {x \in Databases : x.e # {}}, l \in {1, 2}, o \in {0, 1}, s \in BOOLEAN}

\* A meet whose values grow: the sets of three nodes travel along a chain of
\* five, and every node of it passes them on to six others, one after the other.
Fan == LET chain == {n + 10 * i : n \in 1..3, i \in 0..4}
       IN [e |-> {<<n, n + 10>> : n \in {c \in chain : c < 40}} \cup (chain \X (51..56)),
           f |-> {<<1, 1>>, <<2, 2>>, <<3, 4>>}]
UnionQueries == {[prog |-> Program("p" :> Cheapest("union"), <<Rule(<<X, Y>>, <<P(X, Y)>>)>>), edb |-> Fan,
                  limit |-> NoLimit, offset |-> 0, sort |-> FALSE]}

MCKeyArity == [e |-> 2, f |-> 1]
MCOrder == <<"?", "p", "q", "r">>
=============================================================================
