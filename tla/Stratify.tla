------------------------------ MODULE Stratify ------------------------------
(***************************************************************************)
(* Stratification of a normalised program (query/stratify.rs and           *)
(* query/graph.rs): the dependency graph with its poisoned edges, Tarjan's *)
(* strongly connected components, the check that no component holds a      *)
(* poisoned edge, the reduced graph, the generalised Kahn ordering and the *)
(* lifetimes of the intermediate stores.  A program is a function from     *)
(* rule names to [fixed, rules, args]; Order lists the names in the order  *)
(* of the ordered maps of the code.                                        *)
(***************************************************************************)
EXTENDS Integers, Sequences, SequencesExt, FiniteSetsExt, Folds

CONSTANT Order

Entry == "?"
MeetAggrs == {"min", "union"}
BoundedAggrs == {"topk", "pareto"}

Ascending(S) == MapThenFoldSet(LAMBDA x, s : <<x>> \o s, <<>>, LAMBDA x : x, Min, S)

-----------------------------------------------------------------------------
HasAggr(rs) == \E i \in DOMAIN rs.rules : \E j \in DOMAIN rs.rules[i].aggr :
                 rs.rules[i].aggr[j] # "none"
\* Meet or bounded meet, wherever the aggregated column stands in the head.
IsMeet(rs) == /\ HasAggr(rs)
              /\ \A i \in DOMAIN rs.rules : \A j \in DOMAIN rs.rules[i].aggr :
                   rs.rules[i].aggr[j] \in {"none"} \cup MeetAggrs \cup BoundedAggrs

Applies(rs, name, t) == \E i \in DOMAIN rs.rules : \E j \in DOMAIN rs.rules[i].body :
                          rs.rules[i].body[j].t = t /\ rs.rules[i].body[j].name = name

ContainedIn(prog, k, name) == \/ Applies(prog[k], name, "rule")
                              \/ Applies(prog[k], name, "nrule")
                              \/ name \in prog[k].args

Poisoned_NoSelfMeet(prog, k, name) ==
  \/ prog[k].fixed \/ HasAggr(prog[k]) \/ prog[name].fixed
  \/ Applies(prog[k], name, "nrule")
  \/ IsMeet(prog[name]) /\ name # k
\* May k and name not share a stratum?
Poisoned(prog, k, name) ==
  \/ prog[k].fixed
  \/ HasAggr(prog[k]) /\ ~(IsMeet(prog[k]) /\ k = name)
  \/ prog[name].fixed
  \/ Applies(prog[k], name, "nrule")
  \/ ~HasAggr(prog[k]) /\ IsMeet(prog[name]) /\ name # k

DependencyGraph(prog) ==
  [k \in DOMAIN prog |-> [name \in {n \in DOMAIN prog : ContainedIn(prog, k, n)} |->
                            Poisoned(prog, k, name)]]

RECURSIVE Walk(_, _, _)
Walk(graph, found, frontier) ==
  IF frontier = {} THEN found
  ELSE Walk(graph, found \cup frontier, UNION {DOMAIN graph[k] : k \in frontier} \ (found \cup frontier))
ReachableComponents(graph, start) == Walk(graph, {}, {start})

-----------------------------------------------------------------------------
(* Tarjan: nodes are positions 1..n, graph[i] the sequence of successors.  *)
PopFrom(s, at, base) ==
  [s EXCEPT !.stack = SubSeq(@, 1, base - 1),
            !.low = [v \in DOMAIN @ |-> IF v \in ToSet(SubSeq(s.stack, base, Len(s.stack)))
                                       THEN s.ids[at] ELSE @[v]]]
Leave(s, at) == IF s.ids[at] # s.low[at] THEN s
                ELSE PopFrom(s, at, SelectInSeq(s.stack, LAMBDA v : v = at))
Lower(s, at, to) == IF to \in ToSet(s.stack) /\ s.low[to] < s.low[at]
                    THEN [s EXCEPT !.low[at] = s.low[to]] ELSE s

RECURSIVE Dfs(_, _, _)
Dfs(graph, st, at) ==
  LET entered == [st EXCEPT !.stack = Append(@, at), !.id = @ + 1,
                            !.ids[at] = st.id + 1, !.low[at] = st.id + 1]
      Visit(s, to) == Lower(IF s.ids[to] = 0 THEN Dfs(graph, s, to) ELSE s, at, to)
  IN Leave(FoldLeft(Visit, entered, graph[at]), at)

\* The components, in the order of their low links.
TarjanScc(graph) ==
  LET zero == [v \in DOMAIN graph |-> 0]
      start == [id |-> 0, ids |-> zero, low |-> zero, stack |-> <<>>]
      Run(st, v) == IF st.ids[v] = 0 THEN Dfs(graph, st, v) ELSE st
      Classes(low, lows) == [i \in DOMAIN lows |-> {v \in DOMAIN graph : low[v] = lows[i]}]
      ByLow(low) == Classes(low, Ascending({low[v] : v \in DOMAIN graph}))
  IN ByLow(FoldLeft(Run, start, [v \in DOMAIN graph |-> v]).low)

StronglyConnectedComponents(graph) ==
  LET indices == SelectSeq(Order, LAMBDA k : k \in DOMAIN graph)
      Out(k) == Ascending({i \in DOMAIN indices : indices[i] \in DOMAIN graph[k]})
      Names(sccs) == [c \in DOMAIN sccs |-> {indices[i] : i \in sccs[c]}]
  IN Names(TarjanScc([i \in DOMAIN indices |-> Out(indices[i])]))

VerifyNoCycle(graph, sccs) ==
  \A c \in DOMAIN sccs : \A k \in sccs[c] : \A v \in DOMAIN graph[k] \cap sccs[c] : ~graph[k][v]

\* Edges between components; one is poisoned when any edge it stands for is.
SccReducedGraph(graph, sccs) ==
  LET To(c, d) == {<<k, v>> \in sccs[c] \X sccs[d] : v \in DOMAIN graph[k]}
  IN [c \in DOMAIN sccs |->
        [d \in {x \in DOMAIN sccs \ {c} : To(c, x) # {}} |->
           \E e \in To(c, d) : graph[e[1]][e[2]]]]

-----------------------------------------------------------------------------
(* Kahn's ordering with strata: a node reached by a poisoned edge waits    *)
(* for the next stratum.  numNodes may exceed the nodes of the graph: the  *)
(* others are isolated and go to the first stratum.                        *)
Cut(s) == IF s.pending = <<>> /\ s.unsafe # {}
          THEN [s EXCEPT !.ret = Append(@, s.current), !.current = {}, !.unsafe = {},
                         !.pending = Ascending({n \in s.unsafe : s.indeg[n] = 0})]
          ELSE s
Settle(graph, s, node) ==
  LET Follow(a, nxt) ==
        LET unsafe == IF graph[node][nxt] THEN a.unsafe \cup {nxt} ELSE a.unsafe
            free == a.indeg[nxt] = 1 /\ nxt \notin unsafe
        IN [a EXCEPT !.indeg[nxt] = @ - 1, !.unsafe = unsafe,
                     !.pending = IF free THEN Append(@, nxt) ELSE @]
  IN FoldLeft(Follow, [s EXCEPT !.pending = Front(@), !.current = @ \cup {node}],
              IF node \in DOMAIN graph THEN Ascending(DOMAIN graph[node]) ELSE <<>>)

RECURSIVE KahnLoop(_, _)
KahnLoop(graph, s) ==
  IF s.pending # <<>> THEN KahnLoop(graph, Cut(Settle(graph, s, Last(s.pending))))
  ELSE IF s.current = {} THEN s.ret ELSE Append(s.ret, s.current)

GeneralizedKahn(graph, numNodes) ==
  LET indeg == [n \in 1..numNodes |-> Cardinality({c \in DOMAIN graph : n \in DOMAIN graph[c]})]
  IN KahnLoop(graph, [indeg |-> indeg, ret |-> <<>>, current |-> {}, unsafe |-> {},
                      pending |-> Ascending({n \in 1..numNodes : indeg[n] = 0})])

-----------------------------------------------------------------------------
StoreLifetimes_OffByOne(graph, stratumOf, nStrata) ==
  [to \in UNION {DOMAIN graph[k] : k \in DOMAIN graph} |->
     Max({nStrata - stratumOf[k] - 1 : k \in {j \in DOMAIN graph : to \in DOMAIN graph[j]}})]
\* How long a store is kept: up to the last stratum (in the order of
\* evaluation, from 0) with a rule that contains its name.
StoreLifetimes(graph, stratumOf, nStrata) ==
  [to \in UNION {DOMAIN graph[k] : k \in DOMAIN graph} |->
     Max({nStrata - stratumOf[k] : k \in {j \in DOMAIN graph : to \in DOMAIN graph[j]}})]

IntoStratifiedProgram(prog) ==
  LET Strata(graph, ok, nStrata, stratumOf) ==
        [ok |-> ok,
         strata |-> [i \in 1..nStrata |-> [k \in {x \in DOMAIN graph : stratumOf[x] = i} |-> prog[k]]],
         lifetimes |-> StoreLifetimes(graph, stratumOf, nStrata)]
      Placed(graph, sccs, strata) ==
        Strata(graph, VerifyNoCycle(graph, sccs), Len(strata),
               [k \in DOMAIN graph |-> CHOOSE i \in DOMAIN strata :
                  \E c \in strata[i] : c \in DOMAIN sccs /\ k \in sccs[c]])
      Sorted(graph, sccs) ==
        Placed(graph, sccs, GeneralizedKahn(SccReducedGraph(graph, sccs), Cardinality(DOMAIN graph)))
      Components(graph) == Sorted(graph, StronglyConnectedComponents(graph))
      Reachable(all) == Components([k \in ReachableComponents(all, Entry) |-> all[k]])
  IN Reachable(DependencyGraph(prog))
=============================================================================
