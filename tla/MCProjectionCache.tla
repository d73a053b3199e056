-------------------------- MODULE MCProjectionCache --------------------------
(* Instances of ProjectionCache for model checking. *)
EXTENDS ProjectionCache, TLC

CONSTANT A

EdgesOnly == {[s \in Slots |-> IF s = "edges" THEN A ELSE None]}

\* Name A is relation 1; the other names are free.
OneRelation == [n \in Names |-> IF n = A THEN 1 ELSE NoId]

TxSymmetry == Permutations(Txs)
ReaderSymmetry == Permutations(Readers)
=============================================================================
