------------------------------ MODULE MCTxTime ------------------------------
(* Small instances of TxTime. *)
EXTENDS TxTime, TLC

Symmetry == Permutations(Txs) \cup Permutations(Keys) \cup Permutations(Vals)

=============================================================================
