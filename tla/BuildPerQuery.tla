---------------------------- MODULE BuildPerQuery ----------------------------
(***************************************************************************)
(* What a graph projection promises, with no cache in sight: a lookup is   *)
(* answered with what the transaction's own scan of the sources returns at *)
(* that moment (docs/specs/graph-projection.md, "always-fresh": no stale   *)
(* entry to a fresh snapshot, no fresh entry to a stale snapshot).         *)
(***************************************************************************)
CONSTANTS Txs, Slots, None

VARIABLES scan,    \* scan[t][r]: the content of relation r as t reads it now
          want,    \* want[t][s]: the relation t resolved source s to
          answer   \* the answer to t's lookup, None while it runs

Init == answer = [t \in Txs |-> None]

Answer(t) ==
  /\ answer[t] = None
  /\ answer' = [answer EXCEPT ![t] = [s \in Slots |-> scan[t][want[t][s]]]]

Forget(t) == answer' = [answer EXCEPT ![t] = None]

Next == \E t \in Txs : Answer(t) \/ Forget(t)

Spec == Init /\ [][Next]_answer
=============================================================================
