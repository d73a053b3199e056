--------------------------- MODULE GovernedTxProofs ---------------------------
(***************************************************************************)
(* Why a governed transaction keeps its promises, for every number of      *)
(* requests, subscriptions and channel slots.                              *)
(*                                                                         *)
(* At most one request is under way between the client and the worker      *)
(* (Handshake), and the storage transaction holds exactly the queries that *)
(* succeeded (Accounts); from these follow what an answer (Answers) and an *)
(* error (FirstError) can say.  The transaction's events are its writes in *)
(* order (Events), the worker publishes them one after another (Progress), *)
(* and so what a subscriber has is behind what is still to come            *)
(* (Histories) and misses nothing that will not come (Gapless).  On the    *)
(* engines that delete ranges inside the transaction, the deletions it has *)
(* made and has still to make are those of its replacements (Deletions).   *)
(*                                                                         *)
(* Every action is first shown to be one of a few kinds of step, with the  *)
(* facts about it that the invariant needs; each part of the invariant is  *)
(* then carried over the kinds.                                            *)
(***************************************************************************)
EXTENDS GovernedTx, TLAPS

Kinds == {"query", "commit", "abort"}
ErrorsOrNone == Errors \union {"none"}

Querying == {"query", "lock", "sleep", "run"}
Serving == Querying \union {"nap", "reply", "abort", "cleanup", "commit", "ack"}
Ended == {"feed", "failed", "leaving", "gone"}
Active == {"unstarted", "next", "select"} \union (Serving \ {"ack"})

KindOf(pc) == CASE pc \in Querying \union {"nap", "reply"} -> "query"
                [] pc = "abort" -> "abort"
                [] OTHER -> "commit"

ClientType == [st : {"idle", "waiting", "failed", "gone"}, n : Nat, kind : Kinds,
               err : ErrorsOrNone, by : {"none", "disconnect", "deadline"}]
WorkerType == [pc : Active \union {"ack"} \union Ended, n : Nat, why : ErrorsOrNone,
               guard : BOOLEAN, targets : SUBSET Subs]
TxType == [writes : SUBSET Nat, events : Seq(Nat), cleanups : SUBSET Nat, dels : SUBSET Nat]
RegistryType == [ids : SUBSET Subs, next : Nat]
SenderType == [st : {"off", "event", "send", "done"}, events : Seq(Nat),
               todo : SUBSET Subs, fst : Nat, failed : SUBSET Subs]
RanType == [ok : SUBSET Nat, failed : BOOLEAN]

Types ==
  /\ client \in ClientType /\ terminal \in ErrorsOrNone
  /\ wk \in WorkerType /\ tx \in TxType /\ store \in SUBSET Nat
  /\ registry \in RegistryType
  /\ chan \in [Subs -> Seq(Nat)] /\ got \in [Subs -> Seq(Nat)]
  /\ alive \in SUBSET Subs
  /\ sending \in [Senders -> SenderType]
  /\ ran \in RanType

\* The request in flight is the client's latest: in the command channel, with the
\* worker, or in the result channel, and in one of them at most.
Handshake ==
  /\ cmds = <<>> \/ cmds = <<[n |-> client.n, kind |-> client.kind]>>
  /\ results = <<>> \/ results = <<client.n>>
  /\ client.st = "idle" => cmds = <<>> /\ results = <<>> /\ wk.pc \notin Serving
  /\ cmds # <<>> => results = <<>> /\ wk.pc \notin Serving
  /\ wk.pc \in Serving =>
       results = <<>> /\ wk.n = client.n /\ client.kind = KindOf(wk.pc)

\* The transaction holds the write queries that succeeded, and no other.
Accounts ==
  /\ wk.pc \in Active => store = {} /\ tx.writes = ran.ok /\ ~ran.failed
  /\ wk.pc = "ack" => store = ran.ok
  /\ store # {} => store = ran.ok /\ ~ran.failed
  /\ \A e \in ran.ok : e <= client.n
  /\ cmds # <<>> \/ wk.pc \in Querying => client.n \notin ran.ok

\* An answer that is on its way, or has been heard, is the last word on the store.
Answers ==
  /\ results # <<>> /\ client.kind # "query" => wk.pc \in Ended
  /\ results # <<>> /\ client.kind = "commit" => ran.ok \subseteq store
  /\ results # <<>> /\ client.kind = "abort" => store = {}
  /\ \A h \in heard :
       /\ h.of = h.n
       /\ h.kind # "query" => wk.pc \in Ended
       /\ h.kind = "commit" => ran.ok \subseteq store
       /\ h.kind = "abort" => store = {}

\* The first error is where the client will look for it.
FirstError ==
  /\ wk.pc \in Active \union {"ack"} => wk.why = "none"
  /\ wk.pc \notin {"leaving", "gone"} => terminal = "none"
  /\ wk.pc \in {"leaving", "gone"} /\ client.by = "none" => terminal = wk.why
  /\ client.by # "none" => client.st \in {"failed", "gone"}
  /\ client.by = "disconnect" => wk.pc = "gone"
  /\ FirstErrorSurvives

Rising(q) == \A i, j \in 1..Len(q) : i < j => q[i] < q[j]

\* The events of a transaction are its writes, in the order they were made.
Events ==
  /\ wk.pc = "unstarted" => ran.ok = {}
  /\ wk.pc \in Active \union {"ack"} =>
       /\ Rising(tx.events)
       /\ \A i \in 1..Len(tx.events) : tx.events[i] \in ran.ok
       /\ wk.targets # {} => \A e \in ran.ok : \E i \in 1..Len(tx.events) : tx.events[i] = e

Snd == sending["worker"]

\* How far the worker is with its events, and what the ordinary writer sends.
Progress ==
  /\ wk.pc \in Active \union {"ack"} => Snd.st = "off"
  /\ wk.pc = "feed" => Snd.st # "off"
  /\ wk.pc \in {"failed", "leaving", "gone"} /\ store # {} => Snd.st = "done"
  /\ Snd.st = "send" => Snd.events # <<>>
  /\ Snd.st = "done" => Snd.events = <<>>

LegacyOnly ==
  /\ sending["legacy"].events \in {<<>>, <<LegacyEvent>>}
  /\ sending["legacy"].st = "send" => sending["legacy"].events # <<>>

\* What the worker has still to publish is committed, and later than anything a
\* subscriber has of it, but for the event it is publishing.
Past(s, e, snd) ==
  \A j \in 1..Len(snd.events) :
    \/ e < snd.events[j]
    \/ j = 1 /\ snd.st = "send" /\ s \notin snd.todo /\ e = snd.events[1]

Histories ==
  /\ Rising(Snd.events)
  /\ \A j \in 1..Len(Snd.events) : Snd.events[j] \in store
  /\ \A s \in Subs : \A i \in 1..Len(Feed(s)) :
       Feed(s)[i] # LegacyEvent =>
         Snd.st # "off" /\ Feed(s)[i] \in store /\ Past(s, Feed(s)[i], Snd)
  /\ \A s \in Subs : \A i, j \in 1..Len(Feed(s)) :
       i < j /\ Feed(s)[i] # LegacyEvent /\ Feed(s)[j] # LegacyEvent => Feed(s)[i] < Feed(s)[j]

\* A subscriber that the worker has not failed with has every committed change, or
\* will be sent it.
Coming(s, e, snd) ==
  \E j \in 1..Len(snd.events) :
    snd.events[j] = e /\ (j > 1 \/ snd.st # "send" \/ s \in snd.todo)

Has(f, e) == \E i \in 1..Len(f) : f[i] = e

Gapless ==
  /\ \A s \in registry.ids \union wk.targets : s < registry.next
  /\ Snd.st = "done" => wk.targets \intersect registry.ids \intersect Snd.failed = {}
  /\ Snd.st # "off" =>
       \A s \in (wk.targets \intersect registry.ids) \ Snd.failed :
         \A e \in store : Has(Feed(s), e) \/ Coming(s, e, Snd)

IInv ==
  Types /\ Handshake /\ Accounts /\ Answers /\ FirstError
    /\ Events /\ Progress /\ LegacyOnly /\ Histories /\ Gapless

-----------------------------------------------------------------------------
(* What a step of the client and of the worker does. *)

LEMMA FailureEffect ==
  ASSUME NEW c \in ClientType, NEW by \in {"disconnect", "deadline"},
         terminal \in ErrorsOrNone, Failure(c, by)
  PROVE  /\ client' \in ClientType
         /\ client'.n = c.n /\ client'.kind = c.kind
         /\ client'.st \in {"failed", "gone"} /\ client'.by = by
         /\ terminal # "none" => client'.err = terminal
         /\ terminal' = "none"
  <1> DEFINE e == CASE terminal # "none" -> terminal
                    [] terminal = "none" /\ expired -> "timeout"
                    [] terminal = "none" /\ ~expired /\ flag -> "killed"
                    [] OTHER -> "closed"
  <1>1. e \in ErrorsOrNone /\ (terminal # "none" => e = terminal)
    BY DEF ErrorsOrNone, Errors
  <1>2. Settled(c) \in {"failed", "gone"}
    BY DEF Settled
  <1>3. client' = [c EXCEPT !.st = Settled(c), !.by = by, !.err = e] /\ terminal' = "none"
    BY DEF Failure
  <1> HIDE DEF e
  <1> QED
    BY <1>1, <1>2, <1>3, Zenon DEF ClientType

\* A request is made: it is in the command channel, or the worker is gone.
Asks ==
  /\ client.st = "idle" /\ client'.n = client.n + 1
  /\ \/ /\ cmds' = Append(cmds, [n |-> client'.n, kind |-> client'.kind])
        /\ client'.st = "waiting" /\ client'.by = client.by /\ terminal' = terminal
        /\ client'.err = client.err
     \/ /\ cmds' = cmds
        /\ wk.pc = "gone" /\ client'.st \in {"failed", "gone"} /\ client'.by = "disconnect"
        /\ terminal # "none" => client'.err = terminal
  /\ UNCHANGED <<results, heard>>

Hears ==
  /\ client.st = "waiting" /\ results # <<>>
  /\ results' = Tail(results)
  /\ heard' = heard \union {[n |-> client.n, kind |-> client.kind, of |-> Head(results)]}
  /\ client'.st \in {"idle", "gone"}
  /\ client'.n = client.n /\ client'.kind = client.kind
  /\ client'.by = client.by /\ client'.err = client.err
  /\ UNCHANGED <<cmds, terminal>>

GivesUp ==
  /\ client.st = "waiting" /\ client'.st \in {"failed", "gone"}
  /\ client'.n = client.n /\ client'.kind = client.kind
  /\ \/ wk.pc = "gone" /\ client'.by = "disconnect"
     \/ client'.by = "deadline"
  /\ terminal # "none" => client'.err = terminal
  /\ terminal' = "none"
  /\ UNCHANGED <<cmds, results, heard>>

Leaves ==
  /\ client.st \in {"idle", "failed"} /\ client'.st = "gone"
  /\ client'.n = client.n /\ client'.kind = client.kind
  /\ client'.by = client.by /\ client'.err = client.err
  /\ UNCHANGED <<cmds, results, heard, terminal>>

ClientMoves ==
  /\ Asks \/ Hears \/ GivesUp \/ Leaves
  /\ client' \in ClientType /\ terminal' \in ErrorsOrNone
  /\ UNCHANGED <<wk, tx, store, ran, feedVars>>

LEMMA ClientEffect == ASSUME Types, ClientStep PROVE ClientMoves
  <1>0. client \in ClientType /\ terminal \in ErrorsOrNone
    BY DEF Types
  <1>n. "none" \in ErrorsOrNone
    BY DEF ErrorsOrNone
  <1>1. ASSUME NEW kind \in DOMAIN Dispatch, Request(kind) PROVE ClientMoves
    <2> DEFINE c == [client EXCEPT !.st = "waiting", !.n = @ + 1, !.kind = kind]
    <2>1. kind \in Kinds
      BY DEF Dispatch, Kinds
    <2>2. /\ c \in ClientType /\ c.st = "waiting" /\ c.n = client.n + 1 /\ c.kind = kind
          /\ c.by = client.by /\ c.err = client.err
      <3>1. client.n + 1 \in Nat
        BY <1>0, SMTT(20), Z3T(20) DEF ClientType
      <3> QED
        BY <1>0, <2>1, <3>1, Zenon DEF ClientType
    <2>3. /\ client.st = "idle"
          /\ UNCHANGED <<results, wk, tx, store, ran, feedVars, heard>>
          /\ \/ /\ client' = c /\ terminal' = terminal
                /\ cmds' = Append(cmds, [n |-> c.n, kind |-> kind])
             \/ wk.pc = "gone" /\ Failure(c, "disconnect") /\ cmds' = cmds
      BY <1>1 DEF Request, WorkerHolds
    <2> HIDE DEF c
    <2>4. CASE /\ client' = c /\ terminal' = terminal
               /\ cmds' = Append(cmds, [n |-> c.n, kind |-> kind])
      BY <1>0, <2>2, <2>3, <2>4 DEF ClientMoves, Asks
    <2>5. CASE wk.pc = "gone" /\ Failure(c, "disconnect") /\ cmds' = cmds
      <3>1. /\ client' \in ClientType /\ client'.n = c.n /\ client'.kind = c.kind
            /\ client'.st \in {"failed", "gone"} /\ client'.by = "disconnect"
            /\ terminal # "none" => client'.err = terminal
            /\ terminal' = "none"
        BY <1>0, <2>2, <2>5, FailureEffect
      <3> QED
        BY <1>n, <2>2, <2>3, <2>5, <3>1 DEF ClientMoves, Asks
    <2> QED
      BY <2>3, <2>4, <2>5
  <1>2. CASE Receive
    <2>1. /\ client' \in ClientType /\ client'.st \in {"idle", "gone"}
          /\ client'.n = client.n /\ client'.kind = client.kind
          /\ client'.by = client.by /\ client'.err = client.err
      BY <1>0, <1>2 DEF Receive, ClientType
    <2> QED
      BY <1>0, <1>2, <2>1 DEF Receive, ClientMoves, Hears, workerVars
  <1>3. CASE ReceiveFails
    <2>1. PICK by \in {"disconnect", "deadline"} :
            (by = "disconnect" => wk.pc = "gone") /\ Failure(client, by)
      BY <1>3, Zenon DEF ReceiveFails, WorkerHolds
    <2>2. /\ client' \in ClientType /\ client'.n = client.n /\ client'.kind = client.kind
          /\ client'.st \in {"failed", "gone"} /\ client'.by = by
          /\ terminal # "none" => client'.err = terminal
          /\ terminal' = "none"
      BY <1>0, <2>1, FailureEffect
    <2> QED
      BY <1>n, <1>3, <2>1, <2>2 DEF ReceiveFails, ClientMoves, GivesUp
  <1>4. CASE DropClient
    <2>1. /\ client' \in ClientType /\ client'.st = "gone"
          /\ client'.n = client.n /\ client'.kind = client.kind
          /\ client'.by = client.by /\ client'.err = client.err
      BY <1>0, <1>4 DEF DropClient, ClientType
    <2> QED
      BY <1>0, <1>4, <2>1 DEF DropClient, ClientMoves, Leaves, workerVars
  <1> QED
    BY <1>1, <1>2, <1>3, <1>4 DEF ClientStep

Pcs == Active \union {"ack"} \union Ended

\* The worker goes on to pc, with everything else of it as it was.
Moves(pc) ==
  /\ wk' \in WorkerType /\ wk'.pc = pc
  /\ wk'.n = wk.n /\ wk'.why = wk.why /\ wk'.targets = wk.targets

LEMMA GotoMoves ==
  ASSUME wk \in WorkerType, NEW pc \in Pcs, NEW g \in BOOLEAN,
         Goto(pc) \/ wk' = [wk EXCEPT !.pc = pc, !.guard = g]
  PROVE  Moves(pc)
  BY Zenon DEF Goto, Moves, WorkerType, Pcs

\* The transaction is dropped with an error.
Fails ==
  /\ wk.pc \in Active
  /\ wk' \in WorkerType /\ wk'.pc = "failed" /\ wk'.targets = wk.targets
  /\ tx' = NoTx
  /\ cmds' = cmds \/ (cmds # <<>> /\ cmds' = Tail(cmds))
  /\ ran' \in RanType /\ ran'.ok = ran.ok
  /\ UNCHANGED <<results, terminal, store>>

LEMMA FailEffect ==
  ASSUME wk \in WorkerType, NEW e \in Errors, Fail(e)
  PROVE  /\ wk' \in WorkerType /\ wk'.pc = "failed" /\ wk'.targets = wk.targets
         /\ tx' = NoTx
  <1>1. e \in ErrorsOrNone /\ "failed" \in Active \union {"ack"} \union Ended
    BY DEF ErrorsOrNone, Ended
  <1> QED
    BY <1>1, Zenon DEF Fail, WorkerType

\* The worker goes on with what it is doing.
Advances ==
  /\ \E pc \in Active : Moves(pc)
  /\ wk.pc \in Active
  /\ wk.pc \in Serving <=> wk'.pc \in Serving
  /\ wk.pc \in Serving => KindOf(wk'.pc) = KindOf(wk.pc)
  /\ wk'.pc \in Querying => wk.pc \in Querying
  /\ wk'.pc # "unstarted"
  /\ tx' \in TxType /\ tx'.writes = tx.writes /\ tx'.events = tx.events
  /\ UNCHANGED <<cmds, results, terminal, store, ran>>

Starts ==
  /\ wk.pc = "unstarted"
  /\ wk' \in WorkerType /\ wk'.pc = "next" /\ wk'.n = wk.n /\ wk'.why = wk.why
  /\ wk'.targets = registry.ids
  /\ UNCHANGED <<cmds, results, terminal, store, ran, tx>>

Takes ==
  /\ wk.pc = "select" /\ cmds # <<>> /\ cmds' = <<>>
  /\ wk' \in WorkerType /\ wk'.n = client.n
  /\ \/ client.kind = "query" /\ wk'.pc = "query"
     \/ client.kind = "commit" /\ wk'.pc = "cleanup"
     \/ client.kind = "abort" /\ wk'.pc = "abort"
  /\ wk'.why = wk.why /\ wk'.targets = wk.targets
  /\ UNCHANGED <<results, terminal, store, ran, tx>>

\* A write query succeeds.
Writes ==
  /\ wk.pc = "run" /\ \E pc \in {"nap", "reply"} : Moves(pc)
  /\ tx' \in TxType /\ tx'.writes = tx.writes \union {wk.n}
  /\ tx'.events = IF wk.targets # {} THEN Append(tx.events, wk.n) ELSE tx.events
  /\ ran' \in RanType /\ ran'.ok = ran.ok \union {wk.n} /\ ran'.failed = ran.failed
  /\ UNCHANGED <<cmds, results, terminal, store>>

Replies ==
  /\ wk.pc = "reply" /\ Moves("next") /\ results' = Append(results, wk.n)
  /\ UNCHANGED <<cmds, terminal, store, ran, tx>>

Aborts ==
  /\ wk.pc = "abort" /\ Moves("leaving") /\ results' = Append(results, wk.n)
  /\ tx' = NoTx
  /\ UNCHANGED <<cmds, terminal, store, ran>>

Commits ==
  /\ wk.pc = "commit" /\ Moves("ack")
  /\ store' = store \union tx.writes
  /\ tx' \in TxType /\ tx'.events = tx.events
  /\ UNCHANGED <<cmds, results, terminal, ran>>

Acks ==
  /\ wk.pc = "ack" /\ wk' \in WorkerType /\ wk'.pc = "feed" /\ wk'.targets = wk.targets
  /\ results' \in {results, Append(results, wk.n)}
  /\ tx' = NoTx
  /\ UNCHANGED <<cmds, terminal, store, ran>>

\* Nothing is left to do but to say why, and to go.
Ends ==
  /\ \/ wk.pc = "feed" /\ sending["worker"].st = "done" /\ wk.why = "none" /\ Moves("leaving")
     \/ wk.pc = "feed" /\ sending["worker"].st = "done" /\ Moves("failed")
     \/ wk.pc \in {"unstarted", "leaving"} /\ Moves("gone")
  /\ UNCHANGED <<cmds, results, terminal, store, ran, tx>>

Records ==
  /\ wk.pc = "failed" /\ Moves("leaving") /\ terminal' = wk.why
  /\ UNCHANGED <<cmds, results, store, ran, tx>>

WorkerMoves ==
  /\ UNCHANGED <<client, heard>>
  /\ \/ /\ UNCHANGED feedVars
        /\ \/ Fails \/ Advances \/ Starts \/ Takes \/ Writes \/ Replies
           \/ Aborts \/ Commits \/ Ends \/ Records
     \/ /\ Acks
        /\ sending' = [sending EXCEPT !["worker"] = Sending(tx.events)]
        /\ UNCHANGED <<registry, chan, got, alive>>

LEMMA WorkerEffect == ASSUME Types, Handshake, WorkerStep PROVE WorkerMoves
  <1>0. wk \in WorkerType /\ tx \in TxType /\ ran \in RanType /\ wk.guard \in BOOLEAN
    BY DEF Types, WorkerType
  <1>e. /\ {"timeout", "killed", "closed", "query", "storage"} = Errors
        /\ PoisonErr \in Errors
    BY DEF Errors, PoisonErr
  <1>p. /\ Active = {"unstarted", "next", "select", "query", "lock", "sleep", "run", "nap",
                     "reply", "abort", "cleanup", "commit"}
        /\ Serving = {"query", "lock", "sleep", "run", "nap", "reply", "abort", "cleanup",
                      "commit", "ack"}
        /\ Querying = {"query", "lock", "sleep", "run"}
        /\ Active \subseteq Pcs
    BY DEF Active, Serving, Querying, Pcs
  <1>k. /\ \A pc \in Querying \union {"nap", "reply"} : KindOf(pc) = "query"
        /\ KindOf("abort") = "abort"
        /\ \A pc \in {"cleanup", "commit", "ack"} : KindOf(pc) = "commit"
    BY DEF KindOf, Querying
  <1>f. ASSUME NEW err \in Errors, Fail(err), wk.pc \in Active,
               cmds' = cmds \/ (cmds # <<>> /\ cmds' = Tail(cmds)),
               ran' \in RanType, ran'.ok = ran.ok,
               UNCHANGED <<client, heard, results, terminal, store, feedVars>>
        PROVE  WorkerMoves
    BY <1>0, <1>f, FailEffect DEF WorkerMoves, Fails
  <1>a. ASSUME NEW pc \in Active, Goto(pc) \/ \E g \in BOOLEAN : wk' = [wk EXCEPT !.pc = pc, !.guard = g],
               wk.pc \in Active, wk.pc \in Serving <=> pc \in Serving,
               wk.pc \in Serving => KindOf(pc) = KindOf(wk.pc),
               pc \in Querying => wk.pc \in Querying, pc # "unstarted",
               tx' \in TxType, tx'.writes = tx.writes, tx'.events = tx.events,
               UNCHANGED <<client, heard, cmds, results, terminal, store, ran, feedVars>>
        PROVE  WorkerMoves
    <2>1. Moves(pc)
      BY <1>0, <1>p, <1>a, GotoMoves, Zenon
    <2>2. wk'.pc = pc
      BY <2>1 DEF Moves
    <2> QED
      BY <1>a, <2>1, <2>2, Zenon DEF WorkerMoves, Advances
  <1>1. CASE Start
    <2>1. CASE (Poisoned /\ Fail(PoisonErr)) \/ Fail("storage")
      BY <1>0, <1>1, <1>e, <1>f, <1>p, <2>1 DEF Start, Quiet
    <2>2. CASE wk' = [wk EXCEPT !.pc = "next", !.targets = registry.ids] /\ UNCHANGED tx
      <3>1. /\ wk' = [wk EXCEPT !.pc = "next", !.targets = registry.ids] /\ UNCHANGED tx
            /\ registry.ids \in SUBSET Subs /\ wk.pc = "unstarted" /\ "next" \in Pcs
        BY <1>1, <1>p, <2>2 DEF Start, Types, RegistryType
      <3>2. /\ wk' \in WorkerType /\ wk'.pc = "next" /\ wk'.n = wk.n /\ wk'.why = wk.why
            /\ wk'.targets = registry.ids
        BY <1>0, <3>1, Zenon DEF WorkerType, Pcs
      <3> QED
        BY <1>1, <3>1, <3>2 DEF Start, Quiet, WorkerMoves, Starts
    <2> QED
      BY <1>1, <2>1, <2>2 DEF Start
  <1>2. CASE Next1
    <2>1. CASE Poisoned
      BY <1>0, <1>2, <1>e, <1>f, <1>p, <2>1 DEF Next1, Quiet
    <2>2. CASE ~Poisoned
      BY <1>0, <1>2, <1>a, <1>p, <2>2, Zenon DEF Next1, Quiet
    <2> QED
      BY <2>1, <2>2
  <1>3. CASE TakeCommand
    <2>1. CASE Poisoned
      BY <1>0, <1>3, <1>e, <1>f, <1>p, <2>1 DEF TakeCommand, Quiet
    <2>2. CASE ~Poisoned
      <3>1. cmds = <<[n |-> client.n, kind |-> client.kind]>> /\ wk.pc = "select"
        BY <1>3 DEF TakeCommand, Handshake
      <3>2. /\ Head(cmds).n = client.n /\ Head(cmds).kind = client.kind
            /\ Tail(cmds) = <<>> /\ cmds # <<>>
        BY <3>1
      <3>3. /\ wk' = [wk EXCEPT !.pc = Dispatch[client.kind], !.n = client.n]
            /\ client.kind \in Kinds /\ client.n \in Nat /\ cmds' = <<>>
        <4>1. client.kind \in Kinds /\ client.n \in Nat
          BY DEF Types, ClientType
        <4> QED
          BY <1>3, <2>2, <3>2, <4>1, Zenon DEF TakeCommand
      <3>4. \E pc \in Pcs : /\ wk' = [wk EXCEPT !.pc = pc, !.n = client.n]
                            /\ \/ client.kind = "query" /\ pc = "query"
                               \/ client.kind = "commit" /\ pc = "cleanup"
                               \/ client.kind = "abort" /\ pc = "abort"
        <4>1. /\ Dispatch["query"] = "query" /\ Dispatch["commit"] = "cleanup"
              /\ Dispatch["abort"] = "abort"
          BY DEF Dispatch
        <4> QED
          BY <1>p, <3>3, <4>1, Zenon DEF Kinds
      <3>5. /\ wk' \in WorkerType /\ wk'.n = client.n
            /\ \/ client.kind = "query" /\ wk'.pc = "query"
               \/ client.kind = "commit" /\ wk'.pc = "cleanup"
               \/ client.kind = "abort" /\ wk'.pc = "abort"
            /\ wk'.why = wk.why /\ wk'.targets = wk.targets
        BY <1>0, <3>3, <3>4, Zenon DEF WorkerType, Pcs
      <3> QED
        BY <1>3, <2>2, <3>1, <3>2, <3>3, <3>5 DEF TakeCommand, Quiet, WorkerMoves, Takes
    <2> QED
      BY <2>1, <2>2
  <1>4. CASE TakeNothing
    BY <1>0, <1>4, <1>e, <1>f, <1>p DEF TakeNothing, Quiet
  <1>5. ASSUME NEW writes \in BOOLEAN, BeginQuery(writes) PROVE WorkerMoves
    <2>1. CASE Fail("query") /\ ran' = [ran EXCEPT !.failed = TRUE]
      <3>1. ran' \in RanType /\ ran'.ok = ran.ok
        BY <1>0, <2>1, Zenon DEF RanType
      <3> QED
        BY <1>0, <1>5, <1>e, <1>f, <1>p, <2>1, <3>1 DEF BeginQuery, Quiet
    <2>2. CASE Goto(IF writes THEN "lock" ELSE "run") /\ UNCHANGED <<tx, ran>>
      BY <1>0, <1>5, <1>a, <1>p, <1>k, <2>2, Zenon DEF BeginQuery, Quiet
    <2> QED
      BY <1>5, <2>1, <2>2 DEF BeginQuery
  <1>6. ASSUME NEW busy \in BOOLEAN, TryLock(busy) PROVE WorkerMoves
    <2>1. CASE Poisoned
      BY <1>0, <1>6, <1>e, <1>f, <1>p, <2>1 DEF TryLock, Quiet
    <2>2. CASE ~Poisoned
      BY <1>0, <1>6, <1>a, <1>p, <1>k, <2>2, Zenon, SMTT(20) DEF TryLock, Quiet
    <2> QED
      BY <2>1, <2>2
  <1>7. ASSUME NEW pc \in {"sleep", "nap"}, NEW back \in {"lock", "reply"},
               pc = "sleep" <=> back = "lock", Sleep(pc, back)
        PROVE  WorkerMoves
    <2>1. CASE (Poisoned /\ Fail(PoisonErr)) \/ Fail("killed") \/ Fail("timeout")
      BY <1>0, <1>7, <1>e, <1>f, <1>p, <2>1 DEF Sleep, Quiet
    <2>2. CASE ~Poisoned /\ Goto(back) /\ UNCHANGED tx
      BY <1>0, <1>7, <1>a, <1>p, <1>k, <2>2, Zenon DEF Sleep, Quiet
    <2> QED
      BY <1>7, <2>1, <2>2 DEF Sleep
  <1>8. ASSUME NEW naps \in BOOLEAN, RunQuery(naps) PROVE WorkerMoves
    <2>1. CASE Poisoned /\ Fail(PoisonErr) /\ UNCHANGED ran
      BY <1>0, <1>8, <1>e, <1>f, <1>p, <2>1 DEF RunQuery, Quiet
    <2>2. CASE Fail("query") /\ ran' = [ran EXCEPT !.failed = TRUE]
      <3>1. ran' \in RanType /\ ran'.ok = ran.ok
        BY <1>0, <2>2, Zenon DEF RanType
      <3> QED
        BY <1>0, <1>8, <1>e, <1>f, <1>p, <2>2, <3>1 DEF RunQuery, Quiet
    <2> DEFINE pc == IF naps THEN "nap" ELSE "reply"
               tx1 == [tx EXCEPT !.writes = @ \union {wk.n},
                                 !.events = IF wk.targets # {} THEN Append(@, wk.n) ELSE @,
                                 !.cleanups = @ \union ({wk.n} \intersect Replacing)]
    <2>3. CASE ~Poisoned /\ Goto(pc) /\ ~wk.guard /\ UNCHANGED <<tx, ran>>
      <3>1. pc \in {"nap", "reply"} /\ wk.pc = "run"
        BY <1>8 DEF RunQuery
      <3> HIDE DEF pc
      <3> QED
        BY <1>0, <1>8, <1>a, <1>p, <1>k, <2>3, <3>1, Zenon DEF RunQuery, Quiet
    <2>4. CASE ~Poisoned /\ Goto(pc) /\ tx' = tx1 /\ ran' = [ran EXCEPT !.ok = @ \union {wk.n}]
      <3>1. pc \in {"nap", "reply"} /\ pc \in Pcs /\ wk.pc = "run" /\ wk.n \in Nat
        BY <1>0, <1>8, <1>p DEF RunQuery, WorkerType
      <3>2. Moves(pc)
        BY <1>0, <2>4, <3>1, GotoMoves, Zenon
      <3>3. ran' \in RanType /\ ran'.ok = ran.ok \union {wk.n} /\ ran'.failed = ran.failed
        BY <1>0, <2>4, <3>1 DEF RanType
      <3>4. /\ tx.writes \union {wk.n} \in SUBSET Nat
            /\ Append(tx.events, wk.n) \in Seq(Nat) /\ tx.events \in Seq(Nat)
            /\ tx.cleanups \union ({wk.n} \intersect Replacing) \in SUBSET Nat
        BY <1>0, <3>1, SMTT(20), Z3T(20) DEF TxType
      <3>5. /\ tx' \in TxType /\ tx'.writes = tx.writes \union {wk.n}
            /\ tx'.events = IF wk.targets # {} THEN Append(tx.events, wk.n) ELSE tx.events
        BY <1>0, <2>4, <3>4, Zenon DEF TxType
      <3> QED
        BY <1>8, <3>1, <3>2, <3>3, <3>5 DEF RunQuery, Quiet, WorkerMoves, Writes
    <2> QED
      BY <1>0, <1>8, <2>1, <2>2, <2>3, <2>4 DEF RunQuery
  <1>9. CASE ReplyQuery
    <2>1. CASE Poisoned \/ ~CanReply
      BY <1>0, <1>9, <1>e, <1>f, <1>p, <2>1 DEF ReplyQuery, Quiet
    <2>2. CASE ~Poisoned /\ CanReply
      <3>1. Moves("next")
        BY <1>0, <1>9, <1>p, <2>2, GotoMoves, Zenon DEF ReplyQuery
      <3> QED
        BY <1>9, <2>2, <3>1 DEF ReplyQuery, Quiet, WorkerMoves, Replies
    <2> QED
      BY <2>1, <2>2
  <1>10. CASE AbortTx
    <2>1. CASE CanReply
      <3>1. Moves("leaving")
        BY <1>0, <1>10, <2>1, GotoMoves, Zenon DEF AbortTx, Pcs, Ended
      <3> QED
        BY <1>10, <2>1, <3>1 DEF AbortTx, Quiet, WorkerMoves, Aborts
    <2>2. CASE ~CanReply
      <3>1. "closed" \in ErrorsOrNone /\ "failed" \in Pcs
        BY <1>e DEF ErrorsOrNone, Pcs, Ended
      <3>2. wk' \in WorkerType /\ wk'.pc = "failed" /\ wk'.targets = wk.targets
        BY <1>0, <1>10, <2>2, <3>1, Zenon DEF AbortTx, WorkerType, Pcs
      <3> QED
        BY <1>0, <1>10, <1>p, <2>2, <3>2, Zenon DEF AbortTx, Quiet, WorkerMoves, Fails
    <2> QED
      BY <2>1, <2>2
  <1>11. CASE Cleanup
    <2>1. CASE (Poisoned /\ Fail(PoisonErr)) \/ Fail("storage")
      BY <1>0, <1>11, <1>e, <1>f, <1>p, <2>1, Zenon DEF Cleanup, Quiet
    <2>2. CASE Goto("commit") /\ UNCHANGED tx
      BY <1>0, <1>11, <1>a, <1>p, <1>k, <2>2, Zenon DEF Cleanup, Quiet
    <2>3. ASSUME NEW n \in NextCleanup, UNCHANGED wk,
                 tx' = [tx EXCEPT !.cleanups = @ \ {n}, !.dels = @ \union ({n} \ GoneAtOnce(n))]
          PROVE  WorkerMoves
      <3>1. n \in Nat /\ tx.cleanups \in SUBSET Nat /\ tx.dels \in SUBSET Nat
        BY <1>0 DEF TxType, NextCleanup
      <3>2. tx' \in TxType /\ tx'.writes = tx.writes /\ tx'.events = tx.events
        BY <1>0, <2>3, <3>1, Zenon DEF TxType
      <3>3. Moves("cleanup") /\ wk.pc = "cleanup"
        BY <1>0, <1>11, <2>3, Zenon DEF Cleanup, Moves
      <3> QED
        BY <1>11, <1>p, <2>3, <3>2, <3>3, Zenon DEF Cleanup, Quiet, WorkerMoves, Advances
    <2> QED
      BY <1>11, <2>1, <2>2, <2>3, Zenon DEF Cleanup
  <1>12. CASE CommitTx
    <2>1. CASE Fail("storage") /\ UNCHANGED store
      BY <1>0, <1>12, <1>e, <1>f, <1>p, <2>1 DEF CommitTx, Quiet
    <2>2. CASE /\ store' = store \union tx.writes /\ tx' = [NoTx EXCEPT !.events = tx.events]
               /\ Goto("ack")
      <3>1. Moves("ack")
        BY <1>0, <2>2, GotoMoves, Zenon DEF Pcs
      <3>2. tx' \in TxType /\ tx'.events = tx.events
        BY <1>0, <2>2 DEF TxType, NoTx
      <3> QED
        BY <1>12, <2>2, <3>1, <3>2 DEF CommitTx, Quiet, WorkerMoves, Commits
    <2> QED
      BY <1>12, <2>1, <2>2 DEF CommitTx
  <1>13. CASE AckCommit
    <2>1. "closed" \in ErrorsOrNone /\ "feed" \in Pcs
      BY <1>e DEF ErrorsOrNone, Pcs, Ended
    <2>2. wk' \in WorkerType /\ wk'.pc = "feed" /\ wk'.targets = wk.targets
      BY <1>0, <1>13, <2>1, Zenon DEF AckCommit, Goto, WorkerType, Pcs
    <2> QED
      BY <1>13, <2>2 DEF AckCommit, Quiet, WorkerMoves, Acks
  <1>14. CASE FeedSent \/ DropWorker \/ Leave
    <2>1. {"leaving", "failed", "gone"} \subseteq Pcs
      BY DEF Pcs, Ended
    <2>2. CASE FeedSent
      <3>1. Moves(IF wk.why = "none" THEN "leaving" ELSE "failed")
        BY <1>0, <2>1, <2>2, GotoMoves, Zenon DEF FeedSent
      <3> QED
        BY <2>2, <3>1 DEF FeedSent, Quiet, WorkerMoves, Ends
    <2>3. CASE DropWorker \/ Leave
      <3>1. Moves("gone")
        BY <1>0, <2>1, <2>3, GotoMoves, Zenon DEF DropWorker, Leave
      <3> QED
        BY <2>3, <3>1 DEF DropWorker, Leave, Quiet, WorkerMoves, Ends
    <2> QED
      BY <1>14, <2>2, <2>3
  <1>15. CASE Record
    <2>1. Moves("leaving")
      BY <1>0, <1>15, GotoMoves, Zenon DEF Record, Pcs, Ended
    <2> QED
      BY <1>15, <2>1 DEF Record, Quiet, WorkerMoves, Records
  <1> QED
    BY <1>1, <1>2, <1>3, <1>4, <1>5, <1>6, <1>7, <1>8, <1>9, <1>10, <1>11, <1>12, <1>13, <1>14,
       <1>15 DEF WorkerStep

\* The canceller, the clock, the feed and its subscribers leave client and worker
\* alone.
Elsewhere == UNCHANGED <<client, cmds, results, terminal, wk, tx, store, heard, ran>>

FeedStep ==
  \/ \E w \in Senders : SendStep(w)
  \/ LegacyCommit
  \/ \E s \in Subs : Drain(s) \/ DropReceiver(s) \/ Unregister(s)
  \/ Register

LEMMA StepKinds ==
  ASSUME Types, Handshake, Next
  PROVE  \/ ClientMoves \/ WorkerMoves
         \/ Elsewhere /\ (FeedStep \/ UNCHANGED feedVars)
  <1>1. CASE ClientStep
    BY <1>1, ClientEffect
  <1>2. CASE WorkerStep
    BY <1>2, WorkerEffect
  <1>3. CASE CancelFlag \/ CancelWake \/ Expire
    BY <1>3 DEF CancelFlag, CancelWake, Expire, workerVars, Elsewhere
  <1>4. CASE FeedStep
    <2>1. UNCHANGED feedQuiet
      BY <1>4, Zenon, SMTT(20) DEF FeedStep, SendStep, TakeEvent, SendOne, EventSent, Sweep, LegacyCommit,
        Drain, DropReceiver, Unregister, Register
    <2> QED
      BY <1>4, <2>1 DEF feedQuiet, workerVars, Elsewhere
  <1> QED
    BY <1>1, <1>2, <1>3, <1>4 DEF Next, FeedStep

-----------------------------------------------------------------------------
(* The exchange between client and worker. *)

LEMMA HandshakeStep ==
  ASSUME Types, Handshake, ClientMoves \/ WorkerMoves \/ Elsewhere
  PROVE  Handshake'
  <1>0. client.n \in Nat
    BY DEF Types, ClientType
  <1>p. /\ Active = {"unstarted", "next", "select", "query", "lock", "sleep", "run", "nap",
                     "reply", "abort", "cleanup", "commit"}
        /\ Serving = {"query", "lock", "sleep", "run", "nap", "reply", "abort", "cleanup",
                      "commit", "ack"}
    BY DEF Active, Serving, Querying
  <1>k. /\ KindOf("query") = "query" /\ KindOf("abort") = "abort"
        /\ \A pc \in {"cleanup", "commit", "ack"} : KindOf(pc) = "commit"
        /\ \A pc \in {"run", "nap", "reply"} : KindOf(pc) = "query"
    BY DEF KindOf, Querying
  <1>t. ASSUME NEW x PROVE /\ Append(<<>>, x) = <<x>> /\ Tail(<<x>>) = <<>> /\ <<x>> # <<>>
                           /\ Head(<<x>>) = x
    BY SMTT(20), Z3T(20)
  <1>1. CASE ClientMoves /\ Asks
    BY <1>1, <1>t, <1>0 DEF ClientMoves, Asks, Handshake
  <1>2. CASE ClientMoves /\ Hears
    BY <1>2, <1>t DEF ClientMoves, Hears, Handshake
  <1>3. CASE ClientMoves /\ (GivesUp \/ Leaves)
    BY <1>3 DEF ClientMoves, GivesUp, Leaves, Handshake
  <1>4. CASE WorkerMoves /\ Fails
    BY <1>4, <1>t, <1>p, Zenon DEF WorkerMoves, Fails, Handshake
  <1>5. CASE WorkerMoves /\ Advances
    BY <1>5, Zenon, SMTT(20) DEF WorkerMoves, Advances, Moves, Handshake
  <1>6. CASE WorkerMoves /\ (Starts \/ Ends \/ Records)
    BY <1>6, <1>p DEF WorkerMoves, Starts, Ends, Records, Moves, Handshake
  <1>7. CASE WorkerMoves /\ Takes
    BY <1>7, <1>p, <1>k, Zenon, SMTT(20) DEF WorkerMoves, Takes, Handshake
  <1>8. CASE WorkerMoves /\ (Writes \/ Commits)
    BY <1>8, <1>p, <1>k, SMTT(20), Z3T(20) DEF WorkerMoves, Writes, Commits, Moves, Handshake
  <1>9. CASE WorkerMoves /\ (Replies \/ Aborts \/ Acks)
    BY <1>9, <1>p, <1>t, Zenon, SMTT(20) DEF WorkerMoves, Replies, Aborts, Acks, Moves, Handshake
  <1>10. CASE Elsewhere
    BY <1>10, Zenon DEF Elsewhere, Handshake
  <1> QED
    BY <1>1, <1>2, <1>3, <1>4, <1>5, <1>6, <1>7, <1>8, <1>9, <1>10 DEF ClientMoves, WorkerMoves

LEMMA AccountsStep ==
  ASSUME Types, Handshake, Accounts, ClientMoves \/ WorkerMoves \/ Elsewhere
  PROVE  Accounts'
  <1>0. /\ client.n \in Nat /\ ran.ok \in SUBSET Nat
    BY DEF Types, ClientType, RanType
  <1>p. /\ Active = {"unstarted", "next", "select", "query", "lock", "sleep", "run", "nap",
                     "reply", "abort", "cleanup", "commit"}
        /\ Serving = {"query", "lock", "sleep", "run", "nap", "reply", "abort", "cleanup",
                      "commit", "ack"}
        /\ Querying = {"query", "lock", "sleep", "run"}
    BY DEF Active, Serving, Querying
  <1>t. ASSUME NEW x PROVE Tail(<<x>>) = <<>> /\ <<x>> # <<>>
    OBVIOUS
  <1>1. CASE ClientMoves /\ Asks
    <2>1. /\ UNCHANGED <<wk, tx, store, ran>> /\ wk.pc \notin Querying
          /\ client'.n = client.n + 1
      BY <1>1, <1>p DEF ClientMoves, Asks, Handshake
    <2>2. /\ \A e \in ran.ok : e <= client'.n
          /\ client'.n \notin ran.ok
      BY <1>0, <2>1 DEF Accounts
    <2> QED
      BY <2>1, <2>2, Zenon DEF Accounts
  <1>2. CASE ClientMoves /\ (Hears \/ GivesUp \/ Leaves)
    <2>1. UNCHANGED <<wk, tx, store, ran, cmds>> /\ client'.n = client.n
      BY <1>2, Zenon DEF ClientMoves, Hears, GivesUp, Leaves
    <2> QED
      BY <2>1, Zenon DEF Accounts
  <1>4. CASE WorkerMoves /\ Fails
    BY <1>4, <1>p, <1>t DEF WorkerMoves, Fails, Handshake, Accounts
  <1>5. CASE WorkerMoves /\ Advances
    BY <1>5, <1>p, Zenon DEF WorkerMoves, Advances, Moves, Accounts
  <1>6. CASE WorkerMoves /\ (Starts \/ Ends \/ Records)
    BY <1>6, <1>p, Zenon DEF WorkerMoves, Starts, Ends, Records, Moves, Accounts
  <1>7. CASE WorkerMoves /\ Takes
    BY <1>7, <1>p DEF WorkerMoves, Takes, Accounts
  <1>8. CASE WorkerMoves /\ Writes
    <2>1. wk.n = client.n /\ wk.pc = "run" /\ cmds = <<>>
      BY <1>8, <1>p, Zenon DEF WorkerMoves, Writes, Handshake
    <2>2. /\ UNCHANGED <<client, store, cmds>> /\ wk'.pc \in {"nap", "reply"}
          /\ tx'.writes = tx.writes \union {client.n}
          /\ ran'.ok = ran.ok \union {client.n} /\ ran'.failed = ran.failed
      BY <1>8, <2>1 DEF WorkerMoves, Writes, Moves
    <2>3. client.n <= client.n
      BY <1>0
    <2> QED
      BY <1>p, <2>1, <2>2, <2>3, Zenon DEF Accounts
  <1>9. CASE WorkerMoves /\ Commits
    BY <1>9, <1>p, Zenon DEF WorkerMoves, Commits, Moves, Accounts, Handshake
  <1>10. CASE WorkerMoves /\ (Replies \/ Aborts \/ Acks)
    BY <1>10, <1>p, Zenon DEF WorkerMoves, Replies, Aborts, Acks, Moves, Accounts
  <1>11. CASE Elsewhere
    BY <1>11, Zenon DEF Elsewhere, Accounts
  <1> QED
    BY <1>1, <1>2, <1>4, <1>5, <1>6, <1>7, <1>8, <1>9, <1>10, <1>11 DEF ClientMoves, WorkerMoves

LEMMA AnswersStep ==
  ASSUME Types, Handshake, Accounts, Answers, ClientMoves \/ WorkerMoves \/ Elsewhere
  PROVE  Answers'
  <1>p. /\ Active = {"unstarted", "next", "select", "query", "lock", "sleep", "run", "nap",
                     "reply", "abort", "cleanup", "commit"}
        /\ Serving = {"query", "lock", "sleep", "run", "nap", "reply", "abort", "cleanup",
                      "commit", "ack"}
        /\ Ended = {"feed", "failed", "leaving", "gone"}
    BY DEF Active, Serving, Querying, Ended
  <1>k. /\ KindOf("abort") = "abort" /\ KindOf("ack") = "commit"
        /\ \A pc \in {"run", "nap", "reply"} : KindOf(pc) = "query"
    BY DEF KindOf, Querying
  <1>t. ASSUME NEW x PROVE Tail(<<x>>) = <<>> /\ <<x>> # <<>> /\ Head(<<x>>) = x
    BY SMTT(20), Z3T(20)
  <1>1. CASE ClientMoves /\ Asks
    BY <1>1 DEF ClientMoves, Asks, Handshake, Answers
  <1>2. CASE ClientMoves /\ Hears
    <2> DEFINE h1 == [n |-> client.n, kind |-> client.kind, of |-> Head(results)]
    <2>1. /\ results = <<client.n>> /\ results' = <<>> /\ heard' = heard \union {h1}
          /\ UNCHANGED <<wk, store, ran>>
      BY <1>2, <1>t DEF ClientMoves, Hears, Handshake
    <2>2. h1.n = client.n /\ h1.kind = client.kind /\ h1.of = client.n
      BY <2>1, <1>t
    <2>3. results # <<>>
      BY <2>1, <1>t
    <2> HIDE DEF h1
    <2> QED
      BY <2>1, <2>2, <2>3, Zenon DEF Answers
  <1>3. CASE ClientMoves /\ (GivesUp \/ Leaves)
    BY <1>3, Zenon, SMTT(20) DEF ClientMoves, GivesUp, Leaves, Answers
  <1>4. CASE WorkerMoves /\ (Fails \/ Ends \/ Records)
    BY <1>4, <1>p, Zenon DEF WorkerMoves, Fails, Ends, Records, Moves, Answers
  <1>5. CASE WorkerMoves /\ (Advances \/ Starts \/ Takes)
    BY <1>5, <1>p, Zenon DEF WorkerMoves, Advances, Starts, Takes, Moves, Answers
  <1>8. CASE WorkerMoves /\ (Writes \/ Commits)
    BY <1>8, <1>p, Zenon DEF WorkerMoves, Writes, Commits, Moves, Handshake, Answers
  <1>9. CASE WorkerMoves /\ Replies
    BY <1>9, <1>p, <1>k, Zenon DEF WorkerMoves, Replies, Moves, Handshake, Answers
  <1>10. CASE WorkerMoves /\ (Aborts \/ Acks)
    <2>1. /\ wk.pc \in {"abort", "ack"} /\ wk'.pc \in Ended /\ UNCHANGED <<client, heard, store, ran>>
          /\ client.kind = KindOf(wk.pc)
      BY <1>10, <1>p, Zenon DEF WorkerMoves, Aborts, Acks, Moves, Handshake
    <2>2. /\ wk.pc = "abort" => store = {}
          /\ wk.pc = "ack" => store = ran.ok
      BY <1>p DEF Accounts
    <2> QED
      BY <1>p, <1>k, <2>1, <2>2 DEF Answers
  <1>11. CASE Elsewhere
    BY <1>11 DEF Elsewhere, Answers
  <1> QED
    BY <1>1, <1>2, <1>3, <1>4, <1>5, <1>8, <1>9, <1>10, <1>11 DEF ClientMoves, WorkerMoves

LEMMA FirstErrorStep ==
  ASSUME Types, FirstError, ClientMoves \/ WorkerMoves \/ Elsewhere
  PROVE  FirstError'
  <1>p. /\ Active = {"unstarted", "next", "select", "query", "lock", "sleep", "run", "nap",
                     "reply", "abort", "cleanup", "commit"}
        /\ client.by \in {"none", "disconnect", "deadline"}
    BY DEF Active, Serving, Querying, Types, ClientType
  <1> USE DEF FirstError, FirstErrorSurvives
  <1>1. CASE ClientMoves /\ Asks
    BY <1>1, <1>p DEF ClientMoves, Asks
  <1>2. CASE ClientMoves /\ GivesUp
    BY <1>2, <1>p, Zenon DEF ClientMoves, GivesUp
  <1>3. CASE ClientMoves /\ (Hears \/ Leaves)
    BY <1>3, <1>p DEF ClientMoves, Hears, Leaves
  <1>4. CASE WorkerMoves /\ Fails
    BY <1>4, <1>p DEF WorkerMoves, Fails
  <1>5. CASE WorkerMoves /\ (Advances \/ Starts \/ Takes)
    BY <1>5, <1>p, Zenon DEF WorkerMoves, Advances, Starts, Takes, Moves
  <1>6. CASE WorkerMoves /\ (Writes \/ Replies \/ Aborts)
    BY <1>6, <1>p, Zenon, SMTT(20) DEF WorkerMoves, Writes, Replies, Aborts, Moves
  <1>7. CASE WorkerMoves /\ (Commits \/ Acks \/ Records)
    BY <1>7, <1>p, Zenon DEF WorkerMoves, Commits, Acks, Records, Moves
  <1>8. CASE WorkerMoves /\ Ends
    BY <1>8, <1>p DEF WorkerMoves, Ends, Moves
  <1>9. CASE Elsewhere
    BY <1>9 DEF Elsewhere
  <1> QED
    BY <1>1, <1>2, <1>3, <1>4, <1>5, <1>6, <1>7, <1>8, <1>9, Zenon DEF ClientMoves, WorkerMoves

LEMMA TypesStep ==
  ASSUME Types, ClientMoves \/ WorkerMoves \/ (Elsewhere /\ UNCHANGED feedVars)
  PROVE  Types'
  <1>0. /\ client \in ClientType /\ terminal \in ErrorsOrNone /\ wk \in WorkerType
        /\ tx \in TxType /\ store \in SUBSET Nat /\ ran \in RanType
        /\ wk.why \in ErrorsOrNone /\ tx.writes \in SUBSET Nat /\ tx.events \in Seq(Nat)
    BY DEF Types, WorkerType, TxType
  <1>n. NoTx \in TxType
    BY SMTT(20), Z3T(20) DEF NoTx, TxType
  <1>f. UNCHANGED feedVars => /\ registry' \in RegistryType
                              /\ chan' \in [Subs -> Seq(Nat)] /\ got' \in [Subs -> Seq(Nat)]
                              /\ alive' \in SUBSET Subs
                              /\ sending' \in [Senders -> SenderType]
    BY DEF Types, feedVars
  <1>1. CASE ClientMoves
    BY <1>1, <1>0, <1>f DEF ClientMoves, Types
  <1>2. CASE WorkerMoves /\ UNCHANGED feedVars
    <2>1. /\ client' \in ClientType
          /\ store' \in SUBSET Nat
      BY <1>2, <1>0, Zenon DEF WorkerMoves, Fails, Advances, Starts, Takes, Writes, Replies, Aborts,
        Commits, Acks, Ends, Records
    <2>2. wk' \in WorkerType
      BY <1>2, Zenon DEF WorkerMoves, Fails, Advances, Starts, Takes, Writes, Replies, Aborts,
        Commits, Acks, Ends, Records, Moves
    <2>3. tx' \in TxType
      BY <1>2, <1>0, <1>n, Zenon DEF WorkerMoves, Fails, Advances, Starts, Takes, Writes, Replies, Aborts,
        Commits, Acks, Ends, Records
    <2>4. ran' \in RanType /\ terminal' \in ErrorsOrNone
      BY <1>2, <1>0, Zenon DEF WorkerMoves, Fails, Advances, Starts, Takes, Writes, Replies, Aborts,
        Commits, Acks, Ends, Records
    <2> QED
      BY <1>2, <1>f, <2>1, <2>2, <2>3, <2>4, Zenon DEF Types
  <1>3. CASE WorkerMoves /\ Acks /\ sending' = [sending EXCEPT !["worker"] = Sending(tx.events)]
                         /\ UNCHANGED <<registry, chan, got, alive>>
    <2>1. Sending(tx.events) \in SenderType
      BY <1>0 DEF Sending, SenderType
    <2>2. sending' \in [Senders -> SenderType]
      BY <1>3, <2>1, Zenon DEF Types
    <2>3. /\ client' \in ClientType /\ terminal' \in ErrorsOrNone /\ wk' \in WorkerType
          /\ tx' \in TxType /\ store' \in SUBSET Nat /\ ran' \in RanType
      BY <1>3, <1>0, <1>n DEF WorkerMoves, Acks
    <2> QED
      BY <1>3, <2>2, <2>3 DEF Types
  <1>4. CASE Elsewhere /\ UNCHANGED feedVars
    BY <1>4, <1>f DEF Elsewhere, Types
  <1> QED
    BY <1>1, <1>2, <1>3, <1>4 DEF WorkerMoves

LEMMA AppendRising ==
  ASSUME NEW q \in Seq(Nat), NEW e \in Nat, Rising(q), \A i \in 1..Len(q) : q[i] < e
  PROVE  Rising(Append(q, e))
  BY SMTT(20), Z3T(20) DEF Rising

LEMMA EventsStep ==
  ASSUME Types, Handshake, Accounts, Events, ClientMoves \/ WorkerMoves \/ Elsewhere
  PROVE  Events'
  <1>p. /\ Active = {"unstarted", "next", "select", "query", "lock", "sleep", "run", "nap",
                     "reply", "abort", "cleanup", "commit"}
        /\ Ended = {"feed", "failed", "leaving", "gone"}
        /\ Querying \subseteq Serving /\ "run" \in Querying
    BY DEF Active, Serving, Querying, Ended
  <1>1. CASE ClientMoves \/ Elsewhere
    <2>1. UNCHANGED <<wk, tx, ran>>
      BY <1>1 DEF ClientMoves, Elsewhere
    <2> QED
      BY <2>1, Zenon DEF Events
  <1>2. CASE WorkerMoves /\ (Fails \/ Aborts \/ Acks \/ Ends \/ Records)
    <2>1. wk'.pc \in Ended /\ wk'.pc # "unstarted"
      BY <1>2, <1>p, Zenon DEF WorkerMoves, Fails, Aborts, Acks, Ends, Records, Moves
    <2> QED
      BY <1>p, <2>1 DEF Events
  <1>3. CASE WorkerMoves /\ (Advances \/ Takes \/ Replies \/ Commits)
    <2>1. /\ wk.pc \in Active /\ tx'.events = tx.events /\ wk'.targets = wk.targets
          /\ wk'.pc = "unstarted" => wk.pc = "unstarted"
          /\ UNCHANGED ran
      BY <1>3, <1>p, Zenon DEF WorkerMoves, Advances, Takes, Replies, Commits, Moves
    <2> QED
      BY <2>1, Zenon DEF Events
  <1>4. CASE WorkerMoves /\ Starts
    <2>1. wk.pc = "unstarted" /\ wk'.pc = "next" /\ UNCHANGED <<tx, ran>>
      BY <1>4 DEF WorkerMoves, Starts
    <2> QED
      BY <1>p, <2>1 DEF Events
  <1>5. CASE WorkerMoves /\ Writes
    <2>1. /\ wk.pc = "run" /\ wk.n = client.n /\ wk.n \in Nat /\ wk'.targets = wk.targets
          /\ wk'.pc # "unstarted"
          /\ tx'.events = (IF wk.targets # {} THEN Append(tx.events, wk.n) ELSE tx.events)
          /\ ran'.ok = ran.ok \union {wk.n}
      BY <1>5, <1>p, Zenon DEF WorkerMoves, Writes, Moves, Handshake, Types, WorkerType
    <2>2. /\ Rising(tx.events) /\ tx.events \in Seq(Nat) /\ ran.ok \in SUBSET Nat
          /\ \A i \in 1..Len(tx.events) : tx.events[i] \in ran.ok
          /\ wk.targets # {} => \A e \in ran.ok : \E i \in 1..Len(tx.events) : tx.events[i] = e
      BY <1>p, <2>1, Zenon DEF Events, Types, TxType, RanType
    <2>3. CASE wk.targets = {}
      BY <2>1, <2>2, <2>3, Zenon DEF Events
    <2>4. CASE wk.targets # {}
      <3> DEFINE q == Append(tx.events, wk.n)
      <3>1. \A i \in 1..Len(tx.events) : tx.events[i] < wk.n
        <4>1. ASSUME NEW e \in ran.ok PROVE e < wk.n
          <5>1. e <= client.n /\ client.n \notin ran.ok /\ e \in Nat
            BY <1>p, <2>1, <2>2 DEF Accounts
          <5> QED
            BY <2>1, <5>1, SMTT(20), Z3T(20)
        <4> QED
          BY <2>2, <4>1
      <3>2. Rising(q)
        BY <2>1, <2>2, <3>1, AppendRising, Zenon
      <3>3. /\ Len(q) = Len(tx.events) + 1 /\ q[Len(q)] = wk.n /\ Len(tx.events) \in Nat
            /\ \A i \in 1..Len(tx.events) : q[i] = tx.events[i]
        BY <2>1, <2>2, SMTT(20), Z3T(20)
      <3>4. \A i \in 1..Len(q) : q[i] \in ran.ok \union {wk.n}
        BY <2>2, <3>3, SMTT(20), Z3T(20)
      <3>5. \A e \in ran.ok \union {wk.n} : \E i \in 1..Len(q) : q[i] = e
        <4>1. ASSUME NEW e \in ran.ok PROVE \E i \in 1..Len(q) : q[i] = e
          <5>1. PICK i \in 1..Len(tx.events) : tx.events[i] = e
            BY <2>2, <2>4
          <5>2. i \in 1..Len(q) /\ q[i] = e
            BY <3>3, <5>1, SMTT(20), Z3T(20)
          <5> QED
            BY <5>2
        <4>2. \E i \in 1..Len(q) : q[i] = wk.n
          BY <3>3, SMTT(20), Z3T(20)
        <4> QED
          BY <4>1, <4>2
      <3>6. tx'.events = q
        BY <2>1, <2>4
      <3> HIDE DEF q
      <3> QED
        BY <2>1, <3>2, <3>4, <3>5, <3>6, Zenon DEF Events
    <2> QED
      BY <2>3, <2>4
  <1> QED
    BY <1>1, <1>2, <1>3, <1>4, <1>5 DEF WorkerMoves

-----------------------------------------------------------------------------
(* What a step of the change feed does. *)

LEMMA EmptyFeeds ==
  ASSUME chan = [s \in Subs |-> <<>>], got = [s \in Subs |-> <<>>]
  PROVE  \A s \in Subs : Len(Feed(s)) = 0
  BY SMTT(20), Z3T(20) DEF Feed

LEMMA AppendFacts ==
  ASSUME NEW q \in Seq(Nat), NEW e \in Nat, NEW r, r = Append(q, e)
  PROVE  /\ \A i \in 1..Len(r) : i \in 1..Len(q) \/ i = Len(q) + 1
         /\ \A i \in 1..Len(q) : r[i] = q[i]
         /\ r[Len(q) + 1] = e /\ Len(q) \in Nat
  BY SMTT(20), Z3T(20)

LEMMA ConcatAppend ==
  ASSUME NEW p \in Seq(Nat), NEW q \in Seq(Nat), NEW e \in Nat
  PROVE  p \o Append(q, e) = Append(p \o q, e)
  BY SMTT(20), Z3T(20)

LEMMA ConcatShift ==
  ASSUME NEW p \in Seq(Nat), NEW q \in Seq(Nat), q # <<>>
  PROVE  Append(p, Head(q)) \o Tail(q) = p \o q
  BY SMTT(20), Z3T(20)

FeedSame == \A u \in Subs : Feed(u)' = Feed(u)
FeedAppends(s, e) == \A u \in Subs : Feed(u)' = IF u = s THEN Append(Feed(u), e) ELSE Feed(u)

\* The worker takes its next event; it is delivered to s; it is not; it is done with.
Begins ==
  /\ Snd.st = "event" /\ Snd.events # <<>>
  /\ Snd'.st = "send" /\ Snd'.events = Snd.events /\ Snd'.failed = Snd.failed
  /\ Snd'.todo = registry.ids
  /\ FeedSame /\ UNCHANGED registry

Delivers(s) ==
  /\ Snd.st = "send" /\ s \in Snd.todo
  /\ Snd'.st = "send" /\ Snd'.events = Snd.events /\ Snd'.failed = Snd.failed
  /\ Snd'.todo = Snd.todo \ {s}
  /\ FeedAppends(s, Head(Snd.events)) /\ UNCHANGED registry

Refused(s) ==
  /\ Snd.st = "send" /\ s \in Snd.todo
  /\ Snd'.st = "send" /\ Snd'.events = Snd.events /\ Snd'.failed = Snd.failed \union {s}
  /\ Snd'.todo = Snd.todo \ {s}
  /\ FeedSame /\ UNCHANGED registry

Finishes ==
  /\ Snd.st = "send" /\ Snd.todo = {}
  /\ Snd'.st = "event" /\ Snd'.events = Tail(Snd.events) /\ Snd'.failed = Snd.failed
  /\ FeedSame /\ UNCHANGED registry

\* The worker removes the subscribers it failed with.
Sweeps ==
  /\ Snd.st = "event" /\ Snd.events = <<>>
  /\ Snd'.st = "done" /\ Snd'.events = Snd.events /\ Snd'.failed = Snd.failed
  /\ registry'.ids = registry.ids \ Snd.failed /\ registry'.next = registry.next
  /\ FeedSame

\* The ordinary writer, the subscribers and the registry.
Forwards(s) == Snd' = Snd /\ FeedAppends(s, LegacyEvent) /\ UNCHANGED registry

Settles ==
  /\ Snd' = Snd /\ FeedSame
  /\ \/ registry'.ids \subseteq registry.ids /\ registry'.next = registry.next
     \/ /\ registry'.ids = registry.ids \union {registry.next}
        /\ registry'.next = registry.next + 1

FeedTypes ==
  /\ registry \in RegistryType
  /\ chan \in [Subs -> Seq(Nat)] /\ got \in [Subs -> Seq(Nat)]
  /\ alive \in SUBSET Subs
  /\ sending \in [Senders -> SenderType]

FeedMoves ==
  \/ Begins \/ Finishes \/ Sweeps \/ Settles
  \/ \E s \in Subs : Delivers(s) \/ Refused(s) \/ Forwards(s)

LEMMA FeedEffect ==
  ASSUME FeedTypes, Progress, LegacyOnly, FeedStep
  PROVE  FeedMoves /\ FeedTypes' /\ LegacyOnly'
  <1>0. /\ sending \in [Senders -> SenderType] /\ registry \in RegistryType
        /\ registry.ids \in SUBSET Subs /\ registry.next \in Nat
        /\ chan \in [Subs -> Seq(Nat)] /\ got \in [Subs -> Seq(Nat)]
        /\ alive \in SUBSET Subs
    BY DEF FeedTypes, RegistryType
  <1>s. "worker" \in Senders /\ "legacy" \in Senders /\ \A w \in Senders : w \in {"worker", "legacy"}
    BY DEF Senders
  <1>z. LegacyEvent \in Nat /\ Subs \subseteq Nat
    BY SMTT(20), Z3T(20) DEF LegacyEvent, Subs
  <1>f. UNCHANGED <<got, chan>> => FeedSame
    BY DEF FeedSame, Feed
  <1>1. ASSUME NEW w \in Senders, TakeEvent(w) PROVE FeedMoves /\ FeedTypes' /\ LegacyOnly'
    <2>1. PICK s \in Subs \union {0} :
            sending' = [sending EXCEPT ![w].st = "send", ![w].todo = registry.ids, ![w].fst = s]
      BY <1>1, Zenon DEF TakeEvent
    <2>2. UNCHANGED <<registry, chan, got, alive>> /\ s \in Nat
          /\ sending[w].st = "event" /\ sending[w].events # <<>>
      BY <1>1, <1>z, SMTT(20), Z3T(20) DEF TakeEvent
    <2>3. /\ sending' \in [Senders -> SenderType]
          /\ \A v \in Senders : v # w => sending'[v] = sending[v]
          /\ sending'[w].st = "send" /\ sending'[w].todo = registry.ids
          /\ sending'[w].events = sending[w].events /\ sending'[w].failed = sending[w].failed
      BY <1>0, <2>1, <2>2, Zenon, SMTT(20) DEF SenderType
    <2>4. FeedTypes'
      BY <1>0, <2>2, <2>3 DEF FeedTypes
    <2>5. LegacyOnly'
      BY <1>s, <2>2, <2>3 DEF LegacyOnly
    <2>6. CASE w = "worker"
      BY <1>f, <2>2, <2>3, <2>4, <2>5, <2>6 DEF FeedMoves, Begins, Snd
    <2>7. CASE w = "legacy"
      BY <1>s, <1>f, <2>2, <2>3, <2>4, <2>5, <2>7 DEF FeedMoves, Settles, Snd
    <2> QED
      BY <1>s, <2>6, <2>7
  <1>2. ASSUME NEW w \in Senders, SendOne(w) PROVE FeedMoves /\ FeedTypes' /\ LegacyOnly'
    <2> DEFINE e == Head(sending[w].events)
    <2>1. PICK s \in Subs :
            /\ s \in sending[w].todo
            /\ \/ /\ chan' = [chan EXCEPT ![s] = Append(@, e)]
                  /\ sending' = [sending EXCEPT ![w].todo = @ \ {s}]
               \/ /\ sending' = [[sending EXCEPT ![w].todo = @ \ {s}]
                                   EXCEPT ![w].failed = @ \union {s}]
                  /\ UNCHANGED chan
      BY <1>2, Zenon DEF SendOne, IsNext
    <2>2. UNCHANGED <<registry, got, alive>> /\ sending[w].st = "send"
      BY <1>2 DEF SendOne
    <2>3. e \in Nat /\ (w = "legacy" => e = LegacyEvent)
      <3>1. sending[w].events \in Seq(Nat) /\ sending[w].events # <<>>
        BY <1>0, <1>s, <2>2, Zenon DEF SenderType, Progress, LegacyOnly, Snd
      <3>2. w = "legacy" => sending[w].events = <<LegacyEvent>>
        BY <3>1 DEF LegacyOnly
      <3> QED
        BY <3>1, <3>2, SMTT(20), Z3T(20)
    <2>4. /\ sending' \in [Senders -> SenderType]
          /\ \A v \in Senders : v # w => sending'[v] = sending[v]
          /\ sending'[w].st = "send" /\ sending'[w].todo = sending[w].todo \ {s}
          /\ sending'[w].events = sending[w].events
      <3> DEFINE rest == [sending EXCEPT ![w].todo = @ \ {s}]
      <3>1. /\ rest \in [Senders -> SenderType]
            /\ \A v \in Senders : v # w => rest[v] = sending[v]
            /\ rest[w].st = "send" /\ rest[w].todo = sending[w].todo \ {s}
            /\ rest[w].events = sending[w].events
        BY <1>0, <2>2, Zenon DEF SenderType
      <3>2. sending' = rest \/ sending' = [rest EXCEPT ![w].failed = @ \union {s}]
        BY <2>1
      <3> HIDE DEF rest
      <3>3. CASE sending' = rest
        BY <3>1, <3>3
      <3>4. CASE sending' = [rest EXCEPT ![w].failed = @ \union {s}]
        BY <3>1, <3>4, Zenon, SMTT(20) DEF SenderType
      <3> QED
        BY <3>2, <3>3, <3>4
    <2>5. LegacyOnly'
      BY <1>s, <2>2, <2>4 DEF LegacyOnly
    <2>6. CASE /\ chan' = [chan EXCEPT ![s] = Append(@, e)]
               /\ sending' = [sending EXCEPT ![w].todo = @ \ {s}]
      <3>1. FeedTypes'
        BY <1>0, <2>2, <2>3, <2>4, <2>6 DEF FeedTypes
      <3>2. FeedAppends(s, e)
        <4>1. ASSUME NEW u \in Subs
              PROVE  got'[u] \o chan'[u]
                       = IF u = s THEN Append(got[u] \o chan[u], e) ELSE got[u] \o chan[u]
          <5>1. got'[u] = got[u] /\ chan'[u] = IF u = s THEN Append(chan[u], e) ELSE chan[u]
            BY <1>0, <2>2, <2>6
          <5>2. got[u] \o Append(chan[u], e) = Append(got[u] \o chan[u], e)
            BY <1>0, <2>3, ConcatAppend, Zenon, SMTT(20)
          <5> HIDE DEF e
          <5> QED
            BY <5>1, <5>2, Zenon
        <4> HIDE DEF e
        <4> QED
          BY <4>1, Zenon DEF FeedAppends, Feed
      <3>3. sending'[w].failed = sending[w].failed
        BY <1>0, <2>6 DEF SenderType
      <3>4. CASE w = "worker"
        BY <2>1, <2>2, <2>4, <2>5, <3>1, <3>2, <3>3, <3>4 DEF FeedMoves, Delivers, Snd
      <3>5. CASE w = "legacy"
        BY <1>s, <2>2, <2>3, <2>4, <2>5, <3>1, <3>2, <3>5 DEF FeedMoves, Forwards, Snd
      <3> QED
        BY <1>s, <3>4, <3>5
    <2>7. CASE /\ sending' = [[sending EXCEPT ![w].todo = @ \ {s}]
                                EXCEPT ![w].failed = @ \union {s}]
               /\ UNCHANGED chan
      <3>1. FeedTypes'
        BY <1>0, <2>2, <2>4, <2>7 DEF FeedTypes
      <3>3. sending'[w].failed = sending[w].failed \union {s}
        BY <1>0, <2>7 DEF SenderType
      <3>4. CASE w = "worker"
        BY <1>f, <2>1, <2>2, <2>4, <2>5, <2>7, <3>1, <3>3, <3>4 DEF FeedMoves, Refused, Snd
      <3>5. CASE w = "legacy"
        BY <1>s, <1>f, <2>2, <2>4, <2>5, <2>7, <3>1, <3>5 DEF FeedMoves, Settles, Snd
      <3> QED
        BY <1>s, <3>4, <3>5
    <2> QED
      BY <2>1, <2>6, <2>7, Zenon
  <1>3. ASSUME NEW w \in Senders, EventSent(w) PROVE FeedMoves /\ FeedTypes' /\ LegacyOnly'
    <2>1. /\ UNCHANGED <<registry, chan, got, alive>>
          /\ sending[w].st = "send" /\ sending[w].todo = {}
          /\ sending' = [sending EXCEPT ![w].st = "event", ![w].events = Tail(@)]
      BY <1>3 DEF EventSent
    <2>2. sending[w].events \in Seq(Nat) /\ sending[w].events # <<>>
      BY <1>0, <1>s, <2>1, Zenon DEF SenderType, Progress, LegacyOnly, Snd
    <2>3. Tail(sending[w].events) \in Seq(Nat)
      BY <2>2, SMTT(20), Z3T(20)
    <2>4. /\ sending' \in [Senders -> SenderType]
          /\ \A v \in Senders : v # w => sending'[v] = sending[v]
          /\ sending'[w].st = "event" /\ sending'[w].failed = sending[w].failed
          /\ sending'[w].events = Tail(sending[w].events)
      BY <1>0, <2>1, <2>3, Zenon, SMTT(20) DEF SenderType
    <2>5. FeedTypes'
      BY <1>0, <2>1, <2>4 DEF FeedTypes
    <2>6. LegacyOnly'
      <3>1. Tail(<<LegacyEvent>>) = <<>>
        OBVIOUS
      <3> QED
        BY <1>s, <2>2, <2>4, <3>1, Zenon DEF LegacyOnly
    <2>7. CASE w = "worker"
      BY <1>f, <2>1, <2>4, <2>5, <2>6, <2>7 DEF FeedMoves, Finishes, Snd
    <2>8. CASE w = "legacy"
      BY <1>s, <1>f, <2>1, <2>4, <2>5, <2>6, <2>8 DEF FeedMoves, Settles, Snd
    <2> QED
      BY <1>s, <2>7, <2>8
  <1>4. ASSUME NEW w \in Senders, Sweep(w) PROVE FeedMoves /\ FeedTypes' /\ LegacyOnly'
    <2>1. /\ UNCHANGED <<chan, got, alive>>
          /\ sending[w].st = "event" /\ sending[w].events = <<>>
          /\ registry' = [registry EXCEPT !.ids = @ \ sending[w].failed]
          /\ sending' = [sending EXCEPT ![w].st = "done"]
      BY <1>4 DEF Sweep
    <2>2. /\ registry' \in RegistryType /\ registry'.next = registry.next
          /\ registry'.ids = registry.ids \ sending[w].failed
      BY <1>0, <2>1 DEF RegistryType
    <2>3. /\ sending' \in [Senders -> SenderType]
          /\ \A v \in Senders : v # w => sending'[v] = sending[v]
          /\ sending'[w].st = "done" /\ sending'[w].failed = sending[w].failed
          /\ sending'[w].events = sending[w].events
      BY <1>0, <2>1, Zenon DEF SenderType
    <2>4. FeedTypes'
      BY <1>0, <2>1, <2>2, <2>3 DEF FeedTypes
    <2>5. LegacyOnly'
      BY <1>s, <2>3 DEF LegacyOnly
    <2>6. CASE w = "worker"
      BY <1>f, <2>1, <2>2, <2>3, <2>4, <2>5, <2>6 DEF FeedMoves, Sweeps, Snd
    <2>7. CASE w = "legacy"
      BY <1>s, <1>f, <2>1, <2>2, <2>3, <2>4, <2>5, <2>7 DEF FeedMoves, Settles, Snd
    <2> QED
      BY <1>s, <2>6, <2>7
  <1>5. CASE LegacyCommit
    <2>1. /\ UNCHANGED <<registry, chan, got, alive>>
          /\ sending' = [sending EXCEPT !["legacy"] = Sending(<<LegacyEvent>>)]
      BY <1>5 DEF LegacyCommit
    <2>2. /\ Sending(<<LegacyEvent>>) \in SenderType
          /\ Sending(<<LegacyEvent>>).events = <<LegacyEvent>>
          /\ Sending(<<LegacyEvent>>).st = "event"
      BY <1>z, SMTT(20), Z3T(20) DEF Sending, SenderType
    <2>3. /\ sending' \in [Senders -> SenderType] /\ sending'["worker"] = sending["worker"]
          /\ sending'["legacy"] = Sending(<<LegacyEvent>>)
      BY <1>0, <1>s, <2>1, <2>2
    <2>4. FeedTypes' /\ LegacyOnly'
      BY <1>0, <2>1, <2>2, <2>3, Zenon DEF FeedTypes, LegacyOnly
    <2> QED
      BY <1>f, <2>1, <2>3, <2>4 DEF FeedMoves, Settles, Snd
  <1>6. ASSUME NEW s \in Subs, Drain(s) PROVE FeedMoves /\ FeedTypes' /\ LegacyOnly'
    <2>1. /\ chan[s] # <<>> /\ UNCHANGED <<registry, alive, sending>>
          /\ got' = [got EXCEPT ![s] = Append(@, Head(chan[s]))]
          /\ chan' = [chan EXCEPT ![s] = Tail(@)]
      BY <1>6 DEF Drain
    <2>2. chan[s] \in Seq(Nat) /\ Head(chan[s]) \in Nat /\ Tail(chan[s]) \in Seq(Nat)
      BY <1>0, <2>1, SMTT(20), Z3T(20)
    <2>3. FeedTypes'
      BY <1>0, <2>1, <2>2, SMTT(20), Z3T(20) DEF FeedTypes
    <2>4. FeedSame
      BY <1>0, <2>1, ConcatShift, Zenon, SMTT(20) DEF FeedSame, Feed
    <2> QED
      BY <2>1, <2>3, <2>4 DEF FeedMoves, Settles, Snd, LegacyOnly
  <1>7. ASSUME NEW s \in Subs, DropReceiver(s) PROVE FeedMoves /\ FeedTypes' /\ LegacyOnly'
    BY <1>0, <1>7, <1>f DEF DropReceiver, FeedMoves, Settles, Snd, LegacyOnly, FeedTypes
  <1>8. ASSUME NEW s \in Subs, Unregister(s) PROVE FeedMoves /\ FeedTypes' /\ LegacyOnly'
    <2>1. /\ registry' \in RegistryType /\ registry'.next = registry.next
          /\ registry'.ids = registry.ids \ {s}
      BY <1>0, <1>8, Zenon DEF Unregister, RegistryType
    <2> QED
      BY <1>0, <1>8, <1>f, <2>1 DEF Unregister, FeedMoves, Settles, Snd, LegacyOnly, FeedTypes
  <1>9. CASE Register
    <2>1. /\ registry' \in RegistryType /\ registry'.next = registry.next + 1
          /\ registry'.ids = registry.ids \union {registry.next}
          /\ alive' \in SUBSET Subs
      BY <1>0, <1>9, SMTT(20), Z3T(20) DEF Register, RegistryType
    <2> QED
      BY <1>0, <1>9, <1>f, <2>1 DEF Register, FeedMoves, Settles, Snd, LegacyOnly, FeedTypes
  <1> QED
    BY <1>1, <1>2, <1>3, <1>4, <1>5, <1>6, <1>7, <1>8, <1>9 DEF FeedStep, SendStep

LEMMA ProgressStep ==
  ASSUME Types, Accounts, Progress,
         ClientMoves \/ WorkerMoves \/ (Elsewhere /\ (FeedMoves \/ UNCHANGED feedVars))
  PROVE  Progress'
  <1>p. /\ Active = {"unstarted", "next", "select", "query", "lock", "sleep", "run", "nap",
                     "reply", "abort", "cleanup", "commit"}
    BY DEF Active, Serving, Querying
  <1> USE DEF Progress
  <1>1. CASE ClientMoves \/ (Elsewhere /\ UNCHANGED feedVars)
    BY <1>1, Zenon DEF ClientMoves, Elsewhere, feedVars, Snd
  <1>2. CASE WorkerMoves /\ UNCHANGED feedVars /\ (Fails \/ Aborts \/ Records \/ Ends)
    <2>1. Snd' = Snd /\ store' = store
      BY <1>2, Zenon DEF WorkerMoves, Fails, Aborts, Records, Ends, feedVars, Snd
    <2>2. wk.pc \in Active => store = {}
      BY DEF Accounts
    <2>3. wk'.pc \in {"failed", "leaving", "gone"}
      BY <1>2, Zenon DEF Fails, Aborts, Records, Ends, Moves
    <2>4. store # {} => Snd.st = "done"
      <3>1. wk.pc \in Active \union {"failed", "leaving"} \/ Snd.st = "done"
        <4>1. "abort" \in Active /\ "unstarted" \in Active
          BY <1>p
        <4> QED
          BY <1>2, <4>1, Zenon DEF Fails, Aborts, Records, Ends, Snd
      <3> QED
        BY <2>2, <3>1
    <2> QED
      BY <1>p, <2>1, <2>3, <2>4
  <1>3. CASE WorkerMoves /\ UNCHANGED feedVars /\ (Advances \/ Starts \/ Takes \/ Writes \/ Replies \/ Commits)
    <2>1. Snd' = Snd /\ wk.pc \in Active /\ wk'.pc \in Active \union {"ack"}
      BY <1>3, <1>p, Zenon DEF WorkerMoves, Advances, Starts, Takes, Writes, Replies, Commits, Moves, feedVars, Snd
    <2> QED
      BY <1>p, <2>1
  <1>4. CASE WorkerMoves /\ Acks /\ sending' = [sending EXCEPT !["worker"] = Sending(tx.events)]
    <2>1. Snd' = Sending(tx.events) /\ wk'.pc = "feed"
      BY <1>4 DEF Types, Senders, Snd, Acks
    <2>2. Sending(tx.events).st = "event"
      BY DEF Sending
    <2> QED
      BY <1>p, <2>1, <2>2
  <1>5. CASE Elsewhere /\ FeedMoves
    <2>1. UNCHANGED <<wk, store>>
      BY <1>5 DEF Elsewhere
    <2>2. CASE \/ Begins \/ Finishes \/ Sweeps
               \/ \E s \in Subs : Delivers(s) \/ Refused(s)
      BY <1>p, <2>1, <2>2 DEF Begins, Finishes, Sweeps, Delivers, Refused
    <2>3. CASE Settles \/ \E s \in Subs : Forwards(s)
      BY <2>1, <2>3 DEF Settles, Forwards
    <2> QED
      BY <1>5, <2>2, <2>3 DEF FeedMoves
  <1> QED
    BY <1>1, <1>2, <1>3, <1>4, <1>5, Zenon DEF WorkerMoves

-----------------------------------------------------------------------------
(* What the subscribers have. *)

\* The parts of Histories that are about one subscriber.
Behind(s) ==
  /\ \A i \in 1..Len(Feed(s)) :
       Feed(s)[i] # LegacyEvent =>
         Snd.st # "off" /\ Feed(s)[i] \in store /\ Past(s, Feed(s)[i], Snd)
  /\ \A i, j \in 1..Len(Feed(s)) :
       i < j /\ Feed(s)[i] # LegacyEvent /\ Feed(s)[j] # LegacyEvent => Feed(s)[i] < Feed(s)[j]

LEMMA HistoriesStep ==
  ASSUME Types, Accounts, Events, Progress, Histories,
         ClientMoves \/ WorkerMoves \/ (Elsewhere /\ (FeedMoves \/ UNCHANGED feedVars))
  PROVE  Histories'
  <1>0. /\ Snd.events \in Seq(Nat) /\ \A s \in Subs : Feed(s) \in Seq(Nat)
        /\ sending \in [Senders -> SenderType] /\ "worker" \in Senders
    BY DEF Types, Snd, SenderType, Senders, Feed
  <1>h. /\ Rising(Snd.events) /\ \A j \in 1..Len(Snd.events) : Snd.events[j] \in store
        /\ \A s \in Subs : Behind(s)
    BY Zenon DEF Histories, Behind
  <1>1. ASSUME Snd' = Snd, FeedSame, store \subseteq store' PROVE Histories'
    BY <1>1, <1>h, SMTT(20), Z3T(20) DEF Histories, Behind, Past, FeedSame
  <1>2. CASE ClientMoves \/ (Elsewhere /\ UNCHANGED feedVars)
    <2>1. Snd' = Snd /\ FeedSame /\ store' = store
      BY <1>2, Zenon DEF ClientMoves, Elsewhere, feedVars, Snd, FeedSame, Feed
    <2> QED
      BY <1>1, <2>1
  <1>3. CASE WorkerMoves /\ UNCHANGED feedVars
    <2>1. Snd' = Snd /\ FeedSame
      BY <1>3 DEF feedVars, Snd, FeedSame, Feed
    <2>2. store \subseteq store'
      BY <1>3, Zenon DEF WorkerMoves, Fails, Advances, Starts, Takes, Writes, Replies, Aborts, Commits,
        Acks, Ends, Records
    <2> QED
      BY <1>1, <2>1, <2>2
  <1>4. CASE /\ WorkerMoves /\ Acks /\ sending' = [sending EXCEPT !["worker"] = Sending(tx.events)]
             /\ UNCHANGED <<registry, chan, got, alive>>
    <2>1. Snd' = Sending(tx.events) /\ FeedSame /\ store' = store /\ wk.pc = "ack"
      BY <1>0, <1>4, Zenon DEF Snd, Acks, FeedSame, Feed
    <2>2. Sending(tx.events).st = "event" /\ Sending(tx.events).events = tx.events
      BY DEF Sending
    <2>3. /\ store = ran.ok /\ Snd.st = "off" /\ Rising(tx.events)
          /\ \A i \in 1..Len(tx.events) : tx.events[i] \in ran.ok
      BY <2>1, Zenon DEF Accounts, Progress, Events
    <2>4. \A s \in Subs : \A i \in 1..Len(Feed(s)) : Feed(s)[i] = LegacyEvent
      BY <1>h, <2>3 DEF Behind
    <2> QED
      BY <2>1, <2>2, <2>3, <2>4, Zenon DEF Histories, FeedSame
  <1>5. CASE Elsewhere /\ FeedMoves
    <2>0. store' = store
      BY <1>5 DEF Elsewhere
    <2>1. CASE Begins
      <3>1. /\ Snd'.events = Snd.events /\ Snd'.st = "send" /\ Snd.st = "event" /\ FeedSame
        BY <2>1, Zenon DEF Begins
      <3> QED
        BY <1>h, <2>0, <3>1, Zenon, SMTT(20) DEF Histories, Behind, Past, FeedSame
    <2>2. ASSUME NEW s \in Subs, Refused(s) PROVE Histories'
      <3>1. /\ Snd'.events = Snd.events /\ Snd'.st = "send" /\ Snd.st = "send" /\ FeedSame
            /\ Snd'.todo \subseteq Snd.todo
        BY <2>2, Zenon DEF Refused
      <3> QED
        BY <1>h, <2>0, <3>1, SMTT(20), Z3T(20) DEF Histories, Behind, Past, FeedSame
    <2>3. CASE Finishes
      <3>1. /\ Snd'.events = Tail(Snd.events) /\ Snd'.st = "event" /\ Snd.st = "send" /\ FeedSame
            /\ Snd.events # <<>>
        BY <2>3 DEF Finishes, Progress
      <3>2. /\ Len(Snd'.events) = Len(Snd.events) - 1 /\ Len(Snd.events) \in Nat
            /\ \A j \in 1..Len(Snd'.events) : Snd'.events[j] = Snd.events[j + 1]
        BY <1>0, <3>1, SMTT(20), Z3T(20)
      <3>3. \A j \in 1..Len(Snd'.events) : j + 1 \in 1..Len(Snd.events) /\ j + 1 # 1
        BY <3>2, SMTT(20), Z3T(20)
      <3>4. \A i, j \in 1..Len(Snd'.events) : i < j => i + 1 < j + 1
        BY <3>2, SMTT(20), Z3T(20)
      <3>5. Rising(Snd'.events)
        BY <1>h, <3>2, <3>3, <3>4 DEF Rising
      <3>6. ASSUME NEW s \in Subs, NEW e, Past(s, e, Snd) PROVE Past(s, e, Snd')
        BY <3>2, <3>3, <3>6 DEF Past
      <3> QED
        BY <1>h, <2>0, <3>1, <3>2, <3>3, <3>5, <3>6, Zenon DEF Histories, Behind, FeedSame, Rising
    <2>4. CASE Sweeps
      <3>1. /\ Snd'.events = Snd.events /\ Snd'.st = "done" /\ Snd.st = "event" /\ FeedSame
        BY <2>4 DEF Sweeps
      <3> QED
        BY <1>h, <2>0, <3>1, Zenon DEF Histories, Behind, Past, FeedSame
    <2>5. CASE Settles
      BY <1>1, <2>0, <2>5 DEF Settles
    <2>6. ASSUME NEW s \in Subs, Forwards(s) PROVE Histories'
      <3>1. Snd' = Snd /\ FeedAppends(s, LegacyEvent)
        BY <2>6 DEF Forwards
      <3>2. ASSUME NEW u \in Subs PROVE Behind(u)'
        <4>1. CASE u # s
          <5>1. Feed(u)' = Feed(u)
            BY <3>1, <4>1 DEF FeedAppends
          <5> QED
            BY <1>h, <2>0, <3>1, <5>1, SMTT(20), Z3T(20) DEF Behind, Past
        <4>2. CASE u = s
          <5>1. Feed(u)' = Append(Feed(u), LegacyEvent) /\ Feed(u) \in Seq(Nat) /\ LegacyEvent \in Nat
            BY <1>0, <3>1, <4>2 DEF FeedAppends, LegacyEvent
          <5>2. /\ \A i \in 1..Len(Feed(u)') : i \in 1..Len(Feed(u)) \/ Feed(u)'[i] = LegacyEvent
                /\ \A i \in 1..Len(Feed(u)) : Feed(u)'[i] = Feed(u)[i]
            BY <5>1
          <5> QED
            BY <1>h, <2>0, <3>1, <5>2, Zenon, SMTT(20) DEF Behind, Past
        <4> QED
          BY <4>1, <4>2, Zenon, SMTT(20)
      <3> QED
        BY <1>h, <2>0, <3>1, <3>2, Zenon DEF Histories, Behind
    <2>7. ASSUME NEW s \in Subs, Delivers(s) PROVE Histories'
      <3> DEFINE e == Snd.events[1]
      <3>1. /\ Snd'.events = Snd.events /\ Snd'.st = "send" /\ Snd.st = "send"
            /\ s \in Snd.todo /\ Snd'.todo = Snd.todo \ {s}
            /\ FeedAppends(s, Head(Snd.events)) /\ Snd.events # <<>>
        BY <2>7 DEF Delivers, Progress
      <3>2. /\ Head(Snd.events) = e /\ e \in Nat /\ 1 \in 1..Len(Snd.events)
            /\ Len(Snd.events) \in Nat
        BY <1>0, <3>1, SMTT(20), Z3T(20)
      <3>3. e \in store /\ \A j \in 1..Len(Snd.events) : j # 1 => e < Snd.events[j]
        BY <1>h, <3>2, SMTT(20), Z3T(20) DEF Rising
      <3>4. ASSUME NEW u \in Subs, NEW x, Past(u, x, Snd) PROVE Past(u, x, Snd')
        BY <3>1, <3>4 DEF Past
      <3>5. ASSUME NEW u \in Subs PROVE Behind(u)'
        <4>1. CASE u # s
          <5>1. Feed(u)' = Feed(u)
            BY <3>1, <4>1, Zenon DEF FeedAppends
          <5> QED
            BY <1>h, <2>0, <3>1, <3>4, <5>1, Zenon DEF Behind
        <4>2. CASE u = s
          <5>1. Feed(u)' = Append(Feed(u), e) /\ Feed(u) \in Seq(Nat)
            BY <1>0, <3>1, <3>2, <4>2 DEF FeedAppends
          <5>2. /\ \A i \in 1..Len(Feed(u)') : i \in 1..Len(Feed(u)) \/ i = Len(Feed(u)) + 1
                /\ \A i \in 1..Len(Feed(u)) : Feed(u)'[i] = Feed(u)[i]
                /\ Feed(u)'[Len(Feed(u)) + 1] = e /\ Len(Feed(u)) \in Nat
            BY <3>2, <5>1, AppendFacts, Zenon, SMTT(20)
          <5>3. \A i \in 1..Len(Feed(u)) : Feed(u)[i] # LegacyEvent => Feed(u)[i] < e
            BY <1>h, <3>1, <3>2, <4>2, Zenon DEF Behind, Past
          <5>4. Past(u, e, Snd')
            BY <3>1, <3>3, <4>2 DEF Past
          <5>5. ASSUME NEW i \in 1..Len(Feed(u)'), Feed(u)'[i] # LegacyEvent
                PROVE  Feed(u)'[i] \in store /\ Past(u, Feed(u)'[i], Snd')
            BY <1>h, <3>3, <3>4, <5>2, <5>4, <5>5, Zenon DEF Behind
          <5>6. ASSUME NEW i \in 1..Len(Feed(u)'), NEW j \in 1..Len(Feed(u)'), i < j,
                       Feed(u)'[i] # LegacyEvent, Feed(u)'[j] # LegacyEvent
                PROVE  Feed(u)'[i] < Feed(u)'[j]
            <6>1. i \in 1..Len(Feed(u))
              BY <5>2, <5>6, SMTT(20), Z3T(20)
            <6>2. CASE j \in 1..Len(Feed(u))
              BY <1>h, <5>2, <5>6, <6>1, <6>2 DEF Behind
            <6>3. CASE j = Len(Feed(u)) + 1
              BY <5>2, <5>3, <5>6, <6>1, <6>3, Zenon
            <6> QED
              BY <5>2, <6>2, <6>3, Zenon
          <5> QED
            BY <2>0, <3>1, <5>5, <5>6, Zenon DEF Behind
        <4> QED
          BY <4>1, <4>2
      <3> QED
        BY <1>h, <2>0, <3>1, <3>5, Zenon DEF Histories, Behind
    <2> QED
      BY <1>5, <2>1, <2>2, <2>3, <2>4, <2>5, <2>6, <2>7 DEF FeedMoves
  <1> QED
    BY <1>2, <1>3, <1>4, <1>5 DEF WorkerMoves

LEMMA GaplessStep ==
  ASSUME Types, Accounts, Events, Progress, Gapless,
         ClientMoves \/ WorkerMoves \/ (Elsewhere /\ (FeedMoves \/ UNCHANGED feedVars))
  PROVE  Gapless'
  <1> DEFINE Owed(s) == \A e \in store : Has(Feed(s), e) \/ Coming(s, e, Snd)
  <1>0. /\ Snd.events \in Seq(Nat) /\ \A s \in Subs : Feed(s) \in Seq(Nat)
        /\ sending \in [Senders -> SenderType] /\ "worker" \in Senders
        /\ registry.ids \in SUBSET Subs /\ registry.next \in Nat /\ wk.targets \in SUBSET Subs
        /\ Subs \subseteq Nat
    <2>1. /\ sending \in [Senders -> SenderType] /\ "worker" \in Senders
          /\ Snd.events \in Seq(Nat)
      BY DEF Types, Snd, SenderType, Senders
    <2>2. \A s \in Subs : Feed(s) \in Seq(Nat)
      BY DEF Types, Feed
    <2>3. registry.ids \in SUBSET Subs /\ registry.next \in Nat /\ wk.targets \in SUBSET Subs
      BY Zenon DEF Types, RegistryType, WorkerType
    <2> QED
      BY <2>1, <2>2, <2>3, SMTT(20), Z3T(20) DEF Subs
  <1>g. /\ \A s \in registry.ids \union wk.targets : s < registry.next
        /\ Snd.st = "done" => wk.targets \intersect registry.ids \intersect Snd.failed = {}
        /\ Snd.st # "off" => \A s \in (wk.targets \intersect registry.ids) \ Snd.failed : Owed(s)
    BY DEF Gapless
  <1>1. ASSUME Snd' = Snd, FeedSame, UNCHANGED <<registry, store>>, wk'.targets = wk.targets
        PROVE  Gapless'
    BY <1>0, <1>1, <1>g, Zenon DEF Gapless, FeedSame
  <1>2. CASE ClientMoves \/ (Elsewhere /\ UNCHANGED feedVars)
    <2>1. Snd' = Snd /\ FeedSame /\ UNCHANGED <<registry, store, wk>>
      BY <1>2, Zenon DEF ClientMoves, Elsewhere, feedVars, Snd, FeedSame, Feed
    <2> QED
      BY <1>1, <2>1
  <1>3. CASE WorkerMoves /\ UNCHANGED feedVars
    <2>1. Snd' = Snd /\ FeedSame /\ UNCHANGED registry
      BY <1>3 DEF feedVars, Snd, FeedSame, Feed
    <2>2. CASE Starts \/ Commits
      <3>1. Snd.st = "off"
        BY <2>2 DEF Starts, Commits, Progress, Active, Serving
      <3>2. wk'.targets \in {wk.targets, registry.ids}
        BY <2>2 DEF Starts, Commits, Moves
      <3> QED
        BY <1>g, <2>1, <3>1, <3>2, Zenon DEF Gapless
    <2>3. CASE Fails \/ Advances \/ Takes \/ Writes \/ Replies \/ Aborts \/ Acks \/ Ends \/ Records
      <3>1. wk'.targets = wk.targets /\ store' = store
        BY <2>3, Zenon DEF Fails, Advances, Takes, Writes, Replies, Aborts, Acks, Ends, Records, Moves
      <3> QED
        BY <1>1, <2>1, <3>1
    <2> QED
      BY <1>3, <2>2, <2>3 DEF WorkerMoves
  <1>4. CASE /\ WorkerMoves /\ Acks /\ sending' = [sending EXCEPT !["worker"] = Sending(tx.events)]
             /\ UNCHANGED <<registry, chan, got, alive>>
    <2>1. /\ Snd' = Sending(tx.events) /\ store' = store /\ wk.pc = "ack"
          /\ wk'.targets = wk.targets
      BY <1>0, <1>4 DEF Snd, Acks
    <2>2. Sending(tx.events).st = "event" /\ Sending(tx.events).events = tx.events
      BY DEF Sending
    <2>3. /\ store = ran.ok
          /\ wk.targets # {} => \A e \in ran.ok : \E i \in 1..Len(tx.events) : tx.events[i] = e
      BY <2>1 DEF Accounts, Events
    <2>4. \A s \in wk.targets : \A e \in store : Coming(s, e, Snd')
      BY <2>1, <2>2, <2>3 DEF Coming
    <2> QED
      BY <1>4, <1>g, <2>1, <2>2, <2>4, Zenon DEF Gapless
  <1>5. CASE Elsewhere /\ FeedMoves
    <2>0. store' = store /\ wk' = wk
      BY <1>5 DEF Elsewhere
    <2>1. CASE Begins
      <3>1. /\ Snd'.events = Snd.events /\ Snd'.st = "send" /\ Snd.st = "event" /\ FeedSame
            /\ Snd'.todo = registry.ids /\ Snd'.failed = Snd.failed /\ registry' = registry
        BY <2>1 DEF Begins
      <3>2. ASSUME NEW s \in registry.ids, NEW e, Coming(s, e, Snd) PROVE Coming(s, e, Snd')
        BY <3>1, <3>2 DEF Coming
      <3> QED
        BY <1>0, <1>g, <2>0, <3>1, <3>2, Zenon DEF Gapless, FeedSame
    <2>2. ASSUME NEW t \in Subs, Refused(t) PROVE Gapless'
      <3>1. /\ Snd'.events = Snd.events /\ Snd'.st = "send" /\ Snd.st = "send" /\ FeedSame
            /\ Snd'.todo = Snd.todo \ {t} /\ Snd'.failed = Snd.failed \union {t}
            /\ registry' = registry
        BY <2>2 DEF Refused
      <3>2. ASSUME NEW s \in Subs, s # t, NEW e, Coming(s, e, Snd) PROVE Coming(s, e, Snd')
        BY <3>1, <3>2 DEF Coming
      <3> QED
        BY <1>0, <1>g, <2>0, <3>1, <3>2, Zenon DEF Gapless, FeedSame
    <2>3. CASE Finishes
      <3>1. /\ Snd'.events = Tail(Snd.events) /\ Snd'.st = "event" /\ Snd.st = "send" /\ FeedSame
            /\ Snd.todo = {} /\ Snd.events # <<>> /\ Snd'.failed = Snd.failed
            /\ registry' = registry
        BY <2>3 DEF Finishes, Progress
      <3>2. /\ Len(Snd'.events) = Len(Snd.events) - 1 /\ Len(Snd.events) \in Nat
            /\ \A j \in 1..Len(Snd'.events) : Snd'.events[j] = Snd.events[j + 1]
        BY <1>0, <3>1, SMTT(20), Z3T(20)
      <3>3. ASSUME NEW s \in Subs, NEW e, Coming(s, e, Snd) PROVE Coming(s, e, Snd')
        <4>1. PICK j \in 1..Len(Snd.events) : Snd.events[j] = e /\ j > 1
          BY <3>1, <3>3 DEF Coming
        <4>2. j - 1 \in 1..Len(Snd'.events) /\ (j - 1) + 1 = j
          BY <3>2, <4>1, SMTT(20), Z3T(20)
        <4>3. Snd'.events[j - 1] = e
          BY <3>2, <4>1, <4>2
        <4> QED
          BY <3>1, <4>2, <4>3 DEF Coming
      <3> QED
        BY <1>0, <1>g, <2>0, <3>1, <3>3, Zenon DEF Gapless, FeedSame
    <2>4. CASE Sweeps
      <3>1. /\ Snd'.events = Snd.events /\ Snd'.st = "done" /\ Snd.st = "event" /\ FeedSame
            /\ Snd'.failed = Snd.failed
            /\ registry'.ids = registry.ids \ Snd.failed /\ registry'.next = registry.next
        BY <2>4 DEF Sweeps
      <3>2. ASSUME NEW s \in Subs, NEW e, Coming(s, e, Snd) PROVE Coming(s, e, Snd')
        BY <3>1, <3>2 DEF Coming
      <3> QED
        BY <1>0, <1>g, <2>0, <3>1, <3>2, Zenon DEF Gapless, FeedSame
    <2>5. CASE Settles
      <3>1. CASE registry'.ids \subseteq registry.ids /\ registry'.next = registry.next
        BY <1>0, <1>g, <2>0, <2>5, <3>1, Zenon DEF Gapless, Settles, FeedSame
      <3>2. CASE /\ registry'.ids = registry.ids \union {registry.next}
                 /\ registry'.next = registry.next + 1
        <4>1. \A s \in registry'.ids \union wk.targets : s < registry'.next
          <5>1. ASSUME NEW s \in registry.ids \union wk.targets PROVE s < registry.next + 1
            <6>1. s \in Nat /\ s < registry.next
              BY <1>0, <1>g, Zenon
            <6> QED
              BY <1>0, <6>1, SMTT(20), Z3T(20)
          <5>2. registry.next < registry.next + 1
            BY <1>0, SMTT(20), Z3T(20)
          <5> QED
            BY <3>2, <5>1, <5>2
        <4>2. registry.next \notin wk.targets
          BY <1>0, <1>g, SMTT(20), Z3T(20)
        <4>3. wk.targets \intersect registry'.ids = wk.targets \intersect registry.ids
          BY <3>2, <4>2
        <4> QED
          BY <1>0, <1>g, <2>0, <2>5, <4>1, <4>3, Zenon DEF Gapless, Settles, FeedSame
      <3> QED
        BY <2>5, <3>1, <3>2 DEF Settles
    <2>a. ASSUME NEW f \in Seq(Nat), NEW x \in Nat, NEW e, Has(f, e) \/ e = x
          PROVE  Has(Append(f, x), e)
      <3>1. /\ Len(Append(f, x)) = Len(f) + 1 /\ Len(f) \in Nat
            /\ Append(f, x)[Len(f) + 1] = x /\ \A i \in 1..Len(f) : Append(f, x)[i] = f[i]
        BY SMTT(20), Z3T(20)
      <3>2. Len(f) + 1 \in 1..Len(Append(f, x)) /\ 1..Len(f) \subseteq 1..Len(Append(f, x))
        BY <3>1, SMTT(20), Z3T(20)
      <3> QED
        BY <2>a, <3>1, <3>2 DEF Has
    <2>6. ASSUME NEW t \in Subs, Forwards(t) PROVE Gapless'
      <3>1. Snd' = Snd /\ FeedAppends(t, LegacyEvent) /\ registry' = registry /\ LegacyEvent \in Nat
        BY <2>6 DEF Forwards, LegacyEvent
      <3>2. ASSUME NEW s \in Subs, NEW e, Has(Feed(s), e) PROVE Has(Feed(s)', e)
        <4>1. Feed(s) \in Seq(Nat) /\ Feed(s)' \in {Feed(s), Append(Feed(s), LegacyEvent)}
          BY <1>0, <3>1 DEF FeedAppends
        <4> QED
          BY <2>a, <3>1, <3>2, <4>1, Zenon
      <3> QED
        BY <1>0, <1>g, <2>0, <3>1, <3>2, Zenon DEF Gapless
    <2>7. ASSUME NEW t \in Subs, Delivers(t) PROVE Gapless'
      <3>1. /\ Snd'.events = Snd.events /\ Snd'.st = "send" /\ Snd.st = "send"
            /\ Snd'.todo = Snd.todo \ {t} /\ Snd'.failed = Snd.failed /\ registry' = registry
            /\ FeedAppends(t, Head(Snd.events)) /\ Snd.events # <<>>
        BY <2>7 DEF Delivers, Progress
      <3>2. Head(Snd.events) = Snd.events[1] /\ Head(Snd.events) \in Nat
        BY <1>0, <3>1, SMTT(20), Z3T(20)
      <3>3. ASSUME NEW s \in Subs, NEW e, Has(Feed(s), e) PROVE Has(Feed(s)', e)
        <4>1. Feed(s) \in Seq(Nat) /\ Feed(s)' \in {Feed(s), Append(Feed(s), Head(Snd.events))}
          BY <1>0, <3>1 DEF FeedAppends
        <4> QED
          BY <2>a, <3>2, <3>3, <4>1, Zenon
      <3>4. ASSUME NEW s \in Subs, NEW e, Coming(s, e, Snd)
            PROVE  Coming(s, e, Snd') \/ Has(Feed(s)', e)
        <4>1. CASE s # t
          BY <3>1, <3>4, <4>1, Zenon DEF Coming
        <4>2. CASE s = t
          <5>1. PICK j \in 1..Len(Snd.events) : Snd.events[j] = e
            BY <3>4 DEF Coming
          <5>2. CASE j > 1
            BY <3>1, <5>1, <5>2 DEF Coming
          <5>3. CASE j = 1
            <6>1. Feed(s)' = Append(Feed(s), e) /\ e \in Nat /\ Feed(s) \in Seq(Nat)
              BY <1>0, <3>1, <3>2, <4>2, <5>1, <5>3 DEF FeedAppends
            <6> QED
              BY <2>a, <6>1
          <5> QED
            BY <5>1, <5>2, <5>3, SMTT(20), Z3T(20)
        <4> QED
          BY <4>1, <4>2
      <3> QED
        BY <1>0, <1>g, <2>0, <3>1, <3>3, <3>4, Zenon DEF Gapless
    <2> QED
      BY <1>5, <2>1, <2>2, <2>3, <2>4, <2>5, <2>6, <2>7 DEF FeedMoves
  <1> QED
    BY <1>2, <1>3, <1>4, <1>5 DEF WorkerMoves

-----------------------------------------------------------------------------
(* The invariant is inductive. *)

LEMMA InitIInv == ASSUME Init PROVE IInv
  <1>1. /\ client = [st |-> "idle", n |-> 0, kind |-> "query", err |-> "none", by |-> "none"]
        /\ cmds = <<>> /\ results = <<>> /\ terminal = "none"
        /\ wk = [pc |-> "unstarted", n |-> 0, why |-> "none", guard |-> FALSE, targets |-> {}]
        /\ tx = NoTx /\ store = {} /\ heard = {} /\ ran = [ok |-> {}, failed |-> FALSE]
        /\ chan = [s \in Subs |-> <<>>] /\ got = [s \in Subs |-> <<>>]
        /\ alive = registry.ids
        /\ sending = [w \in Senders |-> [Sending(<<>>) EXCEPT !.st = "off"]]
    BY DEF Init
  <1>p. /\ "unstarted" \in Active /\ "unstarted" \notin Serving /\ "unstarted" \notin Ended
        /\ "unstarted" \notin Querying
    BY DEF Active, Serving, Querying, Ended
  <1>2. PICK k \in 0..MaxSubs : registry = [ids |-> 1..k, next |-> k + 1]
    BY DEF Init
  <1>3. registry \in RegistryType /\ \A s \in registry.ids : s < registry.next
    BY <1>2, GovernedAssumption, SMTT(20), Z3T(20) DEF RegistryType, Subs
  <1>4. /\ [Sending(<<>>) EXCEPT !.st = "off"] \in SenderType
        /\ [Sending(<<>>) EXCEPT !.st = "off"].st = "off"
        /\ [Sending(<<>>) EXCEPT !.st = "off"].events = <<>>
    <2>1. Sending(<<>>) \in SenderType /\ Sending(<<>>).events = <<>>
      BY SMTT(20), Z3T(20) DEF Sending, SenderType
    <2> QED
      BY <2>1 DEF SenderType
  <1>5. /\ sending \in [Senders -> SenderType]
        /\ \A w \in {"worker", "legacy"} : sending[w].st = "off" /\ sending[w].events = <<>>
    BY <1>1, <1>4, Zenon DEF Senders
  <1>6. /\ client \in ClientType /\ terminal \in ErrorsOrNone /\ tx \in TxType
        /\ ran \in RanType
    BY <1>1, SMTT(20), Z3T(20) DEF ClientType, ErrorsOrNone, Kinds, NoTx, TxType, RanType
  <1>7. wk \in WorkerType
    BY <1>1, <1>p DEF WorkerType, ErrorsOrNone
  <1>8. chan \in [Subs -> Seq(Nat)] /\ got \in [Subs -> Seq(Nat)] /\ alive \in SUBSET Subs
    BY <1>1, <1>3, SMTT(20), Z3T(20) DEF RegistryType
  <1>9. Types
    BY <1>1, <1>3, <1>5, <1>6, <1>7, <1>8, Zenon DEF Types
  <1>10. wk.pc = "unstarted" /\ wk.why = "none" /\ wk.targets = {} /\ client.by = "none"
         /\ client.st = "idle" /\ ran.ok = {} /\ ran.failed = FALSE
         /\ tx.events = <<>> /\ tx.writes = {}
    BY <1>1 DEF NoTx
  <1>11. Handshake /\ Accounts /\ Answers
    BY <1>1, <1>p, <1>10 DEF Handshake, Accounts, Answers
  <1>12. FirstError
    BY <1>1, <1>10, Zenon DEF FirstError, FirstErrorSurvives
  <1>13. Events /\ Progress /\ LegacyOnly
    BY <1>5, <1>10, SMTT(20), Z3T(20) DEF Events, Progress, LegacyOnly, Snd, Rising
  <1>14. \A s \in Subs : Len(Feed(s)) = 0
    BY <1>1, EmptyFeeds, Zenon, SMTT(20)
  <1>15. Histories /\ Gapless
    BY <1>3, <1>5, <1>10, <1>14, SMTT(20), Z3T(20) DEF Histories, Gapless, Snd, Rising
  <1> QED
    BY <1>9, <1>11, <1>12, <1>13, <1>15 DEF IInv

LEMMA IInvStep == ASSUME IInv, Next PROVE IInv'
  <1>0. /\ Types /\ Handshake /\ Accounts /\ Answers /\ FirstError
        /\ Events /\ Progress /\ LegacyOnly /\ Histories /\ Gapless
    BY DEF IInv
  <1>1. CASE ClientMoves \/ WorkerMoves \/ (Elsewhere /\ UNCHANGED feedVars)
    <2>1. Types'
      BY <1>0, <1>1, TypesStep
    <2>2. LegacyOnly'
      <3>1. sending'["legacy"] = sending["legacy"]
        <4>1. CASE UNCHANGED feedVars
          BY <4>1 DEF feedVars
        <4>2. CASE sending' = [sending EXCEPT !["worker"] = Sending(tx.events)]
          BY <1>0, <4>2 DEF Types, Senders
        <4> QED
          BY <1>1, <4>1, <4>2 DEF ClientMoves, WorkerMoves
      <3> QED
        BY <1>0, <3>1 DEF LegacyOnly
    <2> QED
      BY <1>0, <1>1, <2>1, <2>2, HandshakeStep, AccountsStep, AnswersStep, FirstErrorStep,
         EventsStep, ProgressStep, HistoriesStep, GaplessStep, Zenon DEF IInv
  <1>2. CASE Elsewhere /\ FeedStep
    <2>1. FeedMoves /\ FeedTypes' /\ LegacyOnly'
      BY <1>0, <1>2, FeedEffect DEF Types, FeedTypes
    <2>2. Types'
      BY <1>0, <1>2, <2>1 DEF Types, FeedTypes, Elsewhere
    <2> QED
      BY <1>0, <1>2, <2>1, <2>2, HandshakeStep, AccountsStep, AnswersStep, FirstErrorStep,
         EventsStep, ProgressStep, HistoriesStep, GaplessStep, Zenon DEF IInv
  <1> QED
    BY <1>0, <1>1, <1>2, StepKinds

LEMMA Stutter == ASSUME IInv, UNCHANGED vars PROVE IInv'
  <1>1. ClientMoves \/ WorkerMoves \/ (Elsewhere /\ UNCHANGED feedVars)
    BY DEF vars, Elsewhere, feedVars
  <1>2. UNCHANGED sending
    BY DEF vars
  <1>3. LegacyOnly'
    BY <1>2 DEF IInv, LegacyOnly
  <1> QED
    BY <1>1, <1>3, TypesStep, HandshakeStep, AccountsStep, AnswersStep, FirstErrorStep,
       EventsStep, ProgressStep, HistoriesStep, GaplessStep, Zenon DEF IInv

LEMMA Inductive == Spec => []IInv
  <1>1. Init => IInv
    BY InitIInv
  <1>2. IInv /\ [Next]_vars => IInv'
    BY IInvStep, Stutter
  <1> QED
    BY <1>1, <1>2, PTL DEF Spec

-----------------------------------------------------------------------------
(* The deletions of replaced rows, where they are part of the transaction. *)

Deletions ==
  /\ wk.pc \in Active => tx.cleanups \union tx.dels = ran.ok \intersect Replacing
  /\ wk.pc = "commit" => tx.cleanups = {}
  /\ wiped = store \intersect Replacing

\* A step that changes neither the store nor what the transaction has to delete.
Spares ==
  /\ UNCHANGED <<store, wiped>>
  /\ \/ UNCHANGED <<wk, tx, ran>>
     \/ wk'.pc \notin Active
     \/ /\ wk.pc \in Active /\ wk'.pc # "commit"
        /\ tx'.cleanups = tx.cleanups /\ tx'.dels = tx.dels /\ ran'.ok = ran.ok

LEMMA SparesDeletions == ASSUME Deletions, Spares PROVE Deletions'
  <1>1. "commit" \in Active
    BY DEF Active, Serving
  <1> QED
    BY <1>1 DEF Deletions, Spares

LEMMA FailSpares ==
  ASSUME wk \in WorkerType, NEW e, Fail(e), UNCHANGED <<store, wiped>>
  PROVE  Spares
  <1>1. wk'.pc = "failed"
    BY DEF Fail, WorkerType
  <1> QED
    BY <1>1 DEF Spares, Active, Serving, Querying

LEMMA DeletionsStep ==
  ASSUME ~WriteThrough, IInv, Deletions, [Next]_vars
  PROVE  Deletions'
  <1>0. /\ wk \in WorkerType /\ tx \in TxType /\ ran \in RanType
        /\ store \in SUBSET Nat /\ registry.ids \in SUBSET Subs
    BY DEF IInv, Types, RegistryType
  <1>p. Active = {"unstarted", "next", "select", "query", "lock", "sleep", "run", "nap",
                  "reply", "abort", "cleanup", "commit"}
    BY DEF Active, Serving, Querying
  <1>g. ASSUME NEW pc, NEW g, Goto(pc) \/ wk' = [wk EXCEPT !.pc = pc, !.guard = g]
        PROVE  wk'.pc = pc
    BY <1>0, <1>g, Zenon DEF Goto, WorkerType
  <1>1. CASE ClientStep \/ CancelFlag \/ CancelWake \/ Expire \/ FeedStep \/ UNCHANGED vars
    <2>1. UNCHANGED <<store, wiped, wk, tx, ran>>
      <3>1. CASE ClientStep
        BY <3>1, Zenon DEF ClientStep, Request, Receive, ReceiveFails, DropClient, workerVars
      <3>2. CASE CancelFlag \/ CancelWake \/ Expire \/ UNCHANGED vars
        BY <3>2 DEF CancelFlag, CancelWake, Expire, vars, workerVars
      <3>3. CASE FeedStep
        <4>1. UNCHANGED feedQuiet
          BY <3>3, Zenon, SMTT(20) DEF FeedStep, SendStep, TakeEvent, SendOne, EventSent, Sweep,
            LegacyCommit, Drain, DropReceiver, Unregister, Register
        <4> QED
          BY <4>1 DEF feedQuiet, workerVars
      <3> QED
        BY <1>1, <3>1, <3>2, <3>3
    <2> QED
      BY <2>1, SparesDeletions DEF Spares
  <1>2. CASE \E e \in Errors : Fail(e) /\ UNCHANGED <<store, wiped>>
    BY <1>0, <1>2, FailSpares, SparesDeletions, Zenon
  <1>e. /\ {"timeout", "killed", "closed", "query", "storage"} = Errors
        /\ PoisonErr \in Errors
    BY DEF Errors, PoisonErr
  <1>3. CASE AbortTx \/ AckCommit \/ FeedSent \/ Record \/ Leave \/ DropWorker
    <2>1. UNCHANGED <<store, wiped>>
      BY <1>3 DEF AbortTx, AckCommit, FeedSent, Record, Leave, DropWorker
    <2>2. wk'.pc \in {"leaving", "failed", "feed", "gone"}
      BY <1>0, <1>3, Zenon DEF AbortTx, AckCommit, FeedSent, Record, Leave, DropWorker, Goto, WorkerType
    <2> QED
      BY <1>p, <2>1, <2>2, SparesDeletions DEF Spares
  <1>4. ASSUME wk.pc \in Active, wk'.pc \in Active, wk'.pc # "commit",
               UNCHANGED <<tx, ran, store, wiped>>
        PROVE  Deletions'
    BY <1>4, SparesDeletions, Zenon DEF Spares
  <1>5. CASE Start
    <2>1. CASE wk' = [wk EXCEPT !.pc = "next", !.targets = registry.ids] /\ UNCHANGED tx
      <3>1. wk'.pc = "next"
        BY <1>0, <2>1, Zenon DEF WorkerType
      <3> QED
        BY <1>4, <1>5, <1>p, <2>1, <3>1, SMTT(20), Z3T(20) DEF Start
    <2> QED
      BY <1>2, <1>5, <1>e, <2>1 DEF Start
  <1>6. CASE Next1 \/ TakeCommand
    <2>1. CASE Poisoned
      BY <1>2, <1>6, <1>e, <2>1 DEF Next1, TakeCommand
    <2>2. CASE ~Poisoned
      <3>1. wk.pc = "select" \/ wk.pc = "next"
        BY <1>6 DEF Next1, TakeCommand
      <3>2. wk'.pc \in {"select", "query", "cleanup", "abort"}
        <4>1. CASE Next1
          BY <1>g, <2>2, <4>1, Zenon DEF Next1
        <4>2. CASE TakeCommand
          <5>1. /\ Head(cmds).kind \in Kinds
            BY <4>2, SMTT(20), Z3T(20) DEF TakeCommand, IInv, Handshake, Types, ClientType
          <5>2. Dispatch[Head(cmds).kind] \in {"query", "cleanup", "abort"}
            BY <5>1, SMTT(20), Z3T(20) DEF Dispatch, Kinds
          <5>3. wk'.pc = Dispatch[Head(cmds).kind]
            BY <1>0, <2>2, <4>2, Zenon DEF TakeCommand, WorkerType
          <5> QED
            BY <5>2, <5>3
        <4> QED
          BY <1>6, <4>1, <4>2
      <3> QED
        BY <1>4, <1>6, <1>p, <2>2, <3>1, <3>2 DEF Next1, TakeCommand
    <2> QED
      BY <2>1, <2>2
  <1>7. CASE TakeNothing
    BY <1>2, <1>7, <1>e DEF TakeNothing
  <1>8. ASSUME NEW writes \in BOOLEAN, BeginQuery(writes) PROVE Deletions'
    <2>1. CASE Goto(IF writes THEN "lock" ELSE "run") /\ UNCHANGED <<tx, ran>>
      <3>1. wk'.pc \in {"lock", "run"}
        BY <1>g, <2>1, Zenon
      <3> QED
        BY <1>4, <1>8, <1>p, <2>1, <3>1 DEF BeginQuery
    <2> QED
      BY <1>2, <1>8, <1>e, <2>1 DEF BeginQuery
  <1>9. ASSUME NEW busy \in BOOLEAN, TryLock(busy) PROVE Deletions'
    <2>1. CASE Poisoned
      BY <1>2, <1>9, <1>e, <2>1 DEF TryLock
    <2>2. CASE ~Poisoned
      <3>1. wk'.pc \in {"sleep", "run"} /\ UNCHANGED tx /\ wk.pc = "lock"
        BY <1>g, <1>9, <2>2, Zenon DEF TryLock
      <3> QED
        BY <1>4, <1>9, <1>p, <3>1 DEF TryLock
    <2> QED
      BY <2>1, <2>2
  <1>10. ASSUME NEW pc \in {"sleep", "nap"}, NEW back \in {"lock", "reply"}, Sleep(pc, back)
         PROVE  Deletions'
    <2>1. CASE Goto(back) /\ UNCHANGED tx
      <3>1. wk'.pc = back
        BY <1>g, <2>1, Zenon
      <3> QED
        BY <1>4, <1>10, <1>p, <2>1, <3>1 DEF Sleep
    <2> QED
      BY <1>2, <1>10, <1>e, <2>1 DEF Sleep
  <1>11. CASE ReplyQuery
    <2>1. CASE wk' = [wk EXCEPT !.pc = "next", !.guard = FALSE] /\ UNCHANGED tx
      <3>1. wk'.pc = "next"
        BY <1>g, <2>1, Zenon
      <3> QED
        BY <1>4, <1>11, <1>p, <2>1, <3>1, SMTT(20), Z3T(20) DEF ReplyQuery
    <2> QED
      BY <1>2, <1>11, <1>e, <2>1 DEF ReplyQuery
  <1>12. ASSUME NEW naps \in BOOLEAN, RunQuery(naps) PROVE Deletions'
    <2>0. wk.pc = "run" /\ UNCHANGED <<store, wiped>>
      BY <1>12 DEF RunQuery
    <2> DEFINE tx1 == [tx EXCEPT !.writes = @ \union {wk.n},
                                 !.events = IF wk.targets # {} THEN Append(@, wk.n) ELSE @,
                                 !.cleanups = @ \union ({wk.n} \intersect Replacing)]
    <2>1. CASE Goto(IF naps THEN "nap" ELSE "reply") /\ UNCHANGED <<tx, ran>>
      <3>1. wk'.pc \in {"nap", "reply"}
        BY <1>g, <2>1, Zenon
      <3> QED
        BY <1>4, <1>p, <2>0, <2>1, <3>1
    <2>2. CASE /\ Goto(IF naps THEN "nap" ELSE "reply")
               /\ tx' = tx1 /\ ran' = [ran EXCEPT !.ok = @ \union {wk.n}]
      <3>1. wk'.pc \in {"nap", "reply"}
        BY <1>g, <2>2, Zenon
      <3>2. /\ tx'.cleanups = tx.cleanups \union ({wk.n} \intersect Replacing)
            /\ tx'.dels = tx.dels /\ ran'.ok = ran.ok \union {wk.n}
        BY <1>0, <2>2, Zenon DEF TxType, RanType
      <3>3. tx'.cleanups \union tx'.dels = ran'.ok \intersect Replacing
        BY <1>p, <2>0, <3>2 DEF Deletions
      <3> QED
        BY <2>0, <3>1, <3>3 DEF Deletions
    <2> QED
      BY <1>0, <1>2, <1>12, <1>e, <2>1, <2>2 DEF RunQuery
  <1>13. CASE Cleanup
    <2>0. wk.pc = "cleanup" /\ UNCHANGED <<store, ran>>
      BY <1>13, Zenon DEF Cleanup
    <2>w. \A n : GoneAtOnce(n) = {}
      BY DEF GoneAtOnce
    <2>1. CASE UNCHANGED wiped /\ \E e \in Errors : Fail(e)
      BY <1>2, <2>0, <2>1
    <2>2. ASSUME NEW n \in NextCleanup, UNCHANGED wk, UNCHANGED wiped,
                 tx' = [tx EXCEPT !.cleanups = @ \ {n}, !.dels = @ \union {n}]
          PROVE  Deletions'
      <3>1. tx'.cleanups = tx.cleanups \ {n} /\ tx'.dels = tx.dels \union {n}
        BY <1>0, <2>2, Zenon DEF TxType
      <3>2. n \in tx.cleanups
        BY <2>2 DEF NextCleanup
      <3>3. tx'.cleanups \union tx'.dels = tx.cleanups \union tx.dels
        BY <3>1, <3>2
      <3> QED
        BY <1>p, <2>0, <2>2, <3>3 DEF Deletions
    <2>3. CASE tx.cleanups = {} /\ Goto("commit") /\ UNCHANGED <<tx, wiped>>
      <3>1. wk'.pc = "commit"
        BY <1>g, <2>3, Zenon
      <3> QED
        BY <1>p, <2>0, <2>3, <3>1 DEF Deletions
    <2> QED
      BY <1>13, <1>e, <2>w, <2>1, <2>2, <2>3, Zenon DEF Cleanup
  <1>14. CASE CommitTx
    <2>1. CASE /\ store' = store \union tx.writes /\ wiped' = wiped \union tx.dels
               /\ Goto("ack")
      <3>1. wk'.pc = "ack"
        BY <1>g, <2>1, Zenon
      <3>2. /\ tx.writes = ran.ok /\ store = {}
            /\ tx.dels = ran.ok \intersect Replacing /\ wiped = store \intersect Replacing
        BY <1>14, <1>p DEF CommitTx, IInv, Accounts, Deletions
      <3> QED
        BY <1>p, <2>1, <3>1, <3>2 DEF Deletions
    <2> QED
      BY <1>2, <1>14, <1>e, <2>1 DEF CommitTx
  <1>15. CASE WorkerStep
    BY <1>3, <1>5, <1>6, <1>7, <1>8, <1>9, <1>10, <1>11, <1>12, <1>13, <1>14, <1>15, Zenon DEF WorkerStep
  <1> QED
    BY <1>1, <1>15, Zenon DEF Next, FeedStep

-----------------------------------------------------------------------------
(* What follows. *)

\* Whatever is cancelled, times out or goes away, and whenever: an Ok answer is the
\* answer to the request just made, a commit answered Ok is in the store with every
\* write the client was told of, an abort answered Ok has left nothing there
\* (GovernedTransaction::request and the worker's replies).
THEOREM TrueAnswers == Spec => []AnswersAreTrue
  <1>1. IInv => AnswersAreTrue
    BY DEF IInv, Answers, AnswersAreTrue
  <1> QED
    BY <1>1, Inductive, PTL

\* "Any error exits this worker and drops all uncommitted writes": on the engines that
\* delete ranges inside the transaction (all but mem and sled), whenever a query, a
\* cleanup or the commit fails, is cancelled or times out, the store has every write
\* that succeeded and none of the rows they replaced, or it is as it was.
THEOREM WholeOrNone ==
  ASSUME ~WriteThrough
  PROVE  Spec => []AllOrNothing
  <1>1. Init => Deletions
    BY SMTT(20), Z3T(20) DEF Init, Deletions, NoTx
  <1>2. IInv /\ Deletions /\ [Next]_vars => Deletions'
    BY DeletionsStep
  <1>3. IInv /\ Deletions => AllOrNothing
    BY DEF IInv, Accounts, Deletions, AllOrNothing
  <1> QED
    BY <1>1, <1>2, <1>3, Inductive, PTL DEF Spec

\* A client that finds the worker gone is told the worker's own error: run() records
\* it before its channel ends are dropped.
THEOREM ErrorsSurvive == Spec => []FirstErrorSurvives
  <1>1. IInv => FirstErrorSurvives
    BY Zenon DEF IInv, FirstError
  <1> QED
    BY <1>1, Inductive, PTL

\* send_callbacks_until publishes committed changes only, each at most once and in
\* order, to however many subscribers with however small channels.
THEOREM CommittedFeed == Spec => []FeedIsCommitted
  <1>1. IInv => FeedIsCommitted
    BY DEF IInv, Histories, FeedIsCommitted, Range1
  <1> QED
    BY <1>1, Inductive, PTL

\* A subscriber that is still registered when the worker has gone has been sent every
\* change the transaction committed.
THEOREM NoGap == Spec => []NoSilentGap
  <1>1. ASSUME IInv PROVE NoSilentGap
    <2> SUFFICES ASSUME wk.pc = "gone", NEW s \in wk.targets \intersect registry.ids, NEW e \in store
                 PROVE  e \in Range1(Feed(s))
      BY DEF NoSilentGap
    <2>1. Snd.st = "done" /\ Snd.events = <<>>
      BY <1>1, Zenon DEF IInv, Progress
    <2>2. s \notin Snd.failed
      BY <1>1, <2>1, Zenon, SMTT(20) DEF IInv, Gapless
    <2>3. Has(Feed(s), e) \/ Coming(s, e, Snd)
      BY <1>1, <2>1, <2>2 DEF IInv, Gapless
    <2>4. ~Coming(s, e, Snd)
      BY <2>1 DEF Coming
    <2> QED
      BY <2>3, <2>4 DEF Has, Range1
  <1> QED
    BY <1>1, Inductive, PTL
=============================================================================
