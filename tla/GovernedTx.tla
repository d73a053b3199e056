------------------------------ MODULE GovernedTx ------------------------------
(***************************************************************************)
(* One governed multi-transaction: the serialized client, the worker that  *)
(* owns the storage transaction, the cancellation handle, and the change   *)
(* feed the worker writes to once it has committed                         *)
(* (cozo-core/src/runtime/governed_transaction.rs, callback.rs and         *)
(* Db::run_governed_transaction in db.rs).                                 *)
(*                                                                         *)
(* Around them: index builds that hold the relation's lock exclusively, and*)
(* an ordinary writer that publishes to the same feed with no deadline.    *)
(* Requests are numbered; a write query is identified with its number, in  *)
(* the store, in the transaction and as its change-feed event.             *)
(***************************************************************************)
EXTENDS Naturals, Sequences, Backends

CONSTANTS
  MaxReq,       \* bound: requests the client makes
  MaxSubs,      \* bound: subscriptions ever registered
  Cap,          \* capacity of a subscription's channel
  Replacing     \* the requests that, when they write, replace a relation

ASSUME GovernedAssumption ==
  /\ MaxReq \in Nat /\ Cap \in Nat \ {0}
  /\ MaxSubs \in Nat /\ Replacing \subseteq Nat

VARIABLES
  client,       \* GovernedTransaction: st, n, kind, and the error it was told
  cmds,         \* the command channel, bounded(1)
  results,      \* the result channel, bounded(1)
  flag,         \* Poison.flag, shared with every cancellation handle
  wake,         \* the wake channel, bounded(1)
  expired,      \* the absolute deadline has passed
  terminal,     \* Arc<Mutex<Option<Report>>>
  wk,           \* the worker: pc, the request it serves, why it failed, whether it
                \* holds the relation lock shared, the callback targets it captured
  tx,           \* the storage transaction: writes, events collected, the ranges to clean
                \* up at commit, and the ranges whose deletion it has buffered
  store,        \* requests whose writes are committed
  wiped,        \* requests that replaced a relation whose old rows the store has lost
  registry,     \* event_callbacks: the registered ids; callback_count
  chan,         \* what each subscription's channel holds
  got,          \* what each subscriber has received
  alive,        \* subscriptions whose receiver exists
  sending,      \* send_callbacks_inner, in the worker and in an ordinary writer
  heard,        \* the Ok answers the client got: request and its kind
  ran           \* history: write queries that succeeded, and whether one failed

workerVars == <<terminal, wk, tx, store, wiped>>
feedVars == <<registry, chan, got, alive, sending>>
vars == <<client, cmds, results, flag, wake, expired, terminal, wk, tx, store, wiped,
          registry, chan, got, alive, sending, heard, ran>>

Errors == {"timeout", "killed", "closed", "query", "storage"}
Subs == 1..MaxSubs
Senders == {"worker", "legacy"}
LegacyEvent == 0   \* the one event of the ordinary writer

NoTx == [writes |-> {}, events |-> <<>>, cleanups |-> {}, dels |-> {}]
Sending(events) ==
  [st |-> "event", events |-> events, todo |-> {}, fst |-> 0, failed |-> {}]

\* GovernedTransactionWorker::pair, with subscriptions already in place.
Init ==
  /\ client = [st |-> "idle", n |-> 0, kind |-> "query", err |-> "none", by |-> "none"]
  /\ cmds = <<>> /\ results = <<>>
  /\ flag = FALSE /\ wake = FALSE /\ expired = FALSE
  /\ terminal = "none"
  /\ wk = [pc |-> "unstarted", n |-> 0, why |-> "none", guard |-> FALSE,
           targets |-> {}]
  /\ tx = NoTx
  /\ store = {} /\ wiped = {}
  /\ registry \in {[ids |-> 1..k, next |-> k + 1] : k \in 0..MaxSubs}
  /\ chan = [s \in Subs |-> <<>>] /\ got = [s \in Subs |-> <<>>]
  /\ alive = registry.ids
  /\ sending = [w \in Senders |-> [Sending(<<>>) EXCEPT !.st = "off"]]
  /\ heard = {}
  /\ ran = [ok |-> {}, failed |-> FALSE]

(***************************************************************************)
(* The client.                                                             *)
(***************************************************************************)
WorkerHolds_RecordsLate == wk.pc \notin {"failed", "gone"}

WorkerHolds == wk.pc # "gone"
ClientHolds == client.st # "gone"

\* After a finishing request the client is consumed, and Drop cancels.
Settled(c) == IF c.kind = "query" THEN "failed" ELSE "gone"

\* GovernedTransaction::failure: the diagnostic the worker recorded, else what
\* the clock and the flag say; then cancel().
Failure(c, by) ==
  /\ client' = [c EXCEPT !.st = Settled(c), !.by = by,
       !.err = CASE terminal # "none" -> terminal
                 [] terminal = "none" /\ expired -> "timeout"
                 [] terminal = "none" /\ ~expired /\ flag -> "killed"
                 [] OTHER -> "closed"]
  /\ terminal' = "none"
  /\ flag' = TRUE /\ wake' = TRUE

\* request, the send: it fails at once when the worker is gone.
Request(kind) ==
  /\ client.st = "idle" /\ client.n < MaxReq
  /\ LET c == [client EXCEPT !.st = "waiting", !.n = @ + 1, !.kind = kind] IN
       \/ /\ WorkerHolds
          /\ client' = c
          /\ cmds' = Append(cmds, [n |-> c.n, kind |-> kind])
          /\ UNCHANGED <<flag, wake, terminal>>
       \/ /\ ~WorkerHolds
          /\ Failure(c, "disconnect")
          /\ UNCHANGED cmds
  /\ UNCHANGED <<results, expired, wk, tx, store, wiped, feedVars, heard, ran>>

\* request, the answer.
Receive ==
  /\ client.st = "waiting" /\ results # <<>>
  /\ results' = Tail(results)
  /\ heard' = heard \union {[n |-> client.n, kind |-> client.kind, of |-> Head(results)]}
  /\ client' = [client EXCEPT !.st = IF client.kind = "query" THEN "idle" ELSE "gone"]
  /\ flag' = (flag \/ client.kind # "query")
  /\ wake' = (wake \/ client.kind # "query")
  /\ UNCHANGED <<cmds, expired, workerVars, feedVars, ran>>

ReceiveFails_NoDeadline ==
  /\ client.st = "waiting" /\ results = <<>>
  /\ ~WorkerHolds /\ Failure(client, "disconnect")
  /\ UNCHANGED <<cmds, results, expired, wk, tx, store, wiped, feedVars, heard, ran>>

\* request, no answer: the worker's end of the channel is dropped, or recv_deadline
\* runs out.
ReceiveFails ==
  /\ client.st = "waiting" /\ results = <<>>
  /\ \/ ~WorkerHolds /\ Failure(client, "disconnect")
     \/ expired /\ Failure(client, "deadline")
  /\ UNCHANGED <<cmds, results, expired, wk, tx, store, wiped, feedVars, heard, ran>>

\* Drop for GovernedTransaction.
DropClient ==
  /\ client.st \in {"idle", "failed"}
  /\ client' = [client EXCEPT !.st = "gone"]
  /\ flag' = TRUE /\ wake' = TRUE
  /\ UNCHANGED <<cmds, results, expired, workerVars, feedVars, heard, ran>>

\* GovernedTransactionCancellation::cancel from another thread: the flag, and,
\* a step later, the wake.
CancelFlag ==
  /\ ~flag /\ flag' = TRUE
  /\ UNCHANGED <<client, cmds, results, wake, expired, workerVars, feedVars, heard, ran>>

CancelWake ==
  /\ flag /\ ~wake /\ wake' = TRUE
  /\ UNCHANGED <<client, cmds, results, flag, expired, workerVars, feedVars, heard, ran>>

\* The deadline passes.
Expire ==
  /\ ~expired /\ expired' = TRUE
  /\ UNCHANGED <<client, cmds, results, flag, wake, workerVars, feedVars, heard, ran>>

(***************************************************************************)
(* The worker.                                                             *)
(***************************************************************************)
\* Poison::check.
Poisoned == flag \/ expired
PoisonErr == IF flag THEN "killed" ELSE "timeout"

\* Leaving run_governed_transaction with an error drops the transaction and the
\* relation guard; run() has still to record the error.
Fail(err) ==
  /\ wk' = [wk EXCEPT !.pc = "failed", !.why = err, !.guard = FALSE]
  /\ tx' = NoTx

Goto(pc) == wk' = [wk EXCEPT !.pc = pc]

\* What the worker leaves alone unless a step says otherwise.
Quiet == UNCHANGED <<client, flag, expired, heard>>

\* The top of run_governed_transaction: transact, which may fail, and
\* current_callback_targets; the host may also drop the worker unstarted.
Start ==
  /\ wk.pc = "unstarted"
  /\ \/ Poisoned /\ Fail(PoisonErr)
     \/ ~Poisoned /\ Fail("storage")
     \/ ~Poisoned /\ wk' = [wk EXCEPT !.pc = "next", !.targets = registry.ids] /\ UNCHANGED tx
  /\ Quiet /\ UNCHANGED <<cmds, results, wake, terminal, store, wiped, feedVars, ran>>

DropWorker ==
  /\ wk.pc = "unstarted" /\ Goto("gone")
  /\ Quiet /\ UNCHANGED <<cmds, results, wake, terminal, tx, store, wiped, feedVars, ran>>

\* next(): the first check.
Next1 ==
  /\ wk.pc = "next"
  /\ \/ Poisoned /\ Fail(PoisonErr)
     \/ ~Poisoned /\ Goto("select") /\ UNCHANGED tx
  /\ Quiet /\ UNCHANGED <<cmds, results, wake, terminal, store, wiped, feedVars, ran>>

Dispatch == [query |-> "query", commit |-> "cleanup", abort |-> "abort"]

\* next(): a command arrives, and the second check.
TakeCommand ==
  /\ wk.pc = "select" /\ cmds # <<>>
  /\ cmds' = Tail(cmds)
  /\ \/ Poisoned /\ Fail(PoisonErr)
     \/ /\ ~Poisoned
        /\ wk' = [wk EXCEPT !.pc = Dispatch[Head(cmds).kind], !.n = Head(cmds).n]
        /\ UNCHANGED tx
  /\ Quiet /\ UNCHANGED <<results, wake, terminal, store, wiped, feedVars, ran>>

\* next(): the wake, the client's end dropped, or the idle limit. A ready channel
\* wins over the idle limit.
TakeNothing ==
  /\ wk.pc = "select"
  /\ \/ wake /\ wake' = FALSE /\ Fail("killed")
     \/ ~ClientHolds /\ cmds = <<>> /\ Fail("killed") /\ UNCHANGED wake
     \/ ~wake /\ ClientHolds /\ cmds = <<>> /\ Fail("timeout") /\ UNCHANGED wake
  /\ Quiet /\ UNCHANGED <<cmds, results, terminal, store, wiped, feedVars, ran>>

\* A query: parsed, and refused when it writes in a read-only transaction. A
\* query that writes polls for its relation lock.
BeginQuery(writes) ==
  /\ wk.pc = "query"
  /\ \/ Fail("query") /\ ran' = [ran EXCEPT !.failed = TRUE]
     \/ Goto(IF writes THEN "lock" ELSE "run") /\ UNCHANGED <<tx, ran>>
  /\ Quiet /\ UNCHANGED <<cmds, results, wake, terminal, store, wiped, feedVars>>

\* try_read, between two checks; an index build may hold the lock exclusively for
\* as long as it likes.
TryLock(busy) ==
  /\ wk.pc = "lock"
  /\ \/ Poisoned /\ Fail(PoisonErr)
     \/ ~Poisoned /\ busy /\ Goto("sleep") /\ UNCHANGED tx
     \/ /\ ~Poisoned /\ ~busy
        /\ wk' = [wk EXCEPT !.pc = "run", !.guard = TRUE] /\ UNCHANGED tx
  /\ Quiet /\ UNCHANGED <<cmds, results, wake, terminal, store, wiped, feedVars, ran>>

\* worker.sleep, after which pc `back` follows; a sleep that reaches the deadline
\* fails, and so does a query's own that reaches the deadline of its block.
Sleep(pc, back) ==
  /\ wk.pc = pc
  /\ \/ Poisoned /\ Fail(PoisonErr) /\ UNCHANGED wake
     \/ wake /\ wake' = FALSE /\ Fail("killed")
     \/ pc = "nap" /\ ~Poisoned /\ Fail("timeout") /\ UNCHANGED wake
     \/ ~Poisoned /\ Goto(back) /\ UNCHANGED <<tx, wake>>
  /\ Quiet /\ UNCHANGED <<cmds, results, terminal, store, wiped, feedVars, ran>>

\* execute_single_program. A failure may leave some of the writes behind in the
\* transaction; every failure ends it. A query that replaces a relation queues the
\* range of its old rows for deletion at commit.
RunQuery(naps) ==
  /\ wk.pc = "run"
  /\ \/ Poisoned /\ Fail(PoisonErr) /\ UNCHANGED ran
     \/ Fail("query") /\ ran' = [ran EXCEPT !.failed = TRUE]
     \/ /\ ~Poisoned
        /\ Goto(IF naps THEN "nap" ELSE "reply")
        /\ tx' = IF wk.guard
                 THEN [tx EXCEPT !.writes = @ \union {wk.n},
                                 !.events = IF wk.targets # {} THEN Append(@, wk.n) ELSE @,
                                 !.cleanups = @ \union ({wk.n} \intersect Replacing)]
                 ELSE tx
        /\ ran' = IF wk.guard THEN [ran EXCEPT !.ok = @ \union {wk.n}] ELSE ran
  /\ Quiet /\ UNCHANGED <<cmds, results, wake, terminal, store, wiped, feedVars>>

\* reply: try_send.
CanReply == ClientHolds /\ Len(results) = 0

\* The last check of a query, and its reply.
ReplyQuery ==
  /\ wk.pc = "reply"
  /\ \/ Poisoned /\ Fail(PoisonErr) /\ UNCHANGED results
     \/ /\ ~Poisoned /\ CanReply
        /\ results' = Append(results, wk.n)
        /\ wk' = [wk EXCEPT !.pc = "next", !.guard = FALSE] /\ UNCHANGED tx
     \/ ~Poisoned /\ ~CanReply /\ Fail("closed") /\ UNCHANGED results
  /\ Quiet /\ UNCHANGED <<cmds, wake, terminal, store, wiped, feedVars, ran>>

\* Abort drops the transaction, then replies.
AbortTx ==
  /\ wk.pc = "abort"
  /\ tx' = NoTx
  /\ \/ /\ CanReply /\ results' = Append(results, wk.n) /\ Goto("leaving")
     \/ /\ ~CanReply /\ wk' = [wk EXCEPT !.pc = "failed", !.why = "closed"]
        /\ UNCHANGED results
  /\ Quiet /\ UNCHANGED <<cmds, wake, terminal, store, wiped, feedVars, ran>>

\* The ranges are deleted in the order the queries queued them.
NextCleanup == {n \in tx.cleanups : \A m \in tx.cleanups : n <= m}

\* del_range_from_persisted: what the shared store loses before the commit.
GoneAtOnce_Always(n) == {n}

GoneAtOnce(n) == IF WriteThrough THEN {n} ELSE {}

\* Commit: each cleanup, and the check before the storage commit. On an engine
\* that writes range deletes through, the rows are gone whatever follows, and a
\* deletion that fails may have removed some of them.
Cleanup ==
  /\ wk.pc = "cleanup"
  /\ \/ Poisoned /\ Fail(PoisonErr) /\ UNCHANGED wiped
     \/ \E n \in NextCleanup :
          /\ ~Poisoned /\ Backend # "mem" /\ Fail("storage")
          /\ wiped' \in {wiped, wiped \union GoneAtOnce(n)}
     \/ \E n \in NextCleanup :
          /\ ~Poisoned /\ UNCHANGED wk
          /\ wiped' = wiped \union GoneAtOnce(n)
          /\ tx' = [tx EXCEPT !.cleanups = @ \ {n}, !.dels = @ \union ({n} \ GoneAtOnce(n))]
     \/ ~Poisoned /\ tx.cleanups = {} /\ Goto("commit") /\ UNCHANGED <<tx, wiped>>
  /\ Quiet /\ UNCHANGED <<cmds, results, wake, terminal, store, feedVars, ran>>

CommitTx_IgnoresError ==
  /\ wk.pc = "commit"
  /\ \/ store' = store \union tx.writes /\ wiped' = wiped \union tx.dels
     \/ UNCHANGED <<store, wiped>>
  /\ tx' = [NoTx EXCEPT !.events = tx.events]
  /\ Goto("ack")
  /\ Quiet /\ UNCHANGED <<cmds, results, wake, terminal, feedVars, ran>>

CommitTx_FeedsAnyway ==
  /\ wk.pc = "commit"
  /\ \/ /\ wk' = [wk EXCEPT !.pc = "feed", !.why = "storage"]
        /\ sending' = [sending EXCEPT !["worker"] = Sending(tx.events)]
        /\ tx' = NoTx /\ UNCHANGED <<store, wiped>>
     \/ /\ store' = store \union tx.writes /\ wiped' = wiped \union tx.dels
        /\ tx' = [NoTx EXCEPT !.events = tx.events]
        /\ Goto("ack") /\ UNCHANGED sending
  /\ Quiet /\ UNCHANGED <<cmds, results, wake, terminal, registry, chan, got, alive, ran>>

\* The storage commit, which nothing interrupts; the transaction is dropped with
\* its events handed on.
CommitTx ==
  /\ wk.pc = "commit"
  /\ \/ Fail("storage") /\ UNCHANGED <<store, wiped>>
     \/ /\ store' = store \union tx.writes /\ wiped' = wiped \union tx.dels
        /\ tx' = [NoTx EXCEPT !.events = tx.events]
        /\ Goto("ack")
  /\ Quiet /\ UNCHANGED <<cmds, results, wake, terminal, feedVars, ran>>

\* The reply to a commit; the feed follows whether or not it could be delivered.
AckCommit ==
  /\ wk.pc = "ack"
  /\ \/ CanReply /\ results' = Append(results, wk.n) /\ Goto("feed")
     \/ /\ ~CanReply /\ wk' = [wk EXCEPT !.pc = "feed", !.why = "closed"]
        /\ UNCHANGED results
  /\ sending' = [sending EXCEPT !["worker"] = Sending(tx.events)]
  /\ tx' = NoTx
  /\ Quiet /\ UNCHANGED <<cmds, wake, terminal, store, wiped, registry, chan, got, alive, ran>>

\* send_callbacks_until has returned.
FeedSent ==
  /\ wk.pc = "feed" /\ sending["worker"].st = "done"
  /\ Goto(IF wk.why = "none" THEN "leaving" ELSE "failed")
  /\ Quiet /\ UNCHANGED <<cmds, results, wake, terminal, tx, store, wiped, feedVars, ran>>

\* run(): the error is recorded, and then self and its channel ends are dropped.
Record ==
  /\ wk.pc = "failed"
  /\ terminal' = wk.why
  /\ Goto("leaving")
  /\ Quiet /\ UNCHANGED <<cmds, results, wake, tx, store, wiped, feedVars, ran>>

Leave ==
  /\ wk.pc = "leaving" /\ Goto("gone")
  /\ Quiet /\ UNCHANGED <<cmds, results, wake, terminal, tx, store, wiped, feedVars, ran>>

(***************************************************************************)
(* The change feed: send_callbacks_inner, by the worker up to its deadline *)
(* and by an ordinary writer without one, and the subscribers.             *)
(***************************************************************************)
\* The registry is held shared while one event is sent to its subscribers.
Shared == {w \in Senders : sending[w].st = "send"}

IsLowest(s, ids) == IF ids = {} THEN s = 0 ELSE s \in ids /\ \A t \in ids : s <= t

\* The order of the sends: all but the lowest id in ascending order, then the lowest.
IsNext(s, snd) ==
  /\ s \in snd.todo
  /\ \A t \in snd.todo \ {s} : t = snd.fst \/ (s # snd.fst /\ s < t)

feedQuiet == <<client, cmds, results, flag, wake, expired, workerVars, heard, ran>>

\* The next event takes the registry shared and finds its subscribers.
TakeEvent(w) ==
  /\ sending[w].st = "event" /\ sending[w].events # <<>>
  /\ \E s \in Subs \union {0} :
       /\ IsLowest(s, registry.ids)
       /\ sending' = [sending EXCEPT ![w].st = "send", ![w].todo = registry.ids, ![w].fst = s]
  /\ UNCHANGED <<registry, chan, got, alive>> /\ UNCHANGED feedQuiet

SendOne_ForgetsTimeout(w) ==
  /\ sending[w].st = "send"
  /\ \E s \in Subs :
       /\ IsNext(s, sending[w])
       /\ LET open == s \in alive
              rest == [sending EXCEPT ![w].todo = @ \ {s}]
          IN  \/ /\ open /\ Len(chan[s]) < Cap
                 /\ chan' = [chan EXCEPT ![s] = Append(@, Head(sending[w].events))]
                 /\ sending' = rest
              \/ /\ \/ ~open
                    \/ open /\ Len(chan[s]) = Cap /\ w = "worker" /\ expired
                 /\ sending' = [rest EXCEPT ![w].failed = IF open THEN @ ELSE @ \union {s}]
                 /\ UNCHANGED chan
  /\ UNCHANGED <<registry, got, alive>> /\ UNCHANGED feedQuiet

SendOne_Blocks(w) ==
  /\ sending[w].st = "send"
  /\ \E s \in Subs :
       /\ IsNext(s, sending[w])
       /\ LET open == s \in alive
              rest == [sending EXCEPT ![w].todo = @ \ {s}]
          IN  \/ /\ open /\ Len(chan[s]) < Cap
                 /\ chan' = [chan EXCEPT ![s] = Append(@, Head(sending[w].events))]
                 /\ sending' = rest
              \/ /\ \/ ~open
                    \/ open /\ Len(chan[s]) = Cap /\ FALSE
                 /\ sending' = [rest EXCEPT ![w].failed = @ \union {s}]
                 /\ UNCHANGED chan
  /\ UNCHANGED <<registry, got, alive>> /\ UNCHANGED feedQuiet

\* One send: delivered, refused by a dropped receiver, or out of time.
SendOne(w) ==
  /\ sending[w].st = "send"
  /\ \E s \in Subs :
       /\ IsNext(s, sending[w])
       /\ LET open == s \in alive
              rest == [sending EXCEPT ![w].todo = @ \ {s}]
          IN  \/ /\ open /\ Len(chan[s]) < Cap
                 /\ chan' = [chan EXCEPT ![s] = Append(@, Head(sending[w].events))]
                 /\ sending' = rest
              \/ /\ \/ ~open
                    \/ open /\ Len(chan[s]) = Cap /\ w = "worker" /\ expired
                 /\ sending' = [rest EXCEPT ![w].failed = @ \union {s}]
                 /\ UNCHANGED chan
  /\ UNCHANGED <<registry, got, alive>> /\ UNCHANGED feedQuiet

\* The event is done with, and the registry given back.
EventSent(w) ==
  /\ sending[w].st = "send" /\ sending[w].todo = {}
  /\ sending' = [sending EXCEPT ![w].st = "event", ![w].events = Tail(@)]
  /\ UNCHANGED <<registry, chan, got, alive>> /\ UNCHANGED feedQuiet

\* The subscriptions that failed are removed, under the registry held exclusively.
Sweep(w) ==
  /\ sending[w].st = "event" /\ sending[w].events = <<>>
  /\ sending[w].failed # {} => Shared = {}
  /\ registry' = [registry EXCEPT !.ids = @ \ sending[w].failed]
  /\ sending' = [sending EXCEPT ![w].st = "done"]
  /\ UNCHANGED <<chan, got, alive>> /\ UNCHANGED feedQuiet

\* The feed's other users move once the worker has something to publish: what
\* they do earlier commutes with every step of the worker but the capture of
\* the callback targets, which Register and Unregister race with.
Publishing == wk.pc \in {"commit", "ack", "feed", "failed", "leaving", "gone"} /\ ran.ok # {}

\* An ordinary writer has committed its one event.
LegacyCommit ==
  /\ Publishing /\ sending["legacy"].st = "off"
  /\ sending' = [sending EXCEPT !["legacy"] = Sending(<<LegacyEvent>>)]
  /\ UNCHANGED <<registry, chan, got, alive>> /\ UNCHANGED feedQuiet

\* A subscriber receives, or goes away.
Drain(s) ==
  /\ s \in alive /\ chan[s] # <<>>
  /\ got' = [got EXCEPT ![s] = Append(@, Head(chan[s]))]
  /\ chan' = [chan EXCEPT ![s] = Tail(@)]
  /\ UNCHANGED <<registry, alive, sending>> /\ UNCHANGED feedQuiet

DropReceiver(s) ==
  /\ Publishing /\ s \in alive /\ alive' = alive \ {s}
  /\ UNCHANGED <<registry, chan, got, sending>> /\ UNCHANGED feedQuiet

\* register_callback and unregister_callback, which hold the registry exclusively.
Register ==
  /\ registry.next \in Subs /\ Shared = {}
  /\ registry' = [ids |-> registry.ids \union {registry.next}, next |-> registry.next + 1]
  /\ alive' = alive \union {registry.next}
  /\ UNCHANGED <<chan, got, sending>> /\ UNCHANGED feedQuiet

Unregister(s) ==
  /\ s \in registry.ids /\ Shared = {}
  /\ registry' = [registry EXCEPT !.ids = @ \ {s}]
  /\ UNCHANGED <<chan, got, alive, sending>> /\ UNCHANGED feedQuiet

ClientStep ==
  \/ \E kind \in DOMAIN Dispatch : Request(kind)
  \/ Receive \/ ReceiveFails \/ DropClient

WorkerStep ==
  \/ Start \/ DropWorker \/ Next1 \/ TakeCommand \/ TakeNothing
  \/ \E writes \in BOOLEAN : BeginQuery(writes)
  \/ \E busy \in BOOLEAN : TryLock(busy)
  \/ Sleep("sleep", "lock") \/ Sleep("nap", "reply")
  \/ \E naps \in BOOLEAN : RunQuery(naps)
  \/ ReplyQuery \/ AbortTx \/ Cleanup \/ CommitTx \/ AckCommit
  \/ FeedSent \/ Record \/ Leave

SendStep(w) == TakeEvent(w) \/ SendOne(w) \/ EventSent(w) \/ Sweep(w)

Next ==
  \/ ClientStep \/ WorkerStep
  \/ CancelFlag \/ CancelWake \/ Expire
  \/ \E w \in Senders : SendStep(w)
  \/ LegacyCommit
  \/ \E s \in Subs : Drain(s) \/ DropReceiver(s) \/ Unregister(s)
  \/ Register

Spec == Init /\ [][Next]_vars

\* Time passes; a running thread runs. Nothing is assumed of the subscribers, of
\* the index build, of the canceller, or of when the host starts the worker.
Fairness ==
  /\ WF_vars(Expire)
  /\ WF_vars(wk.pc # "unstarted" /\ WorkerStep)
  /\ WF_vars(Receive \/ ReceiveFails)
  /\ \A w \in Senders : WF_vars(SendStep(w))

FairSpec == Spec /\ Fairness

(***************************************************************************)
(* Properties.                                                             *)
(***************************************************************************)
Range1(q) == {q[i] : i \in 1..Len(q)}

\* What subscriber s has received, then what its channel holds for it.
Feed(s) == got[s] \o chan[s]

\* What the client is told is so: a commit answered Ok is in the store with every
\* write it was told had succeeded, an abort answered Ok has left nothing there,
\* and an answer is the answer to the request just made ("prevent response
\* miscorrelation").
AnswersAreTrue ==
  \A h \in heard :
    /\ h.of = h.n
    /\ h.kind = "commit" => ran.ok \subseteq store
    /\ h.kind = "abort" => store = {}

\* While mem and sqlite delete, the store is locked and nobody looks.
Locked == Exclusive /\ wk.pc \in {"cleanup", "commit"}

\* "Any error exits this worker and drops all uncommitted writes": what the store
\* shows of the transaction is all of it, with every write query that succeeded and
\* the old rows of every replaced relation gone, and no query had failed; or it is
\* nothing, with every old row in place.
AllOrNothing ==
  (store # {} \/ wiped # {}) /\ ~Locked =>
    store = ran.ok /\ wiped = store \intersect Replacing /\ ~ran.failed

\* The worker's first error reaches the client: a call that finds the worker gone
\* is told why it went, never a plain disconnect.
FirstErrorSurvives ==
  client.by = "disconnect" /\ wk.why # "none" => client.err = wk.why

\* The feed publishes committed changes only, each at most once, in order.
FeedIsCommitted ==
  \A s \in Subs :
    LET seen == Feed(s)
    IN  /\ Range1(seen) \subseteq store \union {LegacyEvent}
        /\ \A i, j \in 1..Len(seen) :
             i < j /\ LegacyEvent \notin {seen[i], seen[j]} => seen[i] < seen[j]

\* A committed change that does not reach a subscriber costs it its subscription:
\* whoever is still subscribed when the worker ends has been sent everything.
NoSilentGap ==
  wk.pc = "gone" =>
    \A s \in wk.targets \intersect registry.ids :
      store \subseteq Range1(Feed(s))

\* A blocking client call returns, whatever the worker, the subscribers and the
\* index build do.
CallsReturn == client.st = "waiting" ~> client.st # "waiting"

\* A started worker ends, unless an ordinary writer is stuck for ever on a
\* subscriber that does not drain, with the registry held.
LegacyStuck ==
  \E s \in Subs : IsNext(s, sending["legacy"]) /\ Len(chan[s]) = Cap

WorkerEnds ==
  \/ wk.pc # "unstarted" ~> wk.pc = "gone"
  \/ <>[]LegacyStuck
=============================================================================
