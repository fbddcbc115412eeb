----------------------------- MODULE Transactor -----------------------------
(***************************************************************************)
(* MessageTransactor (chain/bsc2/transactor.go): the life of the relay     *)
(* messages handed to the sender.  Every message moves through the message *)
(* types Created, Pending, Executing, Executed and then Finalized, Dropped *)
(* or Faulted.  The Run loop starts one goroutine per message taken from   *)
(* the transition channel and one per finality taken from the finalities   *)
(* channel; goroutines share waitings under the mutex mu and answer the    *)
(* link on the replies channel.                                            *)
(*                                                                         *)
(* The BSC node behind the RPC client is the environment: a transaction    *)
(* pool and a canonical chain that may be reorganised above its finalized  *)
(* prefix.  An RPC may fail or be answered by a node that lags behind.     *)
(***************************************************************************)
EXTENDS Blocks

CONSTANTS
    Messages,       \* ids of the relay messages the link sends
    Forks,          \* tells apart blocks of equal contents on rival forks
    MaxHeight,      \* bound: the highest block the node produces
    Capacity,       \* capacity of the transition channel (128)
    EstimatesGas,   \* MaxGasLimit = 0: gas is estimated before submission
    GasRetries,     \* failed estimates that are retried (10)
    PollLimit,      \* polls of a transaction in the pool (10)
    NotFoundLimit   \* polls before "not found" means dropped (5)

ASSUME ConstantsAssumption ==
    /\ MaxHeight \in Nat
    /\ Capacity \in Nat \ {0}
    /\ EstimatesGas \in BOOLEAN
    /\ GasRetries \in Nat
    /\ PollLimit \in Nat
    /\ NotFoundLimit \in Nat

VARIABLES
    kind,       \* kind[m]: the type of the message object that carries m
    place,      \* place[m]: where that object, or its goroutine, is
    attempt,    \* attempt[m]: the retry counter of the running Transit
    receipt,    \* receipt[m]: the receipt an Executing message was built with
    transition, \* the transition channel
    waitings,   \* the waitings slice
    sweep,      \* the finality goroutine that holds mu, or Idle
    finals,     \* finalities taken from the channel, goroutine not yet in mu
    replies,    \* replies[m]: the results sent to the link for m
    alive,      \* FALSE once a goroutine has panicked
    sent,       \* node: transactions it has accepted
    chain,      \* node: the canonical head
    final       \* the last finality notified by the sender

progress == <<kind, place, attempt, receipt>>
node == <<sent, chain>>
vars == <<kind, place, attempt, receipt, transition, waitings, sweep, finals,
          replies, alive, sent, chain, final>>

Kinds == {"Unknown", "Created", "Pending", "Executing", "Executed",
          "Finalized", "Dropped", "Faulted"}

\* "send": inside Send, before its channel operation; "lock": inside Send,
\* before the append to waitings; estimate/submit, poll/receipt and execute:
\* inside Transit of a Created, a Pending and an Executing message.
Places == {"outside", "send", "queue", "estimate", "submit", "poll",
           "receipt", "execute", "lock", "waiting", "done"}

Bodies == [fork : Forks, ok : SUBSET Messages, reverted : SUBSET Messages]

Included(body) == body.ok \cup body.reverted

\* The heights of the canonical chain at which m was executed.
InclusionHeights(m) == {n \in 1 .. Len(chain) : m \in Included(chain[n])}

NoReceipt == [hash |-> Genesis, ok |-> FALSE]

Idle == [on |-> FALSE, final |-> Genesis, i |-> 1, k |-> 0]

Settled == {"Faulted", "Dropped", "Executed", "Finalized"}

Init ==
    /\ kind = [m \in Messages |-> "Unknown"]
    /\ place = [m \in Messages |-> "outside"]
    /\ attempt = [m \in Messages |-> 0]
    /\ receipt = [m \in Messages |-> NoReceipt]
    /\ transition = << >>
    /\ waitings = << >>
    /\ sweep = Idle
    /\ finals = {}
    /\ replies = [m \in Messages |-> << >>]
    /\ alive = TRUE
    /\ sent = {}
    /\ chain = Genesis
    /\ final = Genesis

-----------------------------------------------------------------------------
(* The link's call and the channels.                                       *)

\* Faulty: one slot too many.
BusyOffByOne == Len(transition) > Capacity

Busy == Len(transition) = Capacity

\* The object carrying m becomes one of type t and goes to place p.
Become(m, t, p) ==
    /\ kind' = [kind EXCEPT ![m] = t]
    /\ place' = [place EXCEPT ![m] = p]

\* sender.Relay: refuses while Busy, otherwise hands a Created message to Send.
Relay(m) ==
    /\ place[m] = "outside"
    /\ ~Busy
    /\ Become(m, "Created", "send")
    /\ UNCHANGED <<attempt, receipt, transition, waitings, sweep, finals,
                   replies, node, final>>

\* Send of a message still in transition; blocks while the channel is full.
Enqueue(m) ==
    /\ place[m] = "send"
    /\ kind[m] \notin Settled
    /\ ~Busy
    /\ transition' = Append(transition, m)
    /\ place' = [place EXCEPT ![m] = "queue"]
    /\ UNCHANGED <<kind, attempt, receipt, waitings, sweep, finals, replies,
                   node, final>>

\* Faulty: Faulted is missing from the types Send tells the link about.
ReplyForgetsFault(m) ==
    /\ place[m] = "send"
    /\ kind[m] \in Settled
    /\ IF kind[m] = "Faulted" THEN UNCHANGED replies
       ELSE replies' = [replies EXCEPT ![m] = Append(@, kind[m])]
    /\ place' = [place EXCEPT ![m] =
                    IF kind[m] = "Executed" /\ receipt[m].ok
                    THEN "lock" ELSE "done"]
    /\ UNCHANGED <<kind, attempt, receipt, transition, waitings, sweep, finals,
                   node, final>>

\* Faulty: the test of the execution's error is missing.
ReplyKeepsReverted(m) ==
    /\ place[m] = "send"
    /\ kind[m] \in Settled
    /\ replies' = [replies EXCEPT ![m] = Append(@, kind[m])]
    /\ place' = [place EXCEPT ![m] =
                    IF kind[m] = "Executed" THEN "lock" ELSE "done"]
    /\ UNCHANGED <<kind, attempt, receipt, transition, waitings, sweep, finals,
                   node, final>>

\* Send of a message the link is told about.  Only an Executed message
\* without error goes on to waitings.
Reply(m) ==
    /\ place[m] = "send"
    /\ kind[m] \in Settled
    /\ replies' = [replies EXCEPT ![m] = Append(@, kind[m])]
    /\ place' = [place EXCEPT ![m] =
                    IF kind[m] = "Executed" /\ receipt[m].ok
                    THEN "lock" ELSE "done"]
    /\ UNCHANGED <<kind, attempt, receipt, transition, waitings, sweep, finals,
                   node, final>>

\* The rest of Send of an Executed message: append under mu.
AddWaiting(m) ==
    /\ place[m] = "lock"
    /\ ~sweep.on
    /\ waitings' = Append(waitings, m)
    /\ place' = [place EXCEPT ![m] = "waiting"]
    /\ UNCHANGED <<kind, attempt, receipt, transition, sweep, finals, replies,
                   node, final>>

\* Where Transit of a message of type t begins.
EntryOf(t) ==
    CASE t = "Created" -> IF EstimatesGas THEN "estimate" ELSE "submit"
      [] t = "Pending" -> "poll"
      [] OTHER         -> "execute"

\* Run takes a message from the transition channel and starts its goroutine.
Dispatch ==
    /\ transition # << >>
    /\ LET m == Head(transition)
       IN  place' = [place EXCEPT ![m] = EntryOf(kind[m])]
    /\ transition' = Tail(transition)
    /\ UNCHANGED <<kind, attempt, receipt, waitings, sweep, finals, replies, node,
                   final>>

-----------------------------------------------------------------------------
(* Transit of a Created message.                                           *)

InTransit == UNCHANGED <<transition, waitings, sweep, finals, replies, chain,
                         final>>

\* Transit returns: a message of type t is sent on, the loop counter is gone.
Leave(m, t) ==
    /\ Become(m, t, "send")
    /\ attempt' = [attempt EXCEPT ![m] = 0]
    /\ InTransit

\* A failed gas estimate: retried, or the message is dropped.
EstimateFails(m) ==
    /\ place[m] = "estimate"
    /\ \/ /\ attempt[m] >= GasRetries
          /\ Leave(m, "Dropped")
       \/ /\ attempt[m] < GasRetries
          /\ attempt' = [attempt EXCEPT ![m] = @ + 1]
          /\ UNCHANGED <<kind, place>>
          /\ InTransit
    /\ UNCHANGED <<receipt, sent>>

Estimate(m) ==
    /\ place[m] = "estimate"
    /\ place' = [place EXCEPT ![m] = "submit"]
    /\ attempt' = [attempt EXCEPT ![m] = 0]
    /\ UNCHANGED <<kind, receipt, sent>>
    /\ InTransit

Submit(m) ==
    /\ place[m] = "submit"
    /\ sent' = sent \cup {m}
    /\ Leave(m, "Pending")
    /\ UNCHANGED receipt

\* HandleRelayMessage returns an error.  The node may have accepted the
\* transaction all the same (an answer lost on the way).
SubmitFails(m) ==
    /\ place[m] = "submit"
    /\ sent' \in {sent, sent \cup {m}}
    /\ Leave(m, "Dropped")
    /\ UNCHANGED receipt

-----------------------------------------------------------------------------
(* Transit of a Pending message: the poll loop, then the receipt.          *)

Polling(m) == place[m] = "poll" /\ attempt[m] < PollLimit

\* The poll loop ends without a result for the link.
QueryReceipt(m) ==
    /\ place' = [place EXCEPT ![m] = "receipt"]
    /\ attempt' = [attempt EXCEPT ![m] = 0]
    /\ UNCHANGED kind
    /\ InTransit

\* TransactionByHash: the transaction is in the pool.
PollPending(m) ==
    /\ Polling(m)
    /\ m \in sent
    /\ InclusionHeights(m) = {}
    /\ attempt' = [attempt EXCEPT ![m] = @ + 1]
    /\ UNCHANGED <<kind, place, receipt, sent>>
    /\ InTransit

\* TransactionByHash: the transaction is in a block.
PollMined(m) ==
    /\ Polling(m)
    /\ InclusionHeights(m) # {}
    /\ QueryReceipt(m)
    /\ UNCHANGED <<receipt, sent>>

\* TransactionByHash: not found (lost by the pool, or by a node that lags).
\* The client reports pending = false with the error, so `continue' ends the
\* loop and the receipt is queried at once.
PollNotFound(m) ==
    /\ Polling(m)
    /\ IF attempt[m] < NotFoundLimit THEN QueryReceipt(m)
                                     ELSE Leave(m, "Dropped")
    /\ UNCHANGED <<receipt, sent>>

PollFails(m) ==
    /\ Polling(m)
    /\ Leave(m, "Faulted")
    /\ UNCHANGED <<receipt, sent>>

\* Still in the pool after the last poll.
PollTimeout(m) ==
    /\ place[m] = "poll"
    /\ attempt[m] >= PollLimit
    /\ Leave(m, "Faulted")
    /\ UNCHANGED <<receipt, sent>>

\* The receipt of m in the canonical block of height n.
ReceiptAt(m, n) ==
    [hash |-> AncestorAt(chain, n), ok |-> m \in chain[n].ok]

ReceiptFound(m) ==
    /\ place[m] = "receipt"
    /\ \E n \in InclusionHeights(m) :
          receipt' = [receipt EXCEPT ![m] = ReceiptAt(m, n)]
    /\ Leave(m, "Executing")
    /\ UNCHANGED sent

ReceiptFails(m) ==
    /\ place[m] = "receipt"
    /\ Leave(m, "Faulted")
    /\ UNCHANGED <<receipt, sent>>

-----------------------------------------------------------------------------
(* Transit of an Executing message.                                        *)

\* The receipt tells success, or the call repeated on the block fails again
\* and its error is the result.
Execute(m) ==
    /\ place[m] = "execute"
    /\ Leave(m, "Executed")
    /\ UNCHANGED <<receipt, sent>>

\* A failed execution whose sender cannot be recovered or whose call does not
\* fail when it is repeated.
ExecuteFails(m) ==
    /\ place[m] = "execute"
    /\ ~receipt[m].ok
    /\ Leave(m, "Faulted")
    /\ UNCHANGED <<receipt, sent>>

-----------------------------------------------------------------------------
(* The goroutine of a finality: one pass over waitings under mu.           *)

Sweeping == UNCHANGED <<attempt, receipt, transition, node, final>>

SweepBegin ==
    /\ ~sweep.on
    /\ \E f \in finals :
          /\ sweep' = [on |-> TRUE, final |-> f, i |-> 1, k |-> 0]
          /\ finals' = finals \ {f}
    /\ UNCHANGED <<kind, place, waitings, replies>>
    /\ Sweeping

\* The pass goes on to the next slot; k slots are kept so far.
Visited(k) ==
    sweep' = [on |-> TRUE, final |-> sweep.final, i |-> sweep.i + 1, k |-> k]

\* Faulty: the hash of the block is not compared.
TryFinalizeByNumber(f, m) ==
    IF Number(receipt[m].hash) > Number(f) THEN "Executed" ELSE "Finalized"

\* Faulty: the walk down to the message's height is missing.
TryFinalizeNoWalk(f, m) ==
    LET hash == receipt[m].hash
    IN  IF Number(hash) > Number(f) THEN "Executed"
        ELSE IF hash # f THEN "Dropped"
        ELSE "Finalized"

\* Faulty: a message in the finalized block itself is kept waiting.
TryFinalizeOffByOne(f, m) ==
    LET hash == receipt[m].hash
    IN  IF Number(hash) >= Number(f) THEN "Executed"
        ELSE IF hash # AncestorAt(f, Number(hash)) THEN "Dropped"
        ELSE "Finalized"

\* The type of message tryFinalizeInLock turns a waiting m into.
TryFinalize(f, m) ==
    LET hash == receipt[m].hash
    IN  IF Number(hash) > Number(f) THEN "Executed"
        ELSE IF hash # AncestorAt(f, Number(hash)) THEN "Dropped"
        ELSE "Finalized"

\* A waiting message above the finality is kept: moved to slot k.
SweepKeep ==
    /\ sweep.on
    /\ sweep.i <= Len(waitings)
    /\ TryFinalize(sweep.final, waitings[sweep.i]) = "Executed"
    /\ waitings' = [waitings EXCEPT ![sweep.k + 1] = waitings[sweep.i]]
    /\ Visited(sweep.k + 1)
    /\ UNCHANGED <<kind, place, finals, replies>>
    /\ Sweeping

\* The others are settled: the link is told and the message is forgotten.
SweepSettle ==
    /\ sweep.on
    /\ sweep.i <= Len(waitings)
    /\ LET m == waitings[sweep.i]
           t == TryFinalize(sweep.final, m)
       IN  /\ t # "Executed"
           /\ Become(m, t, "done")
           /\ replies' = [replies EXCEPT ![m] = Append(@, t)]
    /\ Visited(sweep.k)
    /\ UNCHANGED <<waitings, finals>>
    /\ Sweeping

\* Faulty: the slice is not cut to what was kept.
SweepEndUncut ==
    /\ sweep.on
    /\ sweep.i > Len(waitings)
    /\ sweep' = Idle
    /\ UNCHANGED <<kind, place, finals, replies, waitings>>
    /\ Sweeping

SweepEnd ==
    /\ sweep.on
    /\ sweep.i > Len(waitings)
    /\ waitings' = SubSeq(waitings, 1, sweep.k)
    /\ sweep' = Idle
    /\ UNCHANGED <<kind, place, finals, replies>>
    /\ Sweeping

-----------------------------------------------------------------------------
(* The node, and the finalities the sender derives from its headers.       *)

NodeOnly == UNCHANGED <<progress, transition, waitings, sweep, finals,
                        replies, final>>

Unmined == {m \in sent : InclusionHeights(m) = {}}

\* A block includes any accepted transactions that its branch lacks.  The
\* pool may forget one: it is then never included.
Mine ==
    /\ Len(chain) < MaxHeight
    /\ \E fork \in Forks, ok \in SUBSET Unmined :
       \E reverted \in SUBSET (Unmined \ ok) :
          chain' = Append(chain,
                      [fork |-> fork, ok |-> ok, reverted |-> reverted])
    /\ UNCHANGED sent
    /\ NodeOnly

\* The head above the finalized block is abandoned.
Reorg ==
    /\ \E n \in Len(final) .. Len(chain) - 1 : chain' = AncestorAt(chain, n)
    /\ UNCHANGED sent
    /\ NodeOnly

\* sender: NotifyFinality, received by Run, which starts a goroutine.
NotifyFinality ==
    /\ \E n \in Len(final) + 1 .. Len(chain) :
          /\ final' = AncestorAt(chain, n)
          /\ finals' = finals \cup {final'}
    /\ UNCHANGED <<progress, transition, waitings, sweep, replies, node>>

\* tryFinalizeInLock cannot get a snapshot: the process panics.
Panic ==
    /\ sweep.on
    /\ sweep.i <= Len(waitings)
    /\ alive' = FALSE
    /\ UNCHANGED <<progress, transition, waitings, sweep, finals, replies,
                   node, final>>

-----------------------------------------------------------------------------

Transit(m) ==
    \/ EstimateFails(m) \/ Estimate(m) \/ Submit(m) \/ SubmitFails(m)
    \/ PollPending(m) \/ PollMined(m) \/ PollNotFound(m) \/ PollFails(m)
    \/ PollTimeout(m) \/ ReceiptFound(m) \/ ReceiptFails(m)
    \/ Execute(m) \/ ExecuteFails(m)

Send(m) == Enqueue(m) \/ Reply(m) \/ AddWaiting(m)

Sweep == SweepBegin \/ SweepKeep \/ SweepSettle \/ SweepEnd

Node == Mine \/ Reorg

Run == Dispatch \/ Sweep \/ NotifyFinality

Next ==
    /\ alive
    /\ \/ /\ \/ \E m \in Messages : Relay(m) \/ Send(m) \/ Transit(m)
             \/ Run
             \/ Node
          /\ UNCHANGED alive
       \/ Panic

Running(A) == alive /\ A /\ UNCHANGED alive

\* Goroutines are scheduled, every RPC returns and the link reads replies.
\* Nothing is assumed of the node and of finality.
Fairness ==
    /\ \A m \in Messages : /\ WF_vars(Running(Enqueue(m)))
                           /\ WF_vars(Running(Reply(m)))
                           /\ WF_vars(Running(AddWaiting(m)))
                           /\ WF_vars(Running(Transit(m)))
    /\ WF_vars(Running(Dispatch))
    /\ WF_vars(Running(Sweep))

Safe == Init /\ [][Next]_vars
Spec == Safe /\ Fairness

-----------------------------------------------------------------------------
(* Properties.                                                             *)

\* The variables have the types the transactor declares for them; the channel
\* stays within its capacity.
TypeOK ==
    /\ kind \in [Messages -> Kinds]
    /\ place \in [Messages -> Places]
    /\ attempt \in [Messages -> Nat]
    /\ receipt \in [Messages -> [hash : Seq(Bodies), ok : BOOLEAN]]
    /\ transition \in Seq(Messages)
    /\ Len(transition) <= Capacity
    /\ waitings \in Seq(Messages)
    /\ sweep \in [on : BOOLEAN, final : Seq(Bodies), i : Nat \ {0}, k : Nat]
    /\ finals \subseteq Seq(Bodies)
    /\ replies \in [Messages -> Seq(Settled)]
    /\ alive \in BOOLEAN
    /\ sent \subseteq Messages
    /\ chain \in Seq(Bodies)
    /\ final \in Seq(Bodies)

Told(m, t) == \E i \in 1 .. Len(replies[m]) : replies[m][i] = t

\* A message the link was told is finalized was executed with success in a
\* block of the finalized chain, whatever reorganisations came between its
\* receipt and the finality (tryFinalizeInLock).
FinalizedIsFinal ==
    \A m \in Messages :
        Told(m, "Finalized") =>
            /\ receipt[m].ok
            /\ IsAncestor(receipt[m].hash, final)
            /\ m \in chain[Number(receipt[m].hash)].ok

\* A message dropped after its execution was told had its block replaced on
\* the finalized chain: no late or out of order finality goroutine may drop a
\* message whose block can still be finalized.
DroppedIsOrphaned ==
    \A m \in Messages :
        Told(m, "Executed") /\ Told(m, "Dropped") =>
            /\ Number(receipt[m].hash) <= Number(final)
            /\ ~IsAncestor(receipt[m].hash, final)

\* The slots of waitings that still count: the kept prefix and what the pass
\* has not visited.
LiveSlots ==
    IF sweep.on THEN (1 .. sweep.k) \cup (sweep.i .. Len(waitings))
    ELSE 1 .. Len(waitings)

\* The in-place compaction of waitings neither loses nor doubles a message,
\* with appends and passes of several finalities in any order.
WaitingsIntact ==
    /\ \A a, b \in LiveSlots : waitings[a] = waitings[b] => a = b
    /\ {waitings[a] : a \in LiveSlots} =
           {m \in Messages : place[m] = "waiting"}

\* A relayed message is answered: the link never waits forever for a message
\* it handed over, while the process lives.
Answered ==
    \A m \in Messages :
        place[m] = "send" ~> (replies[m] # << >> \/ ~alive)

\* A waiting message is settled once a finality at or above its block is
\* still to be processed.
SettledByFinality ==
    \A m \in Messages :
        (/\ place[m] = "waiting"
         /\ \E f \in finals : Number(f) >= Number(receipt[m].hash))
            ~> (place[m] = "done" \/ ~alive)

\* "retry to query not found transaction" (transactor.go:299): a transaction
\* not found in the first polls is queried again.
NotFoundIsRetried ==
    [][\A m \in Messages :
          PollNotFound(m) /\ attempt[m] < NotFoundLimit => place'[m] = "poll"]_vars

-----------------------------------------------------------------------------
(* The promise to the link, refined.                                       *)

StatusOf(m) ==
    IF place[m] = "outside"         THEN "unknown"
    ELSE IF Told(m, "Finalized")    THEN "finalized"
    ELSE IF Told(m, "Faulted")      THEN "faulted"
    ELSE IF Told(m, "Dropped")      THEN IF Told(m, "Executed") THEN "orphaned" ELSE "dropped"
    ELSE IF ~Told(m, "Executed")    THEN "accepted"
    ELSE IF receipt[m].ok           THEN "executed" ELSE "reverted"

Lifecycle == INSTANCE RelayLifecycle WITH
    status <- [m \in Messages |-> StatusOf(m)],
    at     <- [m \in Messages |->
                 IF Told(m, "Executed") THEN receipt[m].hash ELSE Genesis],
    final  <- final

KeepsPromise == Lifecycle!Spec
=============================================================================
