# BTP2-BSC: a verification development

`icon-project/btp2-bsc` (package `src/chain/bsc2`) is the BSC side of a BTP 2.0
relay. For one direction it is a *receiver*: it follows the headers of a BSC
node, decides which blocks are final from the votes that validators put in them
(fast finality), collects the BTP messages of final blocks, and builds the block
updates and message proofs that a verifier contract (the BMC/BMV) on the other
chain accepts. For the other direction it is a *sender*: it submits relay
messages to the BMC contract on BSC, follows each transaction until its block is
final, and reports every change to the link engine (`btp2`, external) that
drives both.

This directory has TLA+ models of it, the TLC configurations that check them,
and proofs for TLAPS. `PROJECT.json` maps every definition to source lines, and
lists the runs, the mutants (a plausible bug for every property, and the run
that catches it), the hazards and the findings.

## 1. Inventory

All paths are under `src/chain/bsc2/`.

| Component | State | Operations | What is hard |
|---|---|---|---|
| **Message transactor** (`transactor.go`) | channels `transition` (128), `finalities`, `replies`; slice `waitings` under `mu`; a message object whose type is its state | `Busy`, `Send`, `Run`, `NotifyFinality`, `Transit` of each type, `tryFinalizeInLock` | one goroutine per message and per finality, no order between them; reorganisations between receipt and finality; failed and late RPC answers; compaction of a slice in place |
| **Sender** (`sender.go`) | the transactor, a snapshot service, the callback channel | `Start` and its header loop, `Relay`, `GetStatus`, `prepare` | the loop that feeds finalities may die silently |
| **Receiver** (`receiver.go`) | `local` (hash, sequence, cache), `peer` (BMC status), caches `heads` and `msgs`, `cond`, accumulator | `Start`, `loop`, `FinalizedStatus`, `BuildBlockUpdate`, `BuildMessageProof`, `BuildBlockProof`, `GetStatus`, `GetHeightForSeq` | four threads, several fields written without the mutex; a window of 1024 blocks; restart from the contract's status |
| **Finality calculator** (`calculator.go`) | checkpoint, fed snapshots | `feed`, `calculate` | votes may be missing, several blocks become final at once |
| **Block tree** (`status.go`) | root, parent-to-children map | `Add`, `Prune`, branch selection, RLP | must mirror what the contract does, or relay messages are refused |
| **Snapshots** (`snapshot.go`, `snapshots.go`) | validators, recent signers, attestation; LRU + database + walk over the network | `apply`, `updateAttestation`, `ensure`, `get`, `add`, `BootSnapshot` | epochs, checkpoints, two threads walking the same gap |
| **Client** (`client.go`) | retrying transport, header producer | `WatchHeader`, `MessagesByBlockHash`, `MessageBySequence`, `MessagesAfterSequence` | the retries of the producer and of the transport, windows of the log search that share their end blocks |
| **Subscription** (`subscription.go`) | `err`, `unsub`, `mu`, `unsubed` | producer, `Unsubscribe`, `Err` | a send of an error while the mutex is held |
| **Merkle accumulator** (`receiver.go: syncAcc`) | offset, leaves, the flushed leaves in the database | `prepare`, `syncAcc`, `BuildBlockProof` | called on three threads without a lock; leaves that were added and not flushed |
| **Coding, errors, factory, bindings** (`types.go`, `errors.go`, `bsc2factory.go`, `bmc.go`) | none of their own | RLP, `recoverable`, construction, ABI | - |
| **Link engine** (`btp2`, external) | its own view of statuses | calls `Relay`, `Build*`, `FinalizedStatus` | any legal order of calls |
| **Demo dApps, scripts** (`e2edemo`, `docker`) | rollback data of a call | - | - |

Interactions. `WatchHeader` -> (unbuffered `headCh`) -> receiver loop ->
(unbuffered channel of receive statuses) -> link -> `Build*` -> relay messages ->
other chain -> `FinalizedStatus` -> `purgeAndWakeup` -> `cond` -> receiver loop.
The link -> `Relay` -> `Send` -> `transition` -> `Run` -> goroutines ->
`replies` -> link; the sender's header loop -> calculator -> `NotifyFinality` ->
`finalities` -> `Run` -> goroutine -> `waitings`.

What makes each component correct:

* transactor: one answer after the other in a fixed order, nothing called
  finalized that is not on the final chain, nothing dropped that may still be
  finalized, no waiting message lost or doubled, every message answered;
* receiver: what it builds for the contract is on the final chain, consistent
  with what the contract computes (height, tree), complete (no message skipped)
  and never ahead of the contract's finality; a settled message is delivered;
* calculator and tree: the two ways of counting finality agree;
* subscription, client: a producer whose consumer has left ends, and an error
  reaches the consumer;
* snapshots: a snapshot can be had of every block asked for, from cache, database
  or network, and no checkpoint is skipped, whichever thread made it;
* accumulator: its leaves are those of the contract, so that the contract can
  verify the proofs taken from it.

## 2. Modules

| Module | Models |
|---|---|
| `Blocks` | Blocks. A block *is* the sequence of the bodies of its ancestors and itself, so a hash identifies a block, a parent is a prefix, and `IsAncestor` is prefix order. |
| `Finality` | `updateAttestation`, and `feed`/`calculate` of the calculator. |
| `BlockTree` | `BlockTree`: `Add`, `Prune`, tips and branches, and the coding of a tree. |
| `Transactor` | `transactor.go`, `sender.Relay`, the finalities given by the sender, and the BSC node as environment. |
| `RelayLifecycle` | Abstract: what the link may be told of a relay message, and when. |
| `Receiver` | The receiver's loop, caches and builders, the header watcher, the link, the two chains. |
| `Subscription` | `subscription.go` and the producer that `WatchHeader` gives it. |
| `Sender` | The sender's `prepare`, `Start` and `watchBlockFinalities`. |
| `Snapshot` | Validators, candidates, recent signers and turns of a snapshot: `apply` and `BootSnapshot`. |
| `SnapshotStore` | `snapshots.go`: cache, database and network, under the receiver's loop and the link. |
| `MessageSearch` | The windows of `MessagesAfterSequence` and `MessageBySequence`, as operators. |
| `BlockProof` | The accumulator: `prepare`, `syncAcc` and its three callers, `BuildBlockProof`, `GetHeightForSeq`, the missing messages of `Start`. |
| `BlocksProofs` | Lemmas on blocks and histories, and induction over the naturals as lemmas on sets. |
| `BranchProofs` | Lemmas on the calculator, the tree and the attestations of a branch, shared by receiver and sender. |
| `TransactorProofs` | The theorems on the transactor, and that it implements `RelayLifecycle`. |
| `ReceiverProofs`, `SenderProofs` | The theorems on the receiver and on the sender's loop. |
| `SnapshotProofs` | The theorems on validators, recent signers and boots. |
| `SnapshotStoreProofs` | The theorems on cache, database and checkpoints. |
| `BlockProofProofs` | The theorems on the accumulator, the block proofs and the search for messages. |
| `MCTransactor`, `MCReceiver`, `MCSender`, `MCSnapshot`, `MCSnapshotStore`, `MCBlockProof` | What TLC needs: symmetry, sets of validators, and a root module for the configurations. |

`Receiver` composes `Finality` and `BlockTree`, both over `Blocks`; `Sender`
composes `Finality` and `Subscription`; `BlockProof` uses `MessageSearch`.
`Transactor` instantiates
`RelayLifecycle`. `Transactor` assumes that the finalities it is given ascend
along the final chain; `FinalitiesAscend` of `Sender` is that assumption, checked
against the loop that gives them.

### Transactor and the code

A message object of the code is replaced by another at every transition
(`CreatedMessage` -> `PendingMessage` ...). `kind[m]` is the type of the current
object of message `m`, `place[m]` where it is: in `Send` before a channel
operation (`send`), in the channel (`queue`), in one of the stages of its
`Transit` goroutine (`estimate`, `submit`, `poll`, `receipt`, `execute`), in
`Send` before the lock (`lock`), or in `waitings`. Every RPC, channel operation
and lock is a step of its own; every RPC may fail where the code handles an error.

| Action | Code |
|---|---|
| `Relay`, `Busy` | `sender.Relay`; `Busy` is read without a lock and outside `Send` |
| `Enqueue`, `Reply`, `AddWaiting` | the branches of `Send` |
| `Dispatch`, `NotifyFinality`, `SweepBegin` | the `select` of `Run` and the goroutines it starts; pending finality goroutines are a *set*, taken in any order, since the scheduler keeps none |
| `SweepKeep`, `SweepSettle`, `SweepEnd` | the compaction loop under `mu`, one message per step: `waitings[:k]` is overwritten while the rest is still read |
| `TryFinalize` | `tryFinalizeInLock`: height test, walk over parents, comparison of hashes |
| `Estimate*`, `Submit*` | `Transit` of a Created message, with gas estimation and its retries |
| `Poll*`, `Receipt*`, `Execute*` | `Transit` of Pending and Executing messages |
| `Panic` | the `panic` when no snapshot can be had: the process is gone |
| `Mine`, `Reorg` | the node: transactions are included, reverted or forgotten; the chain above the last finality may be replaced |

### Receiver and the code

A block body has the *attestation* of the snapshot after the block (source and
target heights of the last vote), the sequence of the last BTP message up to the
block, and a label that tells rival forks apart. `loop.pc` is where the loop is:
waiting for a head (`recv`), in `waitIfFullBuf` (`full`), about to apply
(`apply`), walking back through the messages of the newly final blocks
(`query`), or sending to the link (`notify`).

| Action | Code |
|---|---|
| `Mine`, `Reorg` | the node; two consecutive justified blocks make the first final |
| `Fetch` | `WatchHeader`: one header in hand, the next wanted |
| `Receive`, `Resume` | the loop takes a head; `waitIfFullBuf` waits **once** |
| `Inconsistent`, `QueryFails` | `recoverable` errors: the loop is entered again from the finalized block of `peer` |
| `Apply` | `applyAndCache`, `feed`, `local.cache`, and the choice of the block whose messages are fetched |
| `QueryBlock`, `UpdateStatus`, `Notify` | `queryAndCacheMessages` (newest to oldest), `updateStatus`, the send of the receive status |
| `FinalizedStatus` | `purgeAndWakeup`: removes what the contract has, and wakes the loop |
| `BuildBegin`, `BuildHead`, `BuildEnd` | `BuildBlockUpdate`, one header per step, interleaved with the loop that writes the caches |
| `BuildMessageProof` | `BuildMessageProof` |
| `BuildFails` | the query for the messages of a finalized block fails: the update is given up |
| `Drop`, `Restart` | a relay message dropped on the other chain; the process ends and starts on a status that the contract has reached meanwhile (`Start`) |

`MessagesByBlockHash` is given a hash and asks the node for the messages of that
*number*: `CanonicalAt` is the block which the node has there at that moment.
`MessagesAreFinal` says that what is cached is a message of the finalized chain all
the same, since the walk never leaves final blocks (`FinalIsCanonical` in the proofs).

The caches are `golang-lru` ARC caches: `Put` keeps the entry just added and
evicts any other, which includes every choice ARC can make. The receiver's
header watcher is a single `Fetch` here; its goroutine, with the error channel
and the mutex, is in `Subscription`.

Between two block updates the link keeps the verifier status encoded
(`UpdateBMCLinkStatus`, then `newStatus` for the next update), so `BuildEnd` goes
through `Encode` and `Decode` of `BlockTree`. `EncodeRLP` writes the nodes level
by level, each with the number of its children, and `DecodeRLP` stops when every
announced child is read; a wrong count, or a node left over from a prune, would
change the tree, which `TreeIsBranch` sees.

### Sender, Subscription and the code

A subscription is one goroutine, a record whose `pc` is where it is: at the
`select` on `quit` (`test`), in `HeaderByNumber` (`query`), sending a header
(`hand`), with an error and before `mu` (`fail`), sending the error under `mu`
(`report`), `ended`. `sub` is the goroutine of the subscription in use, `strays`
those of subscriptions that the loop has left: a set, since two that are alike
have the same future and the properties do not count them. `loop` is
`watchBlockFinalities` with its local variables, `finality` is `o.finality`,
`notified` what the transactor was given.

| Action | Code |
|---|---|
| `Mine`, `Reorg` | the node, as for the receiver |
| `Watch`, `WatchStray`, `WatchFails` | the goroutine of `NewSubscription` running `WatchHeader`, in use or left behind; a query that fails |
| `Latest`, `Prepare` | `prepare`: the number of the latest header, then, after whatever the node did in between, the block of that epoch's first number. A header without a vote makes `BootSnapshot` use a nil attestation: the process panics |
| `Receive`, `WatcherError` | the two branches of the `select` |
| `Apply`, `NotifyFinality` | `snap.apply`, `snapshots.add`, `calc.feed`, `snapshots.get`; `NotifyFinality` and `o.finality` |
| `ApplyFails` | `ErrInconsistentBlock`, or any other error of these calls |
| `Recover`, `GiveUp` | `Unsubscribe` (which needs `mu`), and either the loop again from `o.finality` or its end |

### Snapshot and the code

`full` is the snapshot of a node that has applied every block since genesis: it
decides which validator may seal, so the chain is any that the rules allow.
`booted` is the relay's snapshot, made by `BootSnapshot` from the headers of an
epoch block, the epoch block before and the last sealers, and carried on by
`apply`. `Seal` is `apply` of one header to both; `Boot` is a start of the relay.
`ConstantsAssumption` says what the real constants satisfy by far (21 validators,
epochs of 200): a change of validators is over, and the sealers that a boot reads
come after it, before the next epoch block. Attestations are in `Finality`.

### SnapshotStore and the code

A snapshot is named by its block; what is in it is the subject of `Snapshot` and
`Finality`. `call[t]` is the call of a thread, the receiver's loop or the link:
its kind, the block asked for (`id`), the block that the walk has come to
(`cur`), and the next access (`pc`). Each access to cache, database or node is a
step, since `Snapshots` has no lock.

| Action | Code |
|---|---|
| `Lookup`, `Load` | `get`: cache, then database (what is found there is not cached) |
| `Ensure`, `Contains`, `Take`, `Consult`, `Fetch` | `ensure`: the walk back to a block whose snapshot is known; `Take` is the type assertion on what `Contains` saw a moment ago |
| `Apply`, `Store`, `Applied` | `ensure`'s second loop with `add`; also the `add` of `applyAndCache` |
| `Result` | `get` looks into the cache for what `ensure` made |
| `Follow`, `Get` | the callers: the loop goes on from its last snapshot, or begins again at the finalized block when the head is on another branch; finality calculator, message walk and `BuildBlockUpdate` ask for blocks between that root and the last head. The link asks for the root only: its further calls (`selectFork`, `feed`) are walks of the same kind as the loop's |
| `Fails`, `Panic`, `Crash`, `Restart` | errors and what the callers make of them; only the database outlives the process |

### BlockProof and the code

All of it is about the finalized chain, so a block is its number, and so is the
leaf made of its hash. `acc` is the accumulator in memory, `disk` what was flushed
and whether the boot snapshot is stored; `sync[t]` is the call of `syncAcc` by
thread `t` (`start`, `status`, `link`); `main` is where `Start` is, and `link` the
proof that the link is after.

| Action | Code |
|---|---|
| `Prepare`, `Boot` | `prepare`: the first leaf, flushed; then the boot snapshot |
| `Synchronize`, `FetchMissing`, `Enter` | `synchronize`, the search for missing messages, the start of the loop |
| `SyncBegin`, `SyncAdd`, `SyncFlush`, `SyncFails` | `syncAcc`: the height is read once, then one header per step, then the flush; what was added before a failure stays in memory. Nothing keeps the calls of two threads apart |
| `FinalizedStatus` | the goroutine; the status is handled also when `syncAcc` failed |
| `Advance` | the loop, as far as the search needs it (local number, cached messages) |
| `Ask`, `GetHeightForSeq`, `QueryFails` | the link asks for the block of the next message: cache, or one query |
| `BuildBlockProof`, `Witness`, `Relay` | `BuildBlockProof`: `syncAcc`, `WitnessForAt` at the block of the contract, the header |
| `Crash`, `Restart` | `Recover` reads what was flushed; `Start` on the status of the contract |

Calls of `syncAcc` overlap as they do in the code. The history variable `raced`
records whether two of them ever had headers to add at the same time; no guard
reads it. `ProofVerifies` is what a block proof should be and finding 4 refutes;
`ProofsVerify` says that only such a race makes one that does not verify, so that
calls which overlap with nothing to add, fail, or are cut short by a crash are
all covered by it. The local status moves block by block in `Advance`
and names its last message; `updateStatus` may move over several and name the oldest block's
message, which no property here depends on. `StartFails` stands for every panic of
`Start`; that of `BootSnapshot` without an attestation is in `Sender`.

## 3. Runs

| Run | Instance | Shows |
|---|---|---|
| `transactor_sweep` | 2 messages, height 2, channel of 1; no retries; symmetry | `TypeOK`, `FinalizedIsFinal`, `DroppedIsOrphaned`, `WaitingsIntact`, with finality goroutines in every order and reorganisations between receipt and finality |
| `transactor_live` | 2 messages, height 1, gas estimates with a retry, two polls | `KeepsPromise` (refinement of `RelayLifecycle`), `Answered`, `SettledByFinality` |
| `transactor_not_found_is_retried` | 1 message | *violation*, see finding 1 |
| `receiver_safety` | caches of 6, height 6, 1 message, 2 relay messages under way, 1 reorganisation, 2 silent blocks, 1 fault | what is built for the contract is final (`CacheIsFinal`, `ProofsAreFinal`, `MessagesAreFinal`), consistent (`HeightIsRoot`, `TreeIsBranch`, `NeverPanics`) and complete (`MessagesAreKept`) |
| `receiver_live` | caches of 5, height 6, 1 message, 1 reorganisation, 1 fault, 2 relay messages under way | `Delivered`: a settled message reaches the contract, also through a full cache, and while the loop waits for room the builder does not panic (`NeverPanics`) and no purge takes a message that may have to be proved again (`MessagesAreKept`) |
| `receiver_full_cache` | caches of 5, height 8, 2 messages, no fault | *violation* of `Delivered`, see finding 2 |
| `sender_finalities` | epochs of 2, height 6, 1 reorganisation, 2 silent blocks, 1 fault | the transactor is given final blocks, each once and in order (`FinalitiesAscend`); goroutines left behind stop polling (`StraysStop`); finalities arrive unless the loop has ended or is in the deadlock of finding 3 (`FinalitiesFollow`) |
| `sender_unsubscribe` | epochs of 2, height 6, 1 reorganisation, 1 fault | *violation*, see finding 3 |
| `snapshot_boot` | 4 validators, sets of 2 and of 4, turns of 1 and 2, epochs of 8, Bohr at 12, height 30; symmetry | a booted snapshot accepts every block the chain has (`BootAccepts`), knows the same validators and turns (`BootAgrees`) and comes to judge sealers as the full one does (`BootCatchesUp`); no change of validators locks all of them out (`SomeoneMaySeal`) |
| `snapshot_store` | cache of 2, checkpoints every 2 blocks, height 3, 1 reorganisation, 1 fault or crash | no checkpoint is skipped below any snapshot in use or stored, whoever made it and whatever was evicted or lost (`CheckpointsKept`); the loop reaches the head (`CatchesUp`); the unchecked second look into the cache panics only when the cache is full (`PanicNeedsFullCache`) |
| `block_proof` | blocks 2 to 4, windows of 2, 2 messages, cache of 1, 1 fault; calls of `syncAcc` in any interleaving | leaves are those of the contract unless two calls had headers to add at once, and what is flushed is a beginning of them (`AccumulatorIsChain`); the leaves reach the peer's block, and the block of the link's proof even after a failure (`CoversPeer`); only such a race makes a proof that does not verify (`ProofsVerify`); `Start` restores the missing messages across windows (`MissingRestored`), a message is not found only beyond one window (`HeightFound`), the link gets its answer (`LinkAnswered`) |
| `accumulator_race` | blocks 2 to 4, one window, 2 messages, cache of 1, 1 fault | *violation* of `ProofVerifies`, see finding 4 |

### Bounds

Transactor. `MaxHeight` 2 with one fork label and any subset of transactions in
a block gives rival blocks at both heights (bodies differ by what they include),
receipts above, at and below a finality, and two finality goroutines pending at
once. `Capacity` 1 makes the channel full with two messages, so `Send` blocks and
`Busy` refuses. `GasRetries`, `PollLimit`, `NotFoundLimit` (10, 10, 5 in the code)
are 0 to 2: each branch around a limit is taken; what a larger number adds is
more steps that change only the counter. Safety and refinement are proved (section 5)
without these bounds. For liveness two messages, which compete for the channel, leave
room for one block: the finality that settles is then the message's own block.
`SettledByFinality` also passes with one message and three blocks, where it is one
or two blocks above.

Receiver. Blocks become final two above themselves when each has a vote, and the
messages taken are those below the *source* of the attestation of the final
block, so a message needs a head of at least height 5; block 1 has never a vote
that changes anything (a vote for genesis). `MaxSilent` bounds the blocks of a chain
without a (new) vote: 2 is needed for a finality to jump over several blocks,
which tells `HeightIsRoot` from a count of updates. `CacheSize` (1024) must
exceed the finality lag plus `FeedLimit` (50 heads without notification), as it
does in the code by far: 5 or 6 against `FeedLimit` 1 keeps that relation and
lets the window of 5 fill within the height bound (6); a finality that jumps and is
carried by a block update needs the window of 6. Safety is proved for any.
`MaxInFlight` bounds relay messages that the link has sent and that are not final on
the other chain: 2, so that one is built on another under way. `MaxFaults` bounds
failed queries, dropped relay messages and restarts together.

Sender. The first block that can be a start is the epoch block 2, the first with
a vote that says something; height 6 leaves room for two notifications and for a
re-entry between them, `MaxSilent` 2 for a finality that jumps. One
reorganisation makes the loop inconsistent; one fault is what the deadlock and
each end of the loop need. `Outgrown` in `FinalitiesFollow` is not a bound on the
code but on what it can know: the watcher asks for the next number, so a rival
branch is not noticed before it has a block of that number.

Snapshot. Blocks 8, 16 and 24 are epoch blocks. A set announced at 8 comes into
force at block 9 or 10, before Bohr (12), so a change from four validators to two
and from two to four happens under the old rule; turns are announced at 16 and 24.
Those of 16 are in force at 17 or 18, so sets change, and turns of 1 become turns
of 2, under the new rule; those of 24 are in force at 29 at the latest, so that
turns of 2 change too. The relay boots at 8, 16 and 24, and `MaxHeight` 30 is past
the change that follows the last boot. Longer turns would only lengthen epochs.

Snapshot store. A cache of 2 is smaller than a walk from a checkpoint to the head
and back, so what one thread needs the other evicts; `Checkpoint` 2 and height 3
put a checkpoint (2) between the boot block and the head and a block above it. With
height 4, and two checkpoints on a branch, the instance has 8.7 million states and
passes as well, without liveness; that a checkpoint overtakes another is otherwise covered
by the theorem `CheckpointSafety`.
One reorganisation makes the loop begin again at the finalized block, one fault
is a failed query, a failed store or a crash.

Block proof. Blocks 2 to 4 with windows of two blocks (2049 in the code): a search has
two windows, which share a block, and its first window may miss the message. A cache
of 1 loses one of two messages. One fault is a failed query, a failed flush, or a
crash between any two steps, `AddHash` and `Flush` included. Section 5 proves all
safety properties without these bounds.

Deadlock is not checked: every instance ends when its bounds on blocks and
messages are reached (and a process that panicked has stopped).

### Fairness

Transactor: weak fairness of every goroutine step, per message: goroutines are
scheduled, an RPC returns (an answer or an error), and the link reads
`replies`. Nothing is assumed of the node and of finality: `Answered` holds even
if nothing is ever mined, and `SettledByFinality` starts from a finality already
received. Both allow for a process that has panicked.

Receiver: weak fairness of the watcher, of the loop, of `FinalizedStatus` (the
other chain finalizes what it accepted) and of the link's building. Blocks need
not be sealed and faults need not happen; there is none for `Mine`, `Reorg`,
`Drop`, `Restart` or `QueryFails`. `Delivered` has therefore "stays settled on
the canonical chain" as its premise, read from the chain alone: the receiver
gets no more headers than the chain has.

Sender: weak fairness of the goroutine of the subscription in use, of the set of
those left behind, and of the loop (queries return, and `Run` reads what
`NotifyFinality` sends, which `Transactor` shows of `Run`). None for `Mine`,
`Reorg` and `WatchFails`. `ApplyFails` is in the loop since it includes the
inconsistent block, which is no choice; its other half is bounded by `MaxFaults`.

Snapshot store: weak fairness of each thread's steps (node and database answer,
with an error or not). Strong fairness of `Follow`: between two heads the loop
makes finitely many calls of `get`, though the model may ask any number, so it comes
back to the next head time and again. A restart is not assumed, hence the premise
`<>[]up` of `CatchesUp`.

Block proof: weak fairness of `Start`, of the goroutine of `FinalizedStatus` and of
the link's steps. No call waits for another, so nothing stronger is needed. No
fairness for blocks, the contract, failures and restarts; a crash answers the
link, too.

## 4. Findings

1. **Not found is not retried** (`transactor.go:299-300`). A log line says "retry
   to query not found transaction", but `TransactionByHash` returns `pending =
   false` with `ethereum.NotFound`, so `continue` ends the loop `for pending &&
   ...` and the receipt is queried at once.
2. **A wake-up that makes no room** (`receiver.go:950`). `waitIfFullBuf` waits
   under an `if`; `purgeAndWakeup` also wakes it for a status of the same height
   (after a message proof). The loop adds a head to a full cache, the cache
   evicts the header that the next block update needs, `BuildBlockUpdate` finds
   no header, and no later status wakes the loop. With one message the same
   instance passes.
3. **An error against an unsubscription** (`subscription.go:29`). The producer
   sends its error on an unbuffered channel while it holds `mu`. If the loop is
   at that time busy with a head that does not extend the last one, it calls
   `Unsubscribe`, which waits for `mu`, while the producer waits for the loop to
   read. Neither goes on; an inconsistent block, which is meant to be recovered,
   stops the sender's finalities for good. `receiver.loop` has the same pattern.
4. **Two synchronisations at once** (`receiver.go:712`). `syncAcc` reads the height
   of the accumulator once and then appends header after header, without a lock.
   It is called by the goroutine of `FinalizedStatus` and, on the thread of the
   link, by `BuildBlockProof`. Two calls that overlap append the same headers
   twice. `Flush` stores the doubled leaves and `Recover` reads them back, so
   every later witness is for an accumulator other than the contract's, also
   after a restart. `ProofSafety` shows that nothing else breaks a proof. (The model shows interleaved calls only; two simultaneous
   `AddHash` on unsynchronised memory can do worse.)

### Limits seen while modelling

Not runs of their own, since nothing in the repository says otherwise or because
what they limit is a premise of a property above:

* a message whose execution reverted ends as `Executed`, a way that the comment of
  `Run` (`transactor.go:96-102`) does not list: it is answered once, and neither
  waits nor is dropped;
* `queryAndCacheMessages` walks from the newest block to the oldest and overwrites
  its result (`receiver.go:349`), so the status given to the link names the last
  event of the *oldest* block with messages; a later status makes up for it;
* the block the sender starts from is the nearest epoch block, which need not be
  final (`sender.go:126`): if it is replaced, no header ever extends `o.finality`.
  `FinalitiesFollow` has this as its premise;
* the sender's snapshot store has no database (`sender.go:76`): a snapshot that its
  cache has lost is sought by a walk over the network that ends only where
  headers do; on a failure `tryFinalizeInLock` panics (`Panic` of `Transactor`);
* `snapshots.go:66` and `:92` panic when an entry is evicted between two accesses;
  `PanicNeedsFullCache` shows that nothing less than a full cache (1024) does it;
* `MessageBySequence` takes the empty answer of its first window for the end
  (`client.go:219`): `HeightFound` states what is left of its promise;
* with more messages outstanding than the cache of messages holds (1024), the ones
  evicted may be those that the contract needs next: `BuildMessageProof` finds no
  message (`receiver.go:573`) until a restart searches for them again. The premise
  of `MessagesAreKept`, that the messages up to the finalized block fit the cache,
  stands for this.

## 5. Proofs

Every theorem is about a specification `Safe` (`Spec` in `Snapshot`),
`Init /\ [][Next]_vars` without fairness, and holds for every value of the constants that the named assumptions
allow; these say of each constant little more than that it is a natural number, except
for `Snapshot`, where an epoch must be long enough for the sets and turns. No safety
property below is inductive; each `Invariance` theorem proves a stronger `IInv`,
from which the properties follow.

| Module | Theorem | Property |
|---|---|---|
| `TransactorProofs` | `Invariance` | `IInv` |
| | `TypeCorrect` | `TypeOK`, with the capacity of the channel |
| | `FinalizedSafety` | `FinalizedIsFinal` |
| | `DroppedSafety` | `DroppedIsOrphaned` |
| | `WaitingsSafety` | `WaitingsIntact` |
| | `Refinement` | `KeepsPromise`: `RelayLifecycle` is implemented |
| `ReceiverProofs` | `Invariance` | `IInv` |
| | `TypeCorrect` | `TypeOK`, with the sizes of the caches |
| | `CacheFinal` | `CacheIsFinal` |
| | `NoPanic` | `NeverPanics` |
| | `HeightsAgree` | `HeightIsRoot` |
| | `TreesAreBranches` | `TreeIsBranch` |
| | `ProofsFinal` | `ProofsAreFinal` |
| | `MessagesFinal` | `MessagesAreFinal` |
| | `MessagesKept` | `MessagesAreKept` |
| `SenderProofs` | `Invariance` | `IInv` |
| | `TypeCorrect` | `TypeOK` |
| | `FinalitiesSafety` | `FinalitiesAscend` |
| `SnapshotProofs` | `Invariance` | `IInv` |
| | `TypeCorrect` | `TypeOK`, with the length of the histories |
| | `BootAccepted` | `BootAccepts` |
| | `BootAgreement` | `BootAgrees` |
| | `HistoriesAgree` | `BootCatchesUp` |
| | `Sealable` | `SomeoneMaySeal` |
| `SnapshotStoreProofs` | `Invariance` | `IInv` |
| | `TypeCorrect` | `TypeOK`, with the size of the cache |
| | `PanicSafety` | `PanicNeedsFullCache` |
| | `CheckpointSafety` | `CheckpointsKept` |
| `BlockProofProofs` | `Invariance` | `IInv` |
| | `AccumulatorSafety` | `AccumulatorIsChain` |
| | `ProofSafety` | `ProofsVerify` |
| | `CoverageSafety` | `CoversPeer` |
| | `SearchInvariance` | `SearchInv` |
| | `TypeCorrect` | `TypeOK` |
| | `RestoreSafety` | `MissingRestored` |
| | `HeightSafety` | `HeightFound` |

### Transactor

`IInv` has six parts:

* `TypeOK`;
* `ChainInv`: the last finality is an ancestor of the head, and every finality
  still held by a goroutine is an ancestor of the last one. This is why an *older*
  finality processed late decides as a newer one would;
* `SweepInv`: the pass over `waitings` has kept fewer slots than it has visited
  (`k < i`), so a slot is overwritten only after it was read, and its finality is
  an ancestor of the last one;
* `QueueInv`: the channel holds messages in place `queue` only, and none twice;
  without it `Dispatch` could start the goroutine of a message that is elsewhere;
* `WaitInv`: `WaitingsIntact`;
* `MessageInv(m)`, for every message: `KindInv` (which types go with which
  place; only an execution without error waits), `RepliesInv` (the answers sent
  so far are determined by the place, and a settled message agrees with the
  finalized chain), `ReceiptInv` (a successful receipt names a block that
  includes the message with success).

`Refinement` maps a state to what the link knows of each message (`StatusOf`, from
the answers sent). A step either tells the link nothing (`AllUnseen`: a stutter) or
appends one answer to those of one message, and `RepliesInv` says which answers
were there before, so which step of `RelayLifecycle` this is. `Finalize` and
`Orphan` also need that the block of the receipt is, or is not, finalized.
`StatusOf` is a chain of `IF`: a `CASE` whose guards overlap names any of its
values, as an attempt to prove this showed.

### Receiver

The question is why what the receiver keeps is final, when headers are fetched by
number, maybe before their number is final, and the node may reorganise in
between. `IInv` has, apart from types:

* `ChainInv`: whatever a branch that the node ever had has attested is on the
  finalized chain (`Sound`; it is what fast finality promises, here a consequence
  of `Mine` and `Reorg`), and sequence numbers ascend along the chain;
* `WatchInv`: the watcher is ahead of the loop, and what both hold was on a chain
  of the node;
* `SettledInv`: a header at a height that the loop, the link or the contract has
  *reached*, that is, takes for final, is final, in the cache and on its way there.
  A height is reached only through an attestation in a later header of
  the same branch, and headers that come later are above all reached heights or on
  the final chain. This is the part that ties the threads together;
* `LoopInv`: the calculator has been fed all blocks between its checkpoint, which is
  final, and the last snapshot, and `heads` has exactly those of that branch;
* `WalkInv`: the walk for messages goes down from a final block to the local one;
* `StatusInv`, `OrderInv`: each status, of the contract or under way, has a tree that is
  one branch with a final end, a height that is its root's, and a sequence whose
  message is below the root; later ones go on from earlier ones;
* `BuildInv`: an update in progress stands on the tree of the link's view, its
  calculator on the same root, and the finalities it has counted are what the tree
  has been pruned by. `NeverPanics` follows: the next header fits;
* `MsgsInv`: what a walk has come past is in the cache;
* `FiniteInv`: the caches are finite, so that one more entry is one more.

`BranchProofs` has the lemmas on which calculator and tree agree: `FeedAdvances` (the
calculator that stands at the parent comes to stand at the block, and returns
the blocks that its checkpoint has passed), `AddToBranch`, `PruneBranch` (a branch
pruned at a block begins at that block), `DecodeOfEncode` (a branch that is encoded and decoded
comes back, so that the status the contract decodes is the one that was
built), `SealFollows` and `CutFollows` (sealing a block and cutting the chain
keep `Sound`).

### Sender

The loop starts from an epoch block that need not be final and may be replaced, so
`o.finality` is *not* always final. What the transactor is told is final all the
same, by another argument: it is the source of an attestation that a header of
the node has, above the start block, and what is attested is final (`Sound`).
`HeadInv` says that all blocks held were on a chain of the node, `LoopInv` that the
calculator stands at the last block and its checkpoint is `o.finality` but between
calculation and notification, `ToldInv` that the last finality told is
`o.finality`: which is why entering the loop again tells none twice.

### Snapshot

For any validator sets, turns, epoch, fork number and height; the runs have one
epoch and one fork. `ConstantsAssumption` is where the length of an epoch enters: for
each set that may be announced, the longest history and half of the set fit into it.
`PairFits` shows that this is then so for the history of one set and half of any
*other*, which is what a change of sets needs.

`HeadersInv`: candidates and next turn are those of the last epoch block. `ChangeInv`:
a change is to come or is over, and at an epoch block it is over, so that the set in
force is that of the epoch block before: this is why `BootSnapshot` may read it there.
`HistoryInv`: the history has every sealer that the rule looks at and that is later than
any change of this epoch may come, hence at an epoch block all that a boot reads. A
shrunken or emptied history is weaker than this in between, which is why the
clause counts from the longest history of *any* set. `BootedFits`: the booted
history is part of the full one and lacks only blocks before the boot; with turns
of one block it lacks none, since a boot then reads the whole history. Turns of one
block do come back, but since Bohr a change empties both histories
(`SealKeepsBooted`). `SealsToo` says that a history with fewer entries is not
stricter; used both ways it gives `BootCatchesUp`.

`SomeoneMaySeal` follows by counting: a validator that may not seal has a whole turn in
the history (`TurnIsOver`), so all of them together would have more blocks there
than it is long (`Pigeonhole`, by `SetInduction`).

### Snapshot store

`CallInv` says where a call is: the walk is at an ancestor of the block asked for and
never passes the boot snapshot. `EvictInv`: unless the cache is full, what a thread
has seen in it is still there, which gives `PanicNeedsFullCache`.

`CheckpointsKept` allows one missing checkpoint per failure, and the difficulty is
the process that stops while a checkpoint is being written and the
other thread, which took the snapshot from the cache, has stored one above it:
an *overtaken* checkpoint is lost for good. A crash is a failure and may lose one.
A panic is not a failure, so `KeptInv` has to show that it loses none: the thread
that panics has lost a snapshot from the cache, so the other thread has made a
snapshot since, and a checkpoint that it is writing now has not been overtaken
before. `Undisturbed(c)` says when a call cannot panic, `Lacking` and `Overtaken`
count what is, and what would be, lost.

### Block proofs and search

The first part of `BlockProofProofs` is about the accumulator, with no assumption on
how calls of `syncAcc` overlap. The parts of `IInv`:

* `AccInv`: unless there was a race the leaves are the chain; what is flushed begins
  what is in memory, also after a race, since leaves are only appended and `Flush`
  writes all of them (`Begins`);
* `ReadInv`: the cursor of a call, which starts at the height it read, is never above
  the height, and a call that flushes has passed its end, so that its end is covered
  whatever the others did;
* `AloneInv`: without a race at most one call has headers to add, and the cursor of
  that one *is* the height. `CallBegins` is where a second one makes `raced` true:
  this is the step at which the argument for the leaves ends, and finding 4 starts;
* `PhaseInv`: before `Start` has returned the status goroutine and the link are
  quiet, and a link in `syncAcc` waits for it;
* `ReachInv`: a call of `Start` goes to the peer's block, one of the status goroutine
  to the arriving one, one of the link to the block of its proof, and what they have
  synchronized stays covered;
* `LinkInv`: the height found is that of the message or none, and only a height
  from the offset to the contract's block goes on.

The second part holds however calls overlap. `SearchReturns` proves of the search
over any number of windows of any size that it returns every message beyond the
sequence number, and the greatest last. The search is a recursive function of the end
block; that such a function exists, and what it returns, is proved by induction
(`SetInduction` of `BlocksProofs`, from the well-foundedness of the naturals),
and `WindowsReturn` is the step: the block that two windows share is in both, so
that none is lost between them, and messages found twice stay together. It needs that messages
are sent in the order of their numbers (`SentFirst`, `WantedIsNext`). `SearchInv` says
that `Start` searches with an empty cache and the contract's status, that the link asks
only for messages that the receiver has come to, and that calls of `syncAcc` add only
blocks that there are.

### What stays with TLC

* Liveness: `Answered`, `LinkAnswered`, `SettledByFinality`, `Delivered`,
  `StraysStop`, `FinalitiesFollow`, `CatchesUp`, and with them `ENABLED` and fairness, are out of
  the prover's reach.
* The four findings are counterexamples: TLC finds them.

The library's induction theorems take an operator as a parameter, which the installed
provers cannot instantiate; `LeastNatural` and `SetInduction` do the same for sets,
which covers recursive functions over heights and the sizes of sets. Modules with theorems have no
`RECURSIVE` operators.

## 6. Not modelled

ABI coding and the RLP of headers, receipts and relay messages, with
`BuildRelayMessage` and the receipt tries of message proofs: data layout, with no
state of their own. Cryptography (a hash is the block, a signature is valid), gas
prices, logging. The retries of the HTTP transport: they happen below an RPC that,
in every module, takes any time and may fail (a submission also after the node has
taken it). Of snapshots the parsing of extra data and seals; a block in `Receiver`
and `Sender` is one that verification accepts, and which sealers it accepts is the
subject of `Snapshot`. `GetStatus` of either side, which changes no state.

The factory, the configuration and the relay command (construction only), the
bindings (`bmc.go`, generated by abigen), the link engine (another repository,
modelled as the calls it makes), the demonstration dApps and the scripts.

What modules leave to others: `Snapshots` is a total function in `Receiver` and
`Sender`, and `SnapshotStore` is where it may fail; the accumulator is not in
`Receiver`, and blocks are numbers in `BlockProof`, which is about final ones only.
The end of the sender's loop is not fed back into `Transactor`: there, finalities
may stop at any time, and `SettledByFinality` promises something only for a
finality received.

## 7. Plan

Done: all modules of section 2, and the proofs of section 5: all safety properties
that a passing run checks, and the refinement. Next:

1. That the finalities which `Sender` gives are the ones `Transactor` assumes, as a
   refinement of the transactor's environment instead of a property of each.
