--------------------------- MODULE SnapshotStore ----------------------------
(***************************************************************************)
(* Snapshots (chain/bsc2/snapshots.go): the snapshots of blocks, looked    *)
(* for in an ARC cache, then in the database, then made from the headers   *)
(* of the node.  It has no lock: the receiver's loop and the link call it  *)
(* at the same time.                                                       *)
(*                                                                         *)
(* A snapshot is the block it belongs to; Genesis stands for the block of  *)
(* the boot snapshot, which prepare stores.  Every access to the cache, to *)
(* the database and to the node is a step.                                 *)
(***************************************************************************)
EXTENDS Blocks, FiniteSets

CONSTANTS
    CacheSize,   \* entries of the cache (1024)
    Checkpoint,  \* BlockCheckpointInterval: numbers whose snapshots are stored
    MaxHeight,   \* bound: the highest block of the node
    MaxReorgs,   \* bound: reorganisations of the node's chain
    MaxFaults    \* bound: failed queries, failed stores and crashes

ASSUME StoreAssumption ==
    /\ {CacheSize, Checkpoint} \subseteq Nat \ {0}
    /\ {MaxHeight, MaxReorgs, MaxFaults} \subseteq Nat

VARIABLES
    chain,     \* node: the canonical head
    final,     \* node: a finalized block, the root of the status of the contract
    reorgs,    \* node: reorganisations so far
    cache,     \* the blocks whose snapshots are in the cache
    database,  \* the blocks whose snapshots are in the database
    at,        \* loop: the block of the snapshot it goes on from
    call,      \* thread -> the call it makes
    up,        \* the process runs
    panicked,  \* a call has panicked
    faults     \* failures and crashes so far

node == <<chain, final, reorgs>>
vars == <<chain, final, reorgs, cache, database, at, call, up, panicked, faults>>

Threads == {"loop", "link"}

\* A call for the snapshot of id.  cur is the block the walk has come to, and
\* from "apply" on the block of the snapshot that the next header is applied to.
Call(kind, id, pc) == [kind |-> kind, id |-> id, cur |-> id, pc |-> pc]

Idle == Call("none", Genesis, "idle")

\* Faulty: the loop goes on from its own last block.
EntryAtHead == Call("enter", at, "lookup")

\* The loop is entered at the root of the status of the contract.
Entry == Call("enter", final, "lookup")

\* Start synchronizes the snapshots before the loop is entered.
Starting == [t \in Threads |->
                IF t = "loop" THEN Call("ensure", final, "ensure") ELSE Idle]

Init ==
    /\ chain = Genesis /\ final = Genesis /\ reorgs = 0
    /\ cache = {} /\ database = {Genesis}
    /\ at = Genesis
    /\ call = Starting
    /\ up = TRUE /\ panicked = FALSE /\ faults = 0

-----------------------------------------------------------------------------
(* The node.                                                               *)

StoreStays == UNCHANGED <<cache, database, at, call, up, panicked, faults>>

Mine ==
    /\ Len(chain) < MaxHeight
    /\ chain' = Append(chain, [fork |-> reorgs])
    /\ UNCHANGED <<final, reorgs>> /\ StoreStays

Reorg ==
    /\ reorgs < MaxReorgs
    /\ \E n \in Number(final) .. Len(chain) - 1 : chain' = AncestorAt(chain, n)
    /\ reorgs' = reorgs + 1
    /\ UNCHANGED final /\ StoreStays

Finalize ==
    /\ \E n \in Number(final) + 1 .. Len(chain) : final' = AncestorAt(chain, n)
    /\ UNCHANGED <<chain, reorgs>> /\ StoreStays

-----------------------------------------------------------------------------
(* A call: get, ensure, or the add of one more snapshot.                   *)

\* Faulty: one entry too many.
PutOver(b) ==
    IF b \in cache \/ Cardinality(cache) < CacheSize + 1 THEN {cache \cup {b}}
    ELSE {(cache \ {old}) \cup {b} : old \in cache}

\* Faulty: a checkpoint goes to the database alone.
PutUnlessStored(b) ==
    IF Number(b) % Checkpoint = 0 THEN {cache}
    ELSE IF Cardinality(cache) < CacheSize THEN {cache \cup {b}}
    ELSE {(cache \ {old}) \cup {b} : old \in cache}

\* An entry added to the cache.  In a full cache any other entry may give way:
\* which one depends on the uses of the entries so far.
Put(b) ==
    IF b \in cache \/ Cardinality(cache) < CacheSize THEN {cache \cup {b}}
    ELSE {(cache \ {old}) \cup {b} : old \in cache}

Goto(t, pc) == call' = [call EXCEPT ![t].pc = pc]

At(t, pc) == up /\ call[t].pc = pc

Reads == UNCHANGED <<node, cache, database, up, panicked, faults>>

\* The call returns the snapshot of its id.  The loop goes from Start to its
\* first get, and after that from each new snapshot.
Return(t) ==
    LET c == call[t]
    IN  IF c.kind = "ensure"
        THEN call' = [call EXCEPT ![t] = Entry] /\ UNCHANGED at
        ELSE /\ call' = [call EXCEPT ![t] = Idle]
             /\ at' = IF c.kind \in {"enter", "add"} THEN c.id ELSE at

\* get: on cache memory.
Lookup(t) ==
    /\ At(t, "lookup")
    /\ IF call[t].id \in cache THEN Return(t) ELSE Goto(t, "database") /\ UNCHANGED at
    /\ Reads

\* get: on database.  What is found there is not added to the cache.
Load(t) ==
    /\ At(t, "database")
    /\ IF call[t].id \in database THEN Return(t) ELSE Goto(t, "ensure") /\ UNCHANGED at
    /\ Reads

\* ensure: its first look at the cache.
Ensure(t) ==
    /\ At(t, "ensure")
    /\ Goto(t, IF call[t].id \in cache THEN "found" ELSE "contains")
    /\ UNCHANGED at /\ Reads

\* ensure: the walk back over the parents asks the cache ...
Contains(t) ==
    /\ At(t, "contains")
    /\ Goto(t, IF call[t].cur \in cache THEN "take" ELSE "stored")
    /\ UNCHANGED at /\ Reads

\* A panic ends the process.
Panic(t) ==
    /\ panicked' = TRUE
    /\ up' = FALSE
    /\ UNCHANGED <<node, cache, database, at, call, faults>>

\* ... and takes what the cache had a moment ago: the type assertion on the
\* nil that Get returns for an evicted entry panics.
Take(t) ==
    /\ At(t, "take")
    /\ IF call[t].cur \in cache THEN Goto(t, "apply") /\ UNCHANGED at /\ Reads
       ELSE Panic(t)

\* ... then the database ...
Consult(t) ==
    /\ At(t, "stored")
    /\ Goto(t, IF call[t].cur \in database THEN "apply" ELSE "fetch")
    /\ UNCHANGED at /\ Reads

\* ... and gets the header from the node, for its parent.
Fetch(t) ==
    /\ At(t, "fetch")
    /\ call' = [call EXCEPT ![t].cur = Parent(@), ![t].pc = "contains"]
    /\ UNCHANGED at /\ Reads

\* Faulty: only the block a call is made for is stored.
IsCheckpointOfCall(c, b) == b = c.id /\ Number(b) % Checkpoint = 0

IsCheckpoint(c, b) == Number(b) % Checkpoint = 0

\* The next header is applied and its snapshot added: to the cache first.
Apply(t) ==
    /\ At(t, "apply")
    /\ call[t].cur # call[t].id
    /\ LET next == AncestorAt(call[t].id, Number(call[t].cur) + 1)
       IN  /\ cache' \in Put(next)
           /\ call' = [call EXCEPT ![t].cur = next,
                 ![t].pc = IF IsCheckpoint(call[t], next) THEN "store" ELSE "apply"]
    /\ UNCHANGED <<node, database, at, up, panicked, faults>>

\* add: then, at a checkpoint, to the database.
Store(t) ==
    /\ At(t, "store")
    /\ database' = database \cup {call[t].cur}
    /\ Goto(t, "apply")
    /\ UNCHANGED <<node, cache, at, up, panicked, faults>>

\* Every header is applied.
Applied(t) ==
    /\ At(t, "apply")
    /\ call[t].cur = call[t].id
    /\ IF call[t].kind \in {"add", "ensure"} THEN Return(t)
       ELSE Goto(t, "made") /\ UNCHANGED at
    /\ Reads

\* get looks into the cache for what ensure has put there, or found there.
Result(t) ==
    /\ At(t, "found") \/ At(t, "made")
    /\ IF call[t].kind = "ensure" \/ call[t].id \in cache
       THEN Return(t) /\ Reads ELSE Panic(t)

\* The node or the database fails.  The loop and Start panic on it, but for
\* the second get of queryAndCacheMessages, on which the loop is entered again;
\* the link gets the error.
Fails(t) ==
    /\ up /\ faults < MaxFaults
    /\ call[t].pc \in {"database", "stored", "fetch", "store"}
    /\ faults' = faults + 1
    /\ \/ /\ t = "link"
          /\ call' = [call EXCEPT ![t] = Idle]
          /\ UNCHANGED up
       \/ /\ t = "loop"
          /\ up' = FALSE
          /\ UNCHANGED call
       \/ /\ t = "loop" /\ call[t].kind = "get"
          /\ call' = [call EXCEPT ![t] = Entry]
          /\ UNCHANGED up
    /\ UNCHANGED <<node, cache, database, at, panicked>>

Step(t) ==
    \/ Lookup(t) \/ Load(t) \/ Ensure(t) \/ Contains(t) \/ Take(t)
    \/ Consult(t) \/ Fetch(t) \/ Apply(t) \/ Store(t) \/ Applied(t) \/ Result(t)

-----------------------------------------------------------------------------
(* The callers.                                                            *)

\* What is asked for: by the loop, blocks it has been through since the root of
\* the status of the contract; by the link, that root.
Asked(t) ==
    IF t = "link" THEN {final}
    ELSE {AncestorAt(at, n) : n \in Number(final) .. Number(at)}

\* BlockFinalityCalculator, queryAndCacheMessages, selectFork, BuildBlockUpdate.
\* The link begins when Start has returned.
Get(t) ==
    /\ up /\ call[t] = Idle /\ call["loop"].kind # "ensure"
    /\ \E id \in Asked(t) : call' = [call EXCEPT ![t] = Call("get", id, "lookup")]
    /\ UNCHANGED at /\ Reads

\* applyAndCache of the next head; a head of another branch makes the loop
\* start again from the finalized block.
Follow ==
    /\ up /\ call["loop"] = Idle
    /\ Number(at) < Len(chain)
    /\ LET head == AncestorAt(chain, Number(at) + 1)
       IN  call' = [call EXCEPT !["loop"] =
              IF Parent(head) = at
              THEN [Call("add", head, "apply") EXCEPT !.cur = at]
              ELSE Entry]
    /\ UNCHANGED at /\ Reads

\* The process is killed.
Crash ==
    /\ up /\ faults < MaxFaults
    /\ faults' = faults + 1
    /\ up' = FALSE
    /\ UNCHANGED <<node, cache, database, at, call, panicked>>

\* Only the database outlives the process.
Restart ==
    /\ ~up
    /\ up' = TRUE /\ panicked' = FALSE
    /\ cache' = {}
    /\ at' = Genesis
    /\ call' = Starting
    /\ UNCHANGED <<node, database, faults>>

Next ==
    \/ Mine \/ Reorg \/ Finalize
    \/ \E t \in Threads : Step(t) \/ Fails(t) \/ Get(t)
    \/ Follow \/ Crash \/ Restart

\* The goroutines are scheduled fairly, and the node and the database answer.
\* The loop makes finitely many calls between two heads, so that it comes back
\* to the next head time and again (SF).  Neither a crash nor a restart is fair.
Fairness ==
    /\ \A t \in Threads : WF_vars(Step(t))
    /\ SF_vars(Follow)

Safe == Init /\ [][Next]_vars

Spec == Safe /\ Fairness

-----------------------------------------------------------------------------
(* Properties.                                                             *)

Block == Seq([fork : Nat])

\* The variables have the types of the code, and the cache keeps to its size.
TypeOK ==
    /\ {chain, final, at} \subseteq Block /\ reorgs \in 0 .. MaxReorgs
    /\ cache \subseteq Block /\ Cardinality(cache) <= CacheSize
    /\ database \subseteq Block
    /\ call \in [Threads ->
          [kind : {"none", "ensure", "enter", "get", "add"}, id : Block, cur : Block,
           pc : {"idle", "lookup", "database", "ensure", "contains", "take", "stored",
                 "fetch", "apply", "store", "found", "made"}]]
    /\ up \in BOOLEAN /\ panicked \in BOOLEAN /\ faults \in 0 .. MaxFaults

\* The checkpoints below a block.
CheckpointsOf(b) == {AncestorAt(b, n) : n \in {m \in 0 .. Number(b) : m % Checkpoint = 0}}

Writing == {call[t].cur : t \in {u \in Threads : call[u].pc = "store"}}

\* The snapshots in use and in store.
Held == cache \cup database \cup {at}

\* No checkpoint is skipped by whoever makes the snapshots, loop or link, and
\* whatever they share, evict and lose in a crash: below each snapshot all
\* checkpoints are in the database, but for one that is being written and for
\* one per failure or crash.
CheckpointsKept ==
    Cardinality((UNION {CheckpointsOf(b) : b \in Held}) \ (database \cup Writing)) <= faults

\* The loop reaches the head of the node, however the cache evicts what it
\* needs, and from wherever a restart or a fork makes it begin.
CatchesUp == <>[]up => []<>(Number(at) >= Len(chain))

\* get and ensure use without a test what the cache had a moment ago, or was
\* just given (snapshots.go:66 and 92): that panics only when the cache is full,
\* so that an add of the other thread evicts it in between.
PanicNeedsFullCache == panicked => Cardinality(cache) = CacheSize
=============================================================================
