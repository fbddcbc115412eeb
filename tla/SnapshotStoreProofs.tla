------------------------ MODULE SnapshotStoreProofs -------------------------
(***************************************************************************)
(* Theorems about the snapshots that the loop and the link make and share  *)
(* without a lock, for any size of the cache, interval of the checkpoints, *)
(* and number of reorganisations, failures and crashes.                    *)
(*                                                                         *)
(* A checkpoint is missing from the database below a snapshot in three     *)
(* cases: it is being written, its write has failed, or the process has    *)
(* stopped during its write while the other thread, which had taken the    *)
(* snapshot from the cache, had stored one above it.  The last needs care: *)
(* a panic stops the process too, and is no failure.  The thread that      *)
(* panics has lost a snapshot from the cache, so the other one has made a  *)
(* snapshot since, and a checkpoint which that one is still writing cannot *)
(* have been overtaken before (KeptInv).                                   *)
(***************************************************************************)
EXTENDS SnapshotStore, BlocksProofs, FiniteSetTheorems

Walking == {"ensure", "contains", "take", "stored", "fetch"}

Making == {"apply", "store", "made"}

\* What the call is at: the walk is at an ancestor of the block asked for, it
\* never passes the boot snapshot, and it comes to "made" with that block.
CallInv(c) ==
    /\ c.kind = "none" <=> c.pc = "idle"
    /\ IsAncestor(c.cur, c.id)
    /\ c.pc \in {"lookup", "database", "ensure", "made"} => c.cur = c.id
    /\ c.pc = "fetch" => c.cur # Genesis
    /\ c.kind = "add" => c.pc \in {"apply", "store"}
    /\ c.kind = "ensure" => c.pc \notin {"lookup", "database", "made"}

CallsInv == Genesis \in database /\ \A t \in Threads : CallInv(call[t])

\* What the call has found in the cache or put there is in it.
InCache(c) ==
    /\ c.pc = "take" => c.cur \in cache
    /\ c.pc = "found" => c.id \in cache
    /\ c.pc = "store" => c.cur \in cache
    /\ c.kind \in {"get", "enter"} =>
          /\ c.pc \in Walking \cup Making /\ c.id \in database => c.id \in cache
          /\ c.pc \in Making /\ c.cur = c.id => c.id \in cache

\* A cache that is not full has evicted nothing.
EvictInv ==
    /\ IsFiniteSet(cache) /\ (panicked => ~up)
    /\ Cardinality(cache) < CacheSize => \A t \in Threads : InCache(call[t])
    /\ PanicNeedsFullCache

-----------------------------------------------------------------------------
(* The checkpoints.                                                        *)

Few(S, n) == IsFiniteSet(S) /\ Cardinality(S) <= n

\* The checkpoints at or below the blocks of S, and those strictly below.
Below(S) == UNION {CheckpointsOf(b) : b \in S}
Beneath(S) == UNION {CheckpointsOf(b) \ {b} : b \in S}

\* The snapshot that a call goes on from, and the checkpoint it is writing.
Base(c) == IF c.pc \in {"apply", "store"} THEN {c.cur} ELSE {}
Pending(c) == IF c.pc = "store" THEN {c.cur} ELSE {}

Using == cache \cup database \cup {at} \cup Base(call["loop"]) \cup Base(call["link"])

PendingAll == Pending(call["loop"]) \cup Pending(call["link"])

\* Neither stored nor being written.
Lacking == Below(Using) \ (database \cup PendingAll)

\* Not stored, with a snapshot in use above it.
Overtaken == Beneath(Using) \ database

\* The call will not find that the other thread has evicted what it needs, and
\* the other thread has not stored the block it asks for.
Undisturbed(c) ==
    /\ c.pc = "take" => c.cur \in cache
    /\ c.pc = "found" => c.id \in cache
    /\ c.kind \in {"get", "enter"} =>
          /\ c.pc \in Walking => c.id \notin database
          /\ c.pc \in Making =>
                IF c.cur = c.id THEN c.id \in cache ELSE c.id \notin database

\* One checkpoint per failure is lacking.  A process that stops loses at most
\* one more, and none when it panics.
KeptInv ==
    /\ Few(Lacking, faults)
    /\ up => Few(Lacking \cup Overtaken, faults + 1)
    /\ up => \A t \in Threads :
                \/ Undisturbed(call[t])
                \/ Few(Lacking \cup (Overtaken \ Pending(call[t])), faults)
    /\ ~up => Few(Below(database) \ database, faults)

IInv == TypeOK /\ CallsInv /\ EvictInv /\ KeptInv

-----------------------------------------------------------------------------
(* Sets.                                                                   *)

\* A subset has no more elements, and one more element is one more.
LEMMA FewSubset ==
    ASSUME NEW T, NEW n \in Nat, Few(T, n), NEW S \in SUBSET T
    PROVE  Few(S, n)
  <1>1. IsFiniteSet(S) /\ Cardinality(S) <= Cardinality(T)
    BY FS_Subset DEF Few
  <1>2. Cardinality(S) \in Nat /\ Cardinality(T) \in Nat
    BY <1>1, FS_CardinalityType DEF Few
  <1> QED
    BY <1>1, <1>2 DEF Few

\* One more member is at most one more.
LEMMA FewAdd ==
    ASSUME NEW T, NEW n \in Nat, Few(T, n), NEW x
    PROVE  Few(T \cup {x}, n + 1)
  <1>1. /\ IsFiniteSet(T \cup {x})
        /\ Cardinality(T \cup {x}) = IF x \in T THEN Cardinality(T) ELSE Cardinality(T) + 1
    BY FS_AddElement DEF Few
  <1>2. Cardinality(T) \in Nat
    BY FS_CardinalityType DEF Few
  <1> QED
    BY <1>1, <1>2 DEF Few

\* A set of which the most of one element is not in T.
LEMMA FewMore ==
    ASSUME NEW T, NEW n \in Nat, Few(T, n), NEW c, NEW S \in SUBSET (T \cup Pending(c))
    PROVE  Few(S, n + 1)
  <1>1. Few(T \cup {c.cur}, n + 1)
    BY FewAdd
  <1>2. S \subseteq T \cup {c.cur}
    BY DEF Pending
  <1> QED
    BY <1>1, <1>2, FewSubset

\* More snapshots have more checkpoints; a checkpoint at or below a snapshot is
\* strictly below it or the snapshot itself.
LEMMA BelowGrows ==
    ASSUME NEW S, NEW T
    PROVE  /\ S \subseteq T => Below(S) \subseteq Below(T) /\ Beneath(S) \subseteq Beneath(T)
           /\ Below(S \cup T) = Below(S) \cup Below(T)
           /\ Beneath(S \cup T) = Beneath(S) \cup Beneath(T)
           /\ Beneath(S) \subseteq Below(S)
           /\ Below(S) \subseteq Beneath(S) \cup S
  BY DEF Below, Beneath

\* The two threads.
Other(t) == IF t = "loop" THEN "link" ELSE "loop"

\* There is one other thread, and what is said of all is said of the two.
LEMMA TwoThreads ==
    ASSUME NEW t \in Threads
    PROVE  /\ Other(t) \in Threads /\ Other(t) # t
           /\ \A u \in Threads : u = t \/ u = Other(t)
           /\ PendingAll = Pending(call[t]) \cup Pending(call[Other(t)])
           /\ PendingAll' = Pending(call'[t]) \cup Pending(call'[Other(t)])
           /\ Using = cache \cup database \cup {at} \cup Base(call[t]) \cup Base(call[Other(t)])
           /\ Using' = cache' \cup database' \cup {at'} \cup Base(call'[t])
                          \cup Base(call'[Other(t)])
  BY DEF Threads, Other, PendingAll, Using

\* The checkpoints of the block above: those of the block, and itself if it is
\* one.
LEMMA CheckpointsAbove ==
    ASSUME NEW cur \in Block, NEW id \in Block, IsAncestor(cur, id), cur # id,
           NEW next, next = AncestorAt(id, Number(cur) + 1)
    PROVE  /\ next \in Block /\ IsAncestor(next, id)
           /\ CheckpointsOf(next) \subseteq CheckpointsOf(cur) \cup {next}
           /\ Number(next) % Checkpoint # 0 => CheckpointsOf(next) \subseteq CheckpointsOf(cur)
           /\ CheckpointsOf(cur) \subseteq CheckpointsOf(id) \ {id}
  <1>1. Number(cur) <= Number(id) /\ cur = AncestorAt(id, Number(cur))
    BY AncestorShares DEF Block
  <1>2. Number(cur) \in Nat /\ Number(id) \in Nat /\ AncestorAt(id, Number(id)) = id
    BY LenProperties, AncestorAtSelf DEF Block, Number
  <1>3. Number(cur) < Number(id) /\ Number(cur) + 1 \in 0 .. Number(id)
    BY <1>1, <1>2
  <1>4. next \in Block /\ Number(next) = Number(cur) + 1 /\ IsAncestor(next, id)
    BY <1>3, AncestorOf DEF Block
  <1>5. \A n \in 0 .. Number(next) : AncestorAt(next, n) = AncestorAt(id, n)
    BY <1>4, AncestorShares DEF Block
  <1>6. \A n \in 0 .. Number(cur) : AncestorAt(cur, n) = AncestorAt(id, n)
    BY AncestorShares DEF Block
  <1>7. \A n \in 0 .. Number(cur) : AncestorAt(id, n) # id
    <2> TAKE n \in 0 .. Number(cur)
    <2>1. n \in 0 .. Number(id) /\ n < Number(id)
      BY <1>2, <1>3
    <2> QED
      BY <2>1, <1>2, AncestorOf DEF Block
  <1>8. AncestorAt(id, Number(next)) = next
    BY <1>4
  <1>9. ASSUME NEW x \in CheckpointsOf(next)
        PROVE  \/ x \in CheckpointsOf(cur)
               \/ x = next /\ Number(next) % Checkpoint = 0
    <2>1. PICK n \in 0 .. Number(next) : n % Checkpoint = 0 /\ x = AncestorAt(next, n)
      BY <1>9 DEF CheckpointsOf
    <2>2. CASE n = Number(next)
      BY <2>1, <2>2, <1>4, <1>5, <1>8
    <2>3. CASE n # Number(next)
      <3>1. n \in 0 .. Number(cur) /\ x = AncestorAt(cur, n)
        BY <2>1, <2>3, <1>2, <1>4, <1>5, <1>6
      <3> QED
        BY <2>1, <3>1 DEF CheckpointsOf
    <2> QED
      BY <2>2, <2>3
  <1>10. ASSUME NEW x \in CheckpointsOf(cur)
         PROVE  x \in CheckpointsOf(id) \ {id}
    <2>1. PICK n \in 0 .. Number(cur) : n % Checkpoint = 0 /\ x = AncestorAt(cur, n)
      BY <1>10 DEF CheckpointsOf
    <2>2. n \in 0 .. Number(id) /\ x = AncestorAt(id, n) /\ x # id
      BY <2>1, <1>2, <1>3, <1>6, <1>7
    <2> QED
      BY <2>1, <2>2 DEF CheckpointsOf
  <1> QED
    BY <1>4, <1>9, <1>10

-----------------------------------------------------------------------------
(* The checkpoints, as threads go on.                                      *)

\* What is lacking and overtaken decides it.
LEMMA KeptOnwards ==
    ASSUME KeptInv, faults \in Nat, up, up', faults' = faults,
           Lacking' \subseteq Lacking,
           Few(Lacking' \cup Overtaken', faults + 1),
           \A t \in Threads :
              \/ Undisturbed(call[t])'
              \/ /\ ~Undisturbed(call[t])
                 /\ Overtaken' \ Pending(call'[t])
                       \subseteq Lacking \cup (Overtaken \ Pending(call[t]))
              \/ Few(Lacking' \cup (Overtaken' \ Pending(call'[t])), faults)
    PROVE  KeptInv'
  <1>1. Few(Lacking', faults)
    BY FewSubset DEF KeptInv
  <1>2. ASSUME NEW t \in Threads, ~Undisturbed(call[t]),
               Overtaken' \ Pending(call'[t])
                  \subseteq Lacking \cup (Overtaken \ Pending(call[t]))
        PROVE  Few(Lacking' \cup (Overtaken' \ Pending(call'[t])), faults)
    <2>1. Few(Lacking \cup (Overtaken \ Pending(call[t])), faults)
      BY <1>2 DEF KeptInv
    <2>2. Lacking' \cup (Overtaken' \ Pending(call'[t]))
             \subseteq Lacking \cup (Overtaken \ Pending(call[t]))
      BY <1>2
    <2> QED
      BY ONLY <2>1, <2>2, FewSubset, faults \in Nat
  <1>3. \A t \in Threads :
           \/ Undisturbed(call[t])'
           \/ Few(Lacking' \cup (Overtaken' \ Pending(call'[t])), faults)
    BY <1>2
  <1> QED
    BY ONLY <1>1, <1>3, up', faults' = faults, Few(Lacking' \cup Overtaken', faults + 1) DEF KeptInv

CallType ==
    [kind : {"none", "ensure", "enter", "get", "add"}, id : Block, cur : Block,
     pc : {"idle", "lookup", "database", "ensure", "contains", "take", "stored",
           "fetch", "apply", "store", "found", "made"}]

\* Thread t goes on to c and makes no snapshot: it has what it goes on from,
\* and returns what it has found, from the cache, the database or its walk.
Moves(t, c) ==
    /\ call' = [call EXCEPT ![t] = c]
    /\ c \in CallType /\ CallInv(c)
    /\ at' \in {at} \cup cache \cup database \cup Base(call[t])
    /\ Base(c) \subseteq {at} \cup cache \cup database \cup Base(call[t])
    /\ Pending(c) = {} /\ Pending(call[t]) = {}
    /\ InCache(call[t]) => InCache(c)
    /\ Undisturbed(call[t]) => Undisturbed(c)
    /\ up /\ Reads

\* A step that moves one thread, and the current snapshot only to one already held.
LEMMA MovesKeeps ==
    ASSUME IInv, NEW t \in Threads, NEW c, Moves(t, c)
    PROVE  IInv'
  <1>1. /\ call \in [Threads -> CallType] /\ faults \in Nat
        /\ cache \subseteq Block /\ database \subseteq Block /\ at \in Block
    BY DEF IInv, TypeOK, CallType
  <1>2. call'[t] = c /\ \A u \in Threads \ {t} : call'[u] = call[u]
    BY <1>1 DEF Moves
  <1>3. /\ cache' = cache /\ database' = database /\ up' = up /\ faults' = faults
        /\ chain' = chain /\ final' = final /\ reorgs' = reorgs /\ panicked' = panicked
    BY DEF Moves, Reads, node
  <1>4. at' \in Block
    <2>1. Base(call[t]) \subseteq Block
      BY <1>1 DEF Base, CallType
    <2> QED
      BY <1>1, <2>1 DEF Moves
  <1>5. TypeOK'
    <2>1. call' \in [Threads -> CallType]
      BY <1>1 DEF Moves
    <2> QED
      BY <2>1, <1>3, <1>4 DEF IInv, TypeOK, CallType
  <1>6. CallsInv'
    BY <1>2, <1>3 DEF IInv, CallsInv, Moves, CallInv
  <1>7. EvictInv'
    <2>1. \A u \in Threads : InCache(call[u]) => InCache(call[u])'
      <3>1. InCache(c) => InCache(call[t])'
        BY <1>2, <1>3 DEF InCache
      <3>2. \A u \in Threads \ {t} : InCache(call[u]) => InCache(call[u])'
        BY <1>2, <1>3 DEF InCache
      <3> QED
        BY <3>1, <3>2 DEF Moves
    <2> QED
      BY <2>1, <1>3 DEF IInv, EvictInv, PanicNeedsFullCache
  <1>8. KeptInv'
    <2> DEFINE u == Other(t)
    <2>1. Using' \subseteq Using
      BY <1>2, <1>3, TwoThreads DEF Moves
    <2>2. PendingAll' = PendingAll
      BY <1>2, TwoThreads DEF Moves
    <2>3. Below(Using') \subseteq Below(Using) /\ Beneath(Using') \subseteq Beneath(Using)
      BY <2>1, BelowGrows
    <2>4. Lacking' \subseteq Lacking /\ Overtaken' \subseteq Overtaken
      BY <2>2, <2>3, <1>3 DEF Lacking, Overtaken
    <2>5. Few(Lacking' \cup Overtaken', faults + 1)
      <3>1. Few(Lacking \cup Overtaken, faults + 1) /\ faults + 1 \in Nat
        BY <1>1 DEF IInv, KeptInv, Moves
      <3> QED
        BY <3>1, <2>4, FewSubset
    <2>6. ASSUME NEW v \in Threads
          PROVE  /\ Undisturbed(call[v]) => Undisturbed(call[v])'
                 /\ Pending(call'[v]) = Pending(call[v])
      <3>1. Undisturbed(c) => Undisturbed(call[t])'
        BY <1>2, <1>3 DEF Undisturbed
      <3>2. v # t => (Undisturbed(call[v]) => Undisturbed(call[v])')
        BY <1>2, <1>3 DEF Undisturbed
      <3> QED
        BY <3>1, <3>2, <1>2 DEF Moves
    <2>7. \A v \in Threads :
             \/ Undisturbed(call[v])'
             \/ /\ ~Undisturbed(call[v])
                /\ Overtaken' \ Pending(call'[v])
                      \subseteq Lacking \cup (Overtaken \ Pending(call[v]))
      BY <2>4, <2>6
    <2>8. KeptInv /\ up /\ up' /\ faults' = faults
      BY <1>3 DEF IInv, Moves
    <2> QED
      BY <2>4, <2>5, <2>7, <2>8, <1>1, KeptOnwards
  <1> QED
    BY <1>5, <1>6, <1>7, <1>8 DEF IInv

-----------------------------------------------------------------------------
(* The steps of a thread that move.                                        *)

\* What every step begins with.
LEMMA Facts ==
    ASSUME IInv, NEW t \in Threads
    PROVE  /\ call \in [Threads -> CallType]
           /\ call[t] \in CallType /\ CallInv(call[t])
           /\ {chain, final, at} \subseteq Block /\ Genesis \in database
           /\ cache \subseteq Block /\ database \subseteq Block
           /\ faults \in Nat /\ CacheSize \in Nat \ {0} /\ MaxFaults \in Nat
           /\ Genesis \in Block
           /\ \A b \in Block : /\ IsAncestor(b, b) /\ IsAncestor(Genesis, b)
                               /\ Number(b) \in Nat
  <1>1. \A b \in Block : /\ IsAncestor(b, b) /\ IsAncestor(Genesis, b)
                         /\ Number(b) \in Nat
    BY AncestorReflexive, LenProperties, EmptySeq DEF Block, Number, IsAncestor, Genesis
  <1>2. Genesis \in Block
    BY EmptySeq DEF Block, Genesis
  <1> QED
    BY <1>1, <1>2, StoreAssumption DEF IInv, TypeOK, CallsInv, CallType

\* A call at rest, and the entry of the loop.
LEMMA CallsBegin ==
    ASSUME NEW kind \in {"none", "ensure", "enter", "get", "add"}, NEW id \in Block,
           NEW pc \in {"idle", "lookup", "ensure"},
           kind = "none" <=> pc = "idle", kind # "add", kind = "ensure" => pc # "lookup",
           IsAncestor(id, id), kind \in {"get", "enter"} => pc = "lookup"
    PROVE  /\ Call(kind, id, pc) \in CallType /\ CallInv(Call(kind, id, pc))
           /\ Base(Call(kind, id, pc)) = {} /\ Pending(Call(kind, id, pc)) = {}
           /\ InCache(Call(kind, id, pc)) /\ Undisturbed(Call(kind, id, pc))
  BY DEF Call, CallType, CallInv, Base, Pending, InCache, Undisturbed, Walking, Making

\* The call returns: the loop goes on from the snapshot of its id.
LEMMA ReturnKeeps ==
    ASSUME IInv, NEW t \in Threads, up, Return(t), Reads,
           call[t].kind # "ensure" => call[t].id \in cache \cup database \cup Base(call[t]),
           Pending(call[t]) = {}
    PROVE  IInv'
  <1>1. CASE call[t].kind = "ensure"
    <2>1. Moves(t, Entry)
      BY <1>1, Facts, CallsBegin DEF Moves, Entry, Return
    <2> QED
      BY <2>1, MovesKeeps
  <1>2. CASE call[t].kind # "ensure"
    <2>1. Moves(t, Idle)
      <3>1. call' = [call EXCEPT ![t] = Idle] /\ at' \in {at, call[t].id}
        BY <1>2 DEF Return
      <3>2. Idle \in CallType /\ CallInv(Idle) /\ Base(Idle) = {} /\ Pending(Idle) = {}
            /\ InCache(Idle) /\ Undisturbed(Idle)
        BY Facts, CallsBegin DEF Idle
      <3> QED
        BY ONLY <3>1, <3>2, <1>2, up, Reads, Pending(call[t]) = {},
           call[t].kind # "ensure" => call[t].id \in cache \cup database \cup Base(call[t])
           DEF Moves
    <2> QED
      BY <2>1, MovesKeeps
  <1> QED
    BY <1>1, <1>2

\* The call goes to another point of its walk.
LEMMA GotoKeeps ==
    ASSUME IInv, NEW t \in Threads, up, Reads, at' = at,
           NEW pc \in {"database", "ensure", "contains", "take", "stored", "fetch",
                       "apply", "found", "made"},
           Goto(t, pc), Pending(call[t]) = {}, call[t].kind # "none",
           CallInv([call[t] EXCEPT !.pc = pc]),
           pc = "apply" => call[t].cur \in cache \cup database,
           InCache(call[t]) => InCache([call[t] EXCEPT !.pc = pc]),
           Undisturbed(call[t]) => Undisturbed([call[t] EXCEPT !.pc = pc])
    PROVE  IInv'
  <1> DEFINE c == [call[t] EXCEPT !.pc = pc]
  <1>1. c \in CallType /\ call' = [call EXCEPT ![t] = c] /\ c.pc = pc /\ c.cur = call[t].cur
    BY Facts DEF Goto, CallType
  <1>2. Base(c) \subseteq cache \cup database /\ Pending(c) = {}
    BY <1>1 DEF Base, Pending
  <1>3. CallInv(c) /\ (InCache(call[t]) => InCache(c)) /\ (Undisturbed(call[t]) => Undisturbed(c))
    OBVIOUS
  <1> HIDE DEF c
  <1>4. Moves(t, c)
    BY <1>1, <1>2, <1>3 DEF Moves
  <1> QED
    BY <1>4, MovesKeeps

\* The steps of a call that read.
LEMMA ReadsKeep ==
    ASSUME IInv, NEW t \in Threads,
           \/ Lookup(t) \/ Load(t) \/ Ensure(t) \/ Contains(t) \/ Consult(t) \/ Fetch(t)
           \/ Applied(t) \/ (Take(t) /\ ~Panic(t)) \/ (Result(t) /\ ~Panic(t))
    PROVE  IInv'
  <1> DEFINE k == call[t]
  <1>1. k \in CallType /\ CallInv(k)
    BY Facts
  <1> USE DEF At, CallInv, InCache, Undisturbed, Walking, Making
  <1>2. CASE Lookup(t)
    <2>1. up /\ Reads /\ k.pc = "lookup" /\ Pending(k) = {}
      BY <1>2 DEF Lookup, Pending
    <2>2. CASE k.id \in cache
      BY <2>1, <2>2, <1>2, ReturnKeeps DEF Lookup
    <2>3. CASE k.id \notin cache
      <3>1. Goto(t, "database") /\ at' = at
        BY <2>3, <1>2 DEF Lookup
      <3> QED
        BY <2>1, <3>1, <1>1, GotoKeeps DEF CallType
    <2> QED
      BY <2>2, <2>3
  <1>3. CASE Load(t)
    <2>1. up /\ Reads /\ k.pc = "database" /\ Pending(k) = {}
      BY <1>3 DEF Load, Pending
    <2>2. CASE k.id \in database
      BY <2>1, <2>2, <1>3, ReturnKeeps DEF Load
    <2>3. CASE k.id \notin database
      <3>1. Goto(t, "ensure") /\ at' = at
        BY <2>3, <1>3 DEF Load
      <3> QED
        BY <2>1, <2>3, <3>1, <1>1, GotoKeeps DEF CallType
    <2> QED
      BY <2>2, <2>3
  <1>4. CASE Ensure(t)
    <2>1. up /\ Reads /\ k.pc = "ensure" /\ Pending(k) = {} /\ at' = at
      BY <1>4 DEF Ensure, Pending
    <2>2. \/ Goto(t, "found") /\ k.id \in cache
          \/ Goto(t, "contains")
      BY <1>4 DEF Ensure
    <2> QED
      BY <2>1, <2>2, <1>1, GotoKeeps DEF CallType
  <1>5. CASE Contains(t)
    <2>1. up /\ Reads /\ k.pc = "contains" /\ Pending(k) = {} /\ at' = at
      BY <1>5 DEF Contains, Pending
    <2>2. \/ Goto(t, "take") /\ k.cur \in cache
          \/ Goto(t, "stored")
      BY <1>5 DEF Contains
    <2> QED
      BY <2>1, <2>2, <1>1, GotoKeeps DEF CallType
  <1>6. CASE Consult(t)
    <2>1. up /\ Reads /\ k.pc = "stored" /\ Pending(k) = {} /\ at' = at
      BY <1>6 DEF Consult, Pending
    <2>2. \/ Goto(t, "apply") /\ k.cur \in database
          \/ Goto(t, "fetch") /\ k.cur # Genesis
      BY <1>6, Facts DEF Consult
    <2> QED
      BY <2>1, <2>2, <1>1, GotoKeeps DEF CallType
  <1>7. CASE Take(t) /\ ~Panic(t)
    <2>1. up /\ Reads /\ k.pc = "take" /\ Pending(k) = {} /\ at' = at
          /\ Goto(t, "apply") /\ k.cur \in cache
      BY <1>7 DEF Take, Pending
    <2> QED
      BY <2>1, <1>1, GotoKeeps DEF CallType
  <1>8. CASE Applied(t)
    <2>1. up /\ Reads /\ k.pc = "apply" /\ Pending(k) = {} /\ k.cur = k.id /\ k.id \in Base(k)
      BY <1>8 DEF Applied, Pending, Base
    <2>2. CASE k.kind \in {"add", "ensure"}
      BY <2>1, <2>2, <1>8, ReturnKeeps DEF Applied
    <2>3. CASE k.kind \notin {"add", "ensure"}
      <3>1. Goto(t, "made") /\ at' = at
        BY <2>3, <1>8 DEF Applied
      <3> QED
        BY <2>1, <2>3, <3>1, <1>1, GotoKeeps DEF CallType
    <2> QED
      BY <2>2, <2>3
  <1>9. CASE Result(t) /\ ~Panic(t)
    <2>1. /\ up /\ Reads /\ Return(t) /\ Pending(k) = {}
          /\ k.kind = "ensure" \/ k.id \in cache
      BY <1>9 DEF Result, Pending
    <2> QED
      BY <2>1, ReturnKeeps
  <1>10. CASE Fetch(t)
    <2> DEFINE c == [k EXCEPT !.cur = Parent(k.cur), !.pc = "contains"]
    <2>1. /\ up /\ Reads /\ k.pc = "fetch" /\ Pending(k) = {} /\ at' = at
          /\ call' = [call EXCEPT ![t] = c]
      BY <1>10, Facts DEF Fetch, Pending
    <2>2. k.cur \in Block /\ k.id \in Block /\ k.cur # Genesis /\ IsAncestor(k.cur, k.id)
      BY <2>1, <1>1 DEF CallType
    <2>3. Parent(k.cur) \in Block /\ IsAncestor(Parent(k.cur), k.id)
      BY <2>2, ParentOf, AncestorTransitive DEF Block
    <2>4. c \in CallType /\ c.kind = k.kind /\ c.id = k.id /\ c.pc = "contains"
          /\ c.cur = Parent(k.cur)
      BY <2>3, <1>1 DEF CallType
    <2> HIDE DEF c
    <2>5. /\ CallInv(c) /\ Base(c) = {} /\ Pending(c) = {}
          /\ InCache(k) => InCache(c)
          /\ Undisturbed(k) => Undisturbed(c)
      BY <2>1, <2>3, <2>4, <1>1 DEF Base, Pending
    <2>6. Moves(t, c)
      BY ONLY <2>1, <2>4, <2>5 DEF Moves
    <2> QED
      BY <2>6, MovesKeeps
  <1> QED
    BY <1>2, <1>3, <1>4, <1>5, <1>6, <1>7, <1>8, <1>9, <1>10

-----------------------------------------------------------------------------
(* The steps that make a snapshot, store it, fail or stop.                 *)

\* An entry is added and the cache keeps its size.  If it is not full after
\* that, nothing was evicted.
LEMMA PutKeepsSize ==
    ASSUME IsFiniteSet(cache), Cardinality(cache) <= CacheSize, CacheSize \in Nat \ {0},
           NEW b, NEW kept \in Put(b)
    PROVE  /\ IsFiniteSet(kept) /\ Cardinality(kept) <= CacheSize
           /\ b \in kept /\ kept \subseteq cache \cup {b}
           /\ Cardinality(kept) < CacheSize =>
                 cache \subseteq kept /\ Cardinality(cache) < CacheSize
  <1>1. Cardinality(cache) \in Nat
    BY FS_CardinalityType
  <1>2. CASE b \in cache \/ Cardinality(cache) < CacheSize
    <2>1. kept = cache \cup {b}
      BY <1>2 DEF Put
    <2>2. /\ IsFiniteSet(kept)
          /\ Cardinality(kept) = IF b \in cache THEN Cardinality(cache) ELSE Cardinality(cache) + 1
      BY <2>1, FS_AddElement
    <2> QED
      BY <1>1, <1>2, <2>1, <2>2
  <1>3. CASE ~(b \in cache \/ Cardinality(cache) < CacheSize)
    <2>1. PICK old \in cache : kept = (cache \ {old}) \cup {b}
      BY <1>3 DEF Put
    <2>2. IsFiniteSet(cache \ {old}) /\ Cardinality(cache \ {old}) = Cardinality(cache) - 1
      BY <2>1, FS_RemoveElement
    <2>3. IsFiniteSet(kept) /\ Cardinality(kept) = Cardinality(cache \ {old}) + 1
      BY <1>3, <2>1, <2>2, FS_AddElement
    <2> QED
      BY <1>1, <1>3, <2>1, <2>2, <2>3
  <1> QED
    BY <1>2, <1>3

\* A snapshot is made: if it is a checkpoint, it is being written.  Where the
\* call was undisturbed it still is; otherwise the block it asks for is in the
\* database, so that what it had come to was overtaken before.  The other
\* thread may lose what it needs, but this one was not writing.
LEMMA ApplyKeeps ==
    ASSUME IInv, NEW t \in Threads, Apply(t)
    PROVE  IInv'
  <1> DEFINE k == call[t]
             u == Other(t)
             next == AncestorAt(k.id, Number(k.cur) + 1)
             c == [k EXCEPT !.cur = next,
                            !.pc = IF IsCheckpoint(k, next) THEN "store" ELSE "apply"]
  <1>1. /\ k \in CallType /\ CallInv(k) /\ k.pc = "apply" /\ k.cur # k.id
        /\ up /\ up' = up /\ faults' = faults /\ at' = at /\ database' = database
        /\ panicked' = panicked /\ chain' = chain /\ final' = final /\ reorgs' = reorgs
        /\ cache' \in Put(next)
        /\ call' = [call EXCEPT ![t] = c]
    BY Facts DEF Apply, At, node
  <1>2. k.cur \in Block /\ k.id \in Block /\ IsAncestor(k.cur, k.id)
    BY <1>1 DEF CallType, CallInv
  <1>3. /\ next \in Block /\ IsAncestor(next, k.id)
        /\ CheckpointsOf(next) \subseteq CheckpointsOf(k.cur) \cup {next}
        /\ Number(next) % Checkpoint # 0 => CheckpointsOf(next) \subseteq CheckpointsOf(k.cur)
        /\ CheckpointsOf(k.cur) \subseteq CheckpointsOf(k.id) \ {k.id}
    BY <1>1, <1>2, CheckpointsAbove
  <1>4. /\ c \in CallType /\ c.kind = k.kind /\ c.id = k.id /\ c.cur = next
        /\ c.pc \in {"store", "apply"}
        /\ c.pc = "apply" => Number(next) % Checkpoint # 0
    BY <1>1, <1>3 DEF CallType, IsCheckpoint
  <1> HIDE DEF c, next
  <1>5. /\ call'[t] = c
        /\ \A v \in Threads \ {t} : call'[v] = call[v]
        /\ call' \in [Threads -> CallType]
    BY <1>1, <1>4, Facts
  <1>6. /\ IsFiniteSet(cache') /\ Cardinality(cache') <= CacheSize
        /\ next \in cache' /\ cache' \subseteq cache \cup {next}
        /\ Cardinality(cache') < CacheSize =>
              cache \subseteq cache' /\ Cardinality(cache) < CacheSize
    BY <1>1, PutKeepsSize, StoreAssumption DEF IInv, TypeOK, EvictInv
  <1>7. TypeOK'
    BY <1>1, <1>3, <1>5, <1>6 DEF IInv, TypeOK, CallType
  <1>8. CallsInv'
    <2>1. CallInv(c)
      BY <1>1, <1>3, <1>4 DEF CallInv
    <2> QED
      BY <2>1, <1>1, <1>5 DEF IInv, CallsInv
  <1>9. EvictInv'
    <2>1. ASSUME Cardinality(cache') < CacheSize, NEW v \in Threads
          PROVE  InCache(call[v])'
      <3>1. InCache(call[v]) /\ InCache(k) /\ cache \subseteq cache'
        BY <2>1, <1>6 DEF IInv, EvictInv
      <3>2. v # t => InCache(call[v])'
        BY <3>1, <1>1, <1>5 DEF InCache
      <3>3. InCache(call[t])'
        BY <3>1, <1>1, <1>4, <1>5, <1>6 DEF InCache, Making
      <3> QED
        BY <3>2, <3>3
    <2>2. ~panicked
      BY <1>1 DEF IInv, EvictInv
    <2> QED
      BY <2>1, <2>2, <1>1, <1>6 DEF IInv, EvictInv, PanicNeedsFullCache
  <1>10. KeptInv'
    <2>1. u \in Threads /\ u # t /\ \A v \in Threads : v = t \/ v = u
      BY TwoThreads
    <2>2. call'[u] = call[u]
      BY <1>5, <2>1
    <2>3. Using' \subseteq Using \cup {next} /\ k.cur \in Using
      <3>1. Base(c) \subseteq {next} /\ Base(k) = {k.cur}
        BY <1>1, <1>4 DEF Base
      <3> QED
        BY <3>1, <1>1, <1>5, <1>6, <2>2, TwoThreads
    <2>4. PendingAll = Pending(call[u]) /\ PendingAll' = Pending(call[u]) \cup Pending(c)
      <3>1. Pending(k) = {}
        BY <1>1 DEF Pending
      <3>2. /\ PendingAll = Pending(k) \cup Pending(call[u])
            /\ PendingAll' = Pending(call'[t]) \cup Pending(call'[u])
        BY TwoThreads
      <3> QED
        BY ONLY <3>1, <3>2, <1>5, <2>2, Zenon
    <2>5. /\ Below(Using') \subseteq Below(Using) \cup CheckpointsOf(next)
          /\ Beneath(Using') \subseteq Beneath(Using) \cup (CheckpointsOf(next) \ {next})
          /\ CheckpointsOf(k.cur) \subseteq Below(Using)
          /\ Beneath(Using) \subseteq Below(Using)
      <3>1. /\ Below(Using') \subseteq Below(Using \cup {next})
            /\ Beneath(Using') \subseteq Beneath(Using \cup {next})
        BY <2>3, BelowGrows
      <3>2. /\ Below(Using \cup {next}) = Below(Using) \cup Below({next})
            /\ Beneath(Using \cup {next}) = Beneath(Using) \cup Beneath({next})
        BY BelowGrows
      <3>3. Below({next}) = CheckpointsOf(next) /\ Beneath({next}) = CheckpointsOf(next) \ {next}
        BY DEF Below, Beneath
      <3>4. CheckpointsOf(k.cur) \subseteq Below(Using)
        BY <2>3 DEF Below
      <3> QED
        BY <3>1, <3>2, <3>3, <3>4, BelowGrows
    <2>6. Below(Using') \subseteq Below(Using) \cup Pending(c)
      BY <2>5, <1>3, <1>4 DEF Pending
    <2>7. Lacking' \subseteq Lacking
      BY <2>4, <2>6, <1>1 DEF Lacking
    <2>8. Overtaken' \subseteq Overtaken \cup (CheckpointsOf(k.cur) \ database)
      BY <2>5, <1>1, <1>3 DEF Overtaken
    <2>9. Overtaken' \subseteq Lacking \cup Pending(call[u])
      BY <2>4, <2>5, <2>8, <1>1 DEF Lacking, Overtaken
    <2>10. faults \in Nat /\ Few(Lacking, faults) /\ KeptInv /\ up
      BY <1>1, Facts DEF IInv, KeptInv
    <2>11. Few(Lacking' \cup Overtaken', faults + 1)
      <3>1. Lacking' \cup Overtaken' \subseteq Lacking \cup Pending(call[u])
        BY <2>7, <2>9
      <3> QED
        BY ONLY <3>1, <2>10, FewMore
    <2>12. Few(Lacking' \cup (Overtaken' \ Pending(call'[u])), faults)
      <3>1. Lacking' \cup (Overtaken' \ Pending(call'[u])) \subseteq Lacking
        BY <2>2, <2>7, <2>9
      <3> QED
        BY ONLY <3>1, <2>10, FewSubset
    <2>13. Undisturbed(k) => Undisturbed(call[t])'
      <3>1. Undisturbed(k) /\ k.kind \in {"get", "enter"} => k.id \notin database
        BY <1>1 DEF Undisturbed, Making
      <3> QED
        BY <3>1, <1>1, <1>4, <1>5, <1>6 DEF Undisturbed, Walking, Making
    <2>14. ASSUME ~Undisturbed(k)
           PROVE  Overtaken' \ Pending(call'[t]) \subseteq Lacking \cup (Overtaken \ Pending(k))
      <3>1. k.id \in database /\ Pending(k) = {}
        BY <2>14, <1>1 DEF Undisturbed, Walking, Making, Pending
      <3>2. k.id \in Using
        BY <3>1, TwoThreads
      <3>3. CheckpointsOf(k.cur) \subseteq Beneath(Using)
        BY <3>2, <1>3 DEF Beneath
      <3> QED
        BY <3>1, <3>3, <2>8 DEF Overtaken
    <2> QED
      BY <2>1, <2>7, <2>10, <2>11, <2>12, <2>13, <2>14, <1>1, KeptOnwards
  <1> QED
    BY <1>7, <1>8, <1>9, <1>10 DEF IInv

\* A checkpoint is stored.
LEMMA StoreKeeps ==
    ASSUME IInv, NEW t \in Threads, Store(t)
    PROVE  IInv'
  <1> DEFINE k == call[t]
             u == Other(t)
             c == [k EXCEPT !.pc = "apply"]
  <1>1. /\ k \in CallType /\ CallInv(k) /\ k.pc = "store"
        /\ up /\ up' = up /\ faults' = faults /\ at' = at /\ cache' = cache
        /\ panicked' = panicked /\ chain' = chain /\ final' = final /\ reorgs' = reorgs
        /\ database' = database \cup {k.cur}
        /\ call' = [call EXCEPT ![t] = c]
    BY Facts DEF Store, At, node, Goto
  <1>2. /\ c \in CallType /\ c.kind = k.kind /\ c.id = k.id /\ c.cur = k.cur
        /\ c.pc = "apply" /\ k.cur \in Block
    BY <1>1 DEF CallType
  <1> HIDE DEF c
  <1>3. /\ call'[t] = c
        /\ \A v \in Threads \ {t} : call'[v] = call[v]
        /\ call' \in [Threads -> CallType]
    BY <1>1, <1>2, Facts
  <1>4. TypeOK'
    BY <1>1, <1>2, <1>3 DEF IInv, TypeOK, CallType
  <1>5. CallsInv'
    <2>1. CallInv(c)
      BY <1>1, <1>2 DEF CallInv
    <2> QED
      BY <2>1, <1>1, <1>3 DEF IInv, CallsInv
  <1>6. EvictInv'
    <2>1. ASSUME Cardinality(cache) < CacheSize, NEW v \in Threads
          PROVE  InCache(call[v])'
      <3>1. InCache(call[v]) /\ InCache(k) /\ k.cur \in cache
        BY <2>1, <1>1 DEF IInv, EvictInv, InCache
      <3>2. v # t => InCache(call[v])'
        BY <3>1, <1>1, <1>3 DEF InCache
      <3>3. InCache(call[t])'
        BY <3>1, <1>1, <1>2, <1>3 DEF InCache, Making, Walking
      <3> QED
        BY <3>2, <3>3
    <2> QED
      BY <2>1, <1>1 DEF IInv, EvictInv, PanicNeedsFullCache
  <1>7. KeptInv'
    <2>1. u \in Threads /\ u # t /\ \A v \in Threads : v = t \/ v = u
      BY TwoThreads
    <2>2. call'[u] = call[u]
      BY <1>3, <2>1
    <2>3. Base(c) = {k.cur} /\ Base(k) = {k.cur} /\ Pending(c) = {} /\ Pending(k) = {k.cur}
      BY <1>1, <1>2 DEF Base, Pending
    <2>4. Using' = Using
      BY <1>1, <1>3, <2>2, <2>3, TwoThreads
    <2>5. PendingAll = Pending(call[u]) \cup {k.cur} /\ PendingAll' = Pending(call[u])
      BY <1>3, <2>2, <2>3, TwoThreads
    <2>6. Lacking' \subseteq Lacking /\ Overtaken' = Overtaken \ {k.cur}
      BY <2>4, <2>5, <1>1 DEF Lacking, Overtaken
    <2>7. Overtaken' \ Pending(call'[u]) \subseteq Lacking'
      <3>1. Beneath(Using') \subseteq Below(Using')
        BY BelowGrows
      <3> QED
        BY <3>1, <2>2, <2>5 DEF Lacking, Overtaken
    <2>8. /\ faults \in Nat /\ faults + 1 \in Nat /\ KeptInv /\ up
          /\ Few(Lacking, faults) /\ Few(Lacking \cup Overtaken, faults + 1)
      BY <1>1, Facts DEF IInv, KeptInv
    <2>9. Few(Lacking' \cup Overtaken', faults + 1)
      <3>1. Lacking' \cup Overtaken' \subseteq Lacking \cup Overtaken
        BY <2>6
      <3> QED
        BY ONLY <3>1, <2>8, FewSubset
    <2>10. Few(Lacking' \cup (Overtaken' \ Pending(call'[u])), faults)
      <3>1. Lacking' \cup (Overtaken' \ Pending(call'[u])) \subseteq Lacking
        BY <2>6, <2>7
      <3> QED
        BY ONLY <3>1, <2>8, FewSubset
    <2>11. Undisturbed(k) => Undisturbed(call[t])'
      BY <1>1, <1>2, <1>3 DEF Undisturbed, Walking, Making
    <2>12. Overtaken' \ Pending(call'[t]) \subseteq Lacking \cup (Overtaken \ Pending(k))
      BY <1>3, <2>3, <2>6
    <2> QED
      BY <2>1, <2>6, <2>8, <2>9, <2>10, <2>11, <2>12, <1>1, KeptOnwards
  <1> QED
    BY <1>4, <1>5, <1>6, <1>7 DEF IInv

\* The process stops, with one more failure or because a call was disturbed.
LEMMA StopKeeps ==
    ASSUME IInv, up, up' = FALSE, UNCHANGED <<node, cache, database, at, call>>,
           \/ faults' = faults + 1 /\ faults < MaxFaults /\ panicked' = panicked
           \/ /\ faults' = faults /\ panicked' = TRUE
              /\ Cardinality(cache) = CacheSize
              /\ \E t \in Threads : ~Undisturbed(call[t]) /\ Pending(call[t]) = {}
    PROVE  IInv'
  <1>1. /\ faults \in Nat /\ faults' \in Nat /\ faults + 1 \in Nat /\ KeptInv /\ IInv
        /\ faults' \in 0 .. MaxFaults
    BY Facts, StoreAssumption DEF IInv, TypeOK, Threads
  <1>2. /\ chain' = chain /\ final' = final /\ reorgs' = reorgs
        /\ cache' = cache /\ database' = database /\ at' = at /\ call' = call
    BY DEF node
  <1>3. TypeOK'
    BY <1>1, <1>2 DEF IInv, TypeOK
  <1>4. CallsInv' /\ EvictInv'
    BY <1>2 DEF IInv, CallsInv, EvictInv, PanicNeedsFullCache, InCache
  <1>5. Using' = Using /\ PendingAll' = PendingAll
    BY <1>2 DEF Using, PendingAll
  <1>6. Lacking' = Lacking
    BY <1>2, <1>5 DEF Lacking
  <1>7. Below(database) \ database \subseteq Overtaken
    <2>1. database \subseteq Using
      BY DEF Using
    <2>2. Beneath(database) \subseteq Beneath(Using)
      BY <2>1, BelowGrows
    <2>3. Below(database) \subseteq Beneath(database) \cup database
      BY BelowGrows
    <2> QED
      BY <2>2, <2>3 DEF Overtaken
  <1>8. Few(Lacking, faults') /\ Few(Below(database) \ database, faults')
    <2>1. CASE faults' = faults + 1
      <3>1. Few(Lacking \cup Overtaken, faults + 1)
        BY DEF IInv, KeptInv
      <3>2. Lacking \subseteq Lacking \cup Overtaken
            /\ Below(database) \ database \subseteq Lacking \cup Overtaken
        BY <1>7
      <3> QED
        BY ONLY <3>1, <3>2, <2>1, <1>1, FewSubset
    <2>2. CASE faults' = faults
      <3>1. PICK t \in Threads : ~Undisturbed(call[t]) /\ Pending(call[t]) = {}
        BY <2>2, <1>1
      <3>2. Few(Lacking \cup (Overtaken \ Pending(call[t])), faults)
        BY <3>1 DEF IInv, KeptInv
      <3>3. Lacking \subseteq Lacking \cup (Overtaken \ Pending(call[t]))
            /\ Below(database) \ database \subseteq Lacking \cup (Overtaken \ Pending(call[t]))
        BY <3>1, <1>7
      <3> QED
        BY ONLY <3>2, <3>3, <2>2, <1>1, FewSubset
    <2> QED
      BY <2>1, <2>2
  <1>9. KeptInv'
    BY <1>2, <1>6, <1>8 DEF KeptInv
  <1> QED
    BY <1>3, <1>4, <1>9 DEF IInv

\* The two ways to panic: what was in the cache a moment ago is not.
LEMMA PanicKeeps ==
    ASSUME IInv, NEW t \in Threads, Take(t) \/ Result(t), Panic(t)
    PROVE  IInv'
  <1> DEFINE k == call[t]
  <1>1. k \in CallType /\ CallInv(k)
    BY Facts
  <1>2. /\ up
        /\ \/ k.pc = "take" /\ k.cur \notin cache
           \/ k.pc \in {"found", "made"} /\ k.id \notin cache /\ k.kind # "ensure"
    <2>1. CASE Take(t)
      <3>1. k.cur \in cache => up' = up
        BY <2>1 DEF Take, Reads
      <3> QED
        BY <2>1, <3>1 DEF Take, At, Panic
    <2>2. CASE Result(t)
      <3>1. k.kind = "ensure" \/ k.id \in cache => up' = up
        BY <2>2 DEF Result, Reads
      <3> QED
        BY <2>2, <3>1 DEF Result, At, Panic
    <2> QED
      BY <2>1, <2>2
  <1>3. k.pc = "made" => k.cur = k.id /\ k.kind \in {"get", "enter"}
    BY <1>1, <1>2 DEF CallInv, CallType
  <1>4. ~Undisturbed(k) /\ ~InCache(k) /\ Pending(k) = {}
    BY <1>2, <1>3 DEF Undisturbed, InCache, Making, Walking, Pending
  <1>5. Cardinality(cache) = CacheSize
    <2>1. ~(Cardinality(cache) < CacheSize) /\ Cardinality(cache) <= CacheSize
      BY <1>4 DEF IInv, EvictInv, TypeOK
    <2>2. Cardinality(cache) \in Nat
      BY FS_CardinalityType DEF IInv, EvictInv
    <2> QED
      BY <2>1, <2>2, Facts
  <1> QED
    BY <1>2, <1>4, <1>5, StopKeeps DEF Panic

\* A call that fails is given up, with what it was writing.
LEMMA GiveUpKeeps ==
    ASSUME IInv, NEW t \in Threads, up, faults < MaxFaults, faults' = faults + 1,
           UNCHANGED <<node, cache, database, at, up, panicked>>,
           NEW c \in {Idle, Entry}, call' = [call EXCEPT ![t] = c]
    PROVE  IInv'
  <1> DEFINE k == call[t]
             u == Other(t)
  <1>1. /\ chain' = chain /\ final' = final /\ reorgs' = reorgs /\ panicked' = panicked
        /\ cache' = cache /\ database' = database /\ at' = at /\ up' = up
    BY DEF node
  <1>2. /\ c \in CallType /\ CallInv(c) /\ Base(c) = {} /\ Pending(c) = {}
        /\ InCache(c) /\ Undisturbed(c)
    BY Facts, CallsBegin DEF Idle, Entry
  <1>3. /\ call'[t] = c
        /\ \A v \in Threads \ {t} : call'[v] = call[v]
        /\ call' \in [Threads -> CallType]
    BY <1>2, Facts
  <1>4. /\ faults \in Nat /\ MaxFaults \in Nat /\ faults + 1 \in Nat
        /\ faults + 1 \in 0 .. MaxFaults /\ (faults + 1) + 1 \in Nat
    BY Facts
  <1>5. TypeOK'
    BY <1>1, <1>3, <1>4 DEF IInv, TypeOK, CallType
  <1>6. CallsInv'
    BY <1>1, <1>2, <1>3 DEF IInv, CallsInv
  <1>7. EvictInv'
    <2>1. \A v \in Threads : InCache(call[v]) => InCache(call[v])'
      <3>1. InCache(call[t])'
        BY <1>1, <1>2, <1>3 DEF InCache
      <3>2. \A v \in Threads \ {t} : InCache(call[v]) => InCache(call[v])'
        BY <1>1, <1>3 DEF InCache
      <3> QED
        BY <3>1, <3>2
    <2> QED
      BY <2>1, <1>1 DEF IInv, EvictInv, PanicNeedsFullCache
  <1>8. KeptInv'
    <2>1. u \in Threads /\ u # t /\ \A v \in Threads : v = t \/ v = u
      BY TwoThreads
    <2>2. call'[u] = call[u]
      BY <1>3, <2>1
    <2>3. Using' \subseteq Using
      BY <1>1, <1>2, <1>3, <2>2, TwoThreads
    <2>4. PendingAll \subseteq PendingAll' \cup Pending(k)
      <3>1. /\ PendingAll = Pending(k) \cup Pending(call[u])
            /\ PendingAll' = Pending(call'[t]) \cup Pending(call'[u])
        BY TwoThreads
      <3> QED
        BY ONLY <3>1, <2>2, Zenon
    <2>5. Below(Using') \subseteq Below(Using) /\ Beneath(Using') \subseteq Beneath(Using)
      BY <2>3, BelowGrows
    <2>6. Lacking' \subseteq Lacking \cup Pending(k) /\ Overtaken' \subseteq Overtaken
      BY <2>4, <2>5, <1>1 DEF Lacking, Overtaken
    <2>7. /\ Few(Lacking, faults) /\ Few(Lacking \cup Overtaken, faults + 1)
          /\ \/ Undisturbed(call[u])
             \/ Few(Lacking \cup (Overtaken \ Pending(call[u])), faults)
      BY <2>1 DEF IInv, KeptInv
    <2>8. Few(Lacking', faults + 1)
      BY ONLY <2>6, <2>7, <1>4, FewMore
    <2>9. Few(Lacking' \cup Overtaken', (faults + 1) + 1)
      <3>1. Lacking' \cup Overtaken' \subseteq (Lacking \cup Overtaken) \cup Pending(k)
        BY <2>6
      <3> QED
        BY ONLY <3>1, <2>7, <1>4, FewMore
    <2>10. \/ Undisturbed(call[u])'
           \/ Few(Lacking' \cup (Overtaken' \ Pending(call'[u])), faults + 1)
      <3>1. CASE Undisturbed(call[u])
        BY <3>1, <1>1, <2>2 DEF Undisturbed
      <3>2. CASE ~Undisturbed(call[u])
        <4>1. Few(Lacking \cup (Overtaken \ Pending(call[u])), faults)
          BY <3>2, <2>7
        <4>2. Lacking' \cup (Overtaken' \ Pending(call'[u]))
                 \subseteq (Lacking \cup (Overtaken \ Pending(call[u]))) \cup Pending(k)
          BY <2>2, <2>6
        <4>3. Few(Lacking' \cup (Overtaken' \ Pending(call'[u])), faults + 1)
          BY ONLY <4>1, <4>2, <1>4, FewMore
        <4> QED
          BY <4>3
      <3> QED
        BY <3>1, <3>2
    <2>11. Undisturbed(call[t])'
      BY <1>1, <1>2, <1>3 DEF Undisturbed
    <2>12. \A v \in Threads :
              \/ Undisturbed(call[v])'
              \/ Few(Lacking' \cup (Overtaken' \ Pending(call'[v])), faults + 1)
      BY <2>1, <2>10, <2>11
    <2> QED
      BY ONLY <2>8, <2>9, <2>12, up, up' = up, faults' = faults + 1 DEF KeptInv
  <1> QED
    BY <1>5, <1>6, <1>7, <1>8 DEF IInv

\* A query or a write fails.
LEMMA FailsKeeps ==
    ASSUME IInv, NEW t \in Threads, Fails(t)
    PROVE  IInv'
  <1>1. /\ up /\ faults < MaxFaults /\ faults' = faults + 1
        /\ UNCHANGED <<node, cache, database, at, panicked>>
    BY DEF Fails
  <1>2. CASE up' = up
    <2>1. PICK c \in {Idle, Entry} : call' = [call EXCEPT ![t] = c]
      BY <1>1, <1>2 DEF Fails
    <2> QED
      BY <1>1, <1>2, <2>1, GiveUpKeeps
  <1>3. CASE up' = FALSE /\ call' = call
    BY <1>1, <1>3, StopKeeps
  <1> QED
    BY <1>2, <1>3 DEF Fails

\* The process is killed.
LEMMA CrashKeeps == ASSUME IInv, Crash PROVE IInv'
  BY StopKeeps DEF Crash

\* A new process has what the database has.
LEMMA RestartKeeps ==
    ASSUME IInv, Restart
    PROVE  IInv'
  <1>1. /\ ~up /\ up' = TRUE /\ panicked' = FALSE /\ cache' = {} /\ at' = Genesis
        /\ call' = Starting /\ database' = database /\ faults' = faults
        /\ chain' = chain /\ final' = final /\ reorgs' = reorgs
    BY DEF Restart, node
  <1>2. /\ faults \in Nat /\ faults + 1 \in Nat /\ final \in Block /\ Genesis \in Block
        /\ Genesis \in database /\ CacheSize \in Nat \ {0}
    BY Facts DEF Threads
  <1>3. \A t \in Threads : \E c \in {Call("ensure", final, "ensure"), Idle} : Starting[t] = c
    BY DEF Starting
  <1>4. \A c \in {Call("ensure", final, "ensure"), Idle} :
           /\ c \in CallType /\ CallInv(c) /\ Base(c) = {} /\ Pending(c) = {}
           /\ InCache(c) /\ Undisturbed(c)
    <2>1. IsAncestor(final, final) /\ IsAncestor(Genesis, Genesis)
      BY <1>2, Facts DEF Threads
    <2> QED
      BY <2>1, <1>2, CallsBegin DEF Idle
  <1>5. /\ call' \in [Threads -> CallType]
        /\ \A t \in Threads : /\ CallInv(call'[t]) /\ Base(call'[t]) = {} /\ Pending(call'[t]) = {}
    BY <1>1, <1>3, <1>4 DEF Starting
  <1>6. IsFiniteSet(cache') /\ Cardinality(cache') = 0
    BY <1>1, FS_EmptySet
  <1>7. TypeOK'
    <2>1. Cardinality(cache') <= CacheSize
      BY <1>2, <1>6
    <2>2. /\ {chain, final} \subseteq Block /\ database \subseteq Block
          /\ reorgs \in 0 .. MaxReorgs /\ faults \in 0 .. MaxFaults
      BY DEF IInv, TypeOK
    <2> QED
      BY <1>1, <1>2, <1>5, <2>1, <2>2 DEF TypeOK, CallType
  <1>8. CallsInv'
    BY <1>1, <1>2, <1>5 DEF CallsInv
  <1>9. \A t \in Threads : InCache(call[t])' /\ Undisturbed(call[t])'
    <2>1. \A t \in Threads : \/ call'[t] = Idle
                             \/ call'[t] = Call("ensure", final, "ensure")
      BY <1>1 DEF Starting
    <2> QED
      BY <2>1 DEF InCache, Undisturbed, Idle, Call
  <1>10. EvictInv'
    BY <1>1, <1>6, <1>9 DEF EvictInv, PanicNeedsFullCache
  <1>11. KeptInv'
    <2>1. Using' \subseteq database /\ database \subseteq Using'
      BY <1>1, <1>2, <1>5 DEF Using, Threads
    <2>2. Below(Using') \subseteq Below(database) /\ Beneath(Using') \subseteq Below(database)
      BY <2>1, BelowGrows
    <2>3. Lacking' \subseteq Below(database) \ database
          /\ Overtaken' \subseteq Below(database) \ database
      BY <2>2, <1>1 DEF Lacking, Overtaken
    <2>4. Few(Below(database) \ database, faults)
      BY <1>1 DEF IInv, KeptInv
    <2>5. Few(Lacking', faults)
      BY ONLY <2>3, <2>4, <1>2, FewSubset
    <2>6. Few(Lacking' \cup Overtaken', faults + 1)
      <3>1. Few((Below(database) \ database) \cup {Genesis}, faults + 1)
        BY ONLY <2>4, <1>2, FewAdd
      <3>2. Lacking' \cup Overtaken' \subseteq (Below(database) \ database) \cup {Genesis}
        BY <2>3
      <3> QED
        BY ONLY <3>1, <3>2, <1>2, FewSubset
    <2> QED
      BY ONLY <2>5, <2>6, <1>1, <1>9 DEF KeptInv
  <1> QED
    BY <1>7, <1>8, <1>10, <1>11 DEF IInv

-----------------------------------------------------------------------------
(* The callers and the node.                                               *)

\* A call for a snapshot begins.
LEMMA GetKeeps ==
    ASSUME IInv, NEW t \in Threads, Get(t)
    PROVE  IInv'
  <1>1. up /\ call[t] = Idle /\ at' = at /\ Reads
    BY DEF Get
  <1>2. PICK id \in Asked(t) : call' = [call EXCEPT ![t] = Call("get", id, "lookup")]
    BY DEF Get
  <1>3. id \in Block
    <2>1. \A n \in Number(final) .. Number(at) : n \in 0 .. Number(at)
      BY Facts
    <2>2. \A n \in 0 .. Number(at) : AncestorAt(at, n) \in Block
      BY Facts, AncestorOf DEF Block
    <2> QED
      BY <2>1, <2>2, Facts DEF Asked
  <1>4. /\ Call("get", id, "lookup") \in CallType /\ CallInv(Call("get", id, "lookup"))
        /\ Base(Call("get", id, "lookup")) = {} /\ Pending(Call("get", id, "lookup")) = {}
        /\ InCache(Call("get", id, "lookup")) /\ Undisturbed(Call("get", id, "lookup"))
    BY <1>3, Facts, CallsBegin
  <1>5. Pending(call[t]) = {}
    BY <1>1 DEF Idle, Call, Pending
  <1>6. Moves(t, Call("get", id, "lookup"))
    BY ONLY <1>1, <1>2, <1>4, <1>5 DEF Moves
  <1> QED
    BY <1>6, MovesKeeps

\* The loop goes to the next head, or back to the finalized block.
LEMMA FollowKeeps ==
    ASSUME IInv, Follow
    PROVE  IInv'
  <1> DEFINE head == AncestorAt(chain, Number(at) + 1)
             c == [Call("add", head, "apply") EXCEPT !.cur = at]
  <1>1. /\ up /\ call["loop"] = Idle /\ at' = at /\ Reads /\ Number(at) < Len(chain)
        /\ call' = [call EXCEPT !["loop"] = IF Parent(head) = at THEN c ELSE Entry]
    BY DEF Follow
  <1>2. "loop" \in Threads /\ Pending(call["loop"]) = {}
    BY <1>1 DEF Threads, Idle, Call, Pending
  <1>3. CASE Parent(head) = at
    <2>1. head \in Block /\ head # Genesis
      <3>1. Number(at) + 1 \in 0 .. Number(chain) /\ Number(at) \in Nat
        BY <1>1, <1>2, Facts DEF Number
      <3> QED
        BY <3>1, <1>2, Facts, AncestorOf DEF Block, Number, Genesis
    <2>2. IsAncestor(at, head) /\ at \in Block
      BY <2>1, <1>2, <1>3, Facts, ParentOf DEF Block
    <2> HIDE DEF head
    <2>3. /\ c \in CallType /\ c.kind = "add" /\ c.id = head /\ c.cur = at /\ c.pc = "apply"
      BY <2>1, <2>2 DEF CallType, Call
    <2> HIDE DEF c
    <2>4. /\ CallInv(c) /\ Base(c) = {at} /\ Pending(c) = {}
          /\ InCache(c) /\ Undisturbed(c)
      BY <2>2, <2>3 DEF CallInv, Base, Pending, InCache, Undisturbed
    <2>5. call' = [call EXCEPT !["loop"] = c]
      BY <1>1, <1>3
    <2>6. Moves("loop", c)
      BY ONLY <1>1, <1>2, <2>3, <2>4, <2>5 DEF Moves
    <2> QED
      BY <1>2, <2>6, MovesKeeps
  <1>4. CASE Parent(head) # at
    <2>1. /\ Entry \in CallType /\ CallInv(Entry) /\ Base(Entry) = {} /\ Pending(Entry) = {}
          /\ InCache(Entry) /\ Undisturbed(Entry)
      BY <1>2, Facts, CallsBegin DEF Entry
    <2>2. Moves("loop", Entry)
      BY ONLY <1>1, <1>2, <1>4, <2>1 DEF Moves
    <2> QED
      BY <1>2, <2>2, MovesKeeps
  <1> QED
    BY <1>3, <1>4

\* The chain of the node.
LEMMA NodeKeeps ==
    ASSUME IInv, Mine \/ Reorg \/ Finalize
    PROVE  IInv'
  <1>1. /\ cache' = cache /\ database' = database /\ at' = at /\ call' = call /\ up' = up
        /\ panicked' = panicked /\ faults' = faults
    BY DEF Mine, Reorg, Finalize, StoreStays
  <1>2. /\ chain \in Block /\ final \in Block /\ Number(final) \in Nat /\ Len(chain) \in Nat
        /\ reorgs \in 0 .. MaxReorgs /\ MaxReorgs \in Nat
    BY Facts, StoreAssumption DEF Threads, IInv, TypeOK, Number
  <1>3. \A n \in 0 .. Len(chain) : AncestorAt(chain, n) \in Block
    BY <1>2, AncestorOf DEF Block, Number
  <1>4. chain' \in Block /\ final' \in Block /\ reorgs' \in 0 .. MaxReorgs
    <2>1. CASE Mine
      BY <2>1, <1>2 DEF Mine, Block
    <2>2. CASE Reorg
      <3>1. PICK n \in Number(final) .. Len(chain) - 1 : chain' = AncestorAt(chain, n)
        BY <2>2 DEF Reorg
      <3>2. n \in 0 .. Len(chain)
        BY <1>2, <3>1
      <3> QED
        BY <2>2, <3>1, <3>2, <1>2, <1>3 DEF Reorg
    <2>3. CASE Finalize
      <3>1. PICK n \in Number(final) + 1 .. Len(chain) : final' = AncestorAt(chain, n)
        BY <2>3 DEF Finalize
      <3>2. n \in 0 .. Len(chain)
        BY <1>2, <3>1
      <3> QED
        BY <2>3, <3>1, <3>2, <1>2, <1>3 DEF Finalize
    <2> QED
      BY <2>1, <2>2, <2>3
  <1>5. TypeOK'
    BY <1>1, <1>4 DEF IInv, TypeOK
  <1>6. CallsInv' /\ EvictInv'
    BY <1>1 DEF IInv, CallsInv, EvictInv, PanicNeedsFullCache, InCache
  <1>7. Lacking' = Lacking /\ Overtaken' = Overtaken
    BY <1>1 DEF Lacking, Overtaken, Using, PendingAll
  <1>8. KeptInv'
    BY <1>1, <1>7 DEF IInv, KeptInv, Undisturbed
  <1> QED
    BY <1>5, <1>6, <1>8 DEF IInv

-----------------------------------------------------------------------------
(* The theorems.                                                           *)

\* The invariant holds at first.
LEMMA InitIInv == Init => IInv
  <1> SUFFICES ASSUME Init PROVE IInv
    OBVIOUS
  <1> USE DEF Init
  <1>1. Genesis \in Block /\ IsAncestor(Genesis, Genesis) /\ Number(Genesis) = 0
    BY EmptySeq DEF Block, Genesis, IsAncestor, Number
  <1>2. IsFiniteSet(cache) /\ Cardinality(cache) = 0
    BY FS_EmptySet
  <1>3. \A t \in Threads : \E c \in {Call("ensure", Genesis, "ensure"), Idle} : call[t] = c
    BY DEF Starting
  <1>4. \A c \in {Call("ensure", Genesis, "ensure"), Idle} :
           /\ c \in CallType /\ CallInv(c) /\ Base(c) = {} /\ Pending(c) = {}
           /\ InCache(c) /\ Undisturbed(c)
    BY <1>1, CallsBegin DEF Idle
  <1>5. \A t \in Threads : /\ call[t] \in CallType /\ CallInv(call[t])
                           /\ Base(call[t]) = {} /\ Pending(call[t]) = {}
                           /\ InCache(call[t]) /\ Undisturbed(call[t])
    BY <1>3, <1>4
  <1>6. call \in [Threads -> CallType]
    BY <1>5 DEF Starting
  <1>7. TypeOK
    <2>1. reorgs \in 0 .. MaxReorgs /\ faults \in 0 .. MaxFaults /\ Cardinality(cache) <= CacheSize
      BY <1>2, StoreAssumption
    <2> QED
      BY <1>1, <1>6, <2>1 DEF TypeOK, CallType
  <1>8. CallsInv /\ EvictInv
    BY <1>2, <1>5 DEF CallsInv, EvictInv, PanicNeedsFullCache
  <1>9. KeptInv
    <2>1. Using = {Genesis} /\ PendingAll = {}
      BY <1>5 DEF Using, PendingAll, Threads
    <2>2. CheckpointsOf(Genesis) \subseteq {Genesis}
      <3>1. \A n \in 0 .. 0 : AncestorAt(Genesis, n) = Genesis
        <4>1. Genesis \in Seq([fork : Nat]) /\ Len(Genesis) = 0
          BY <1>1 DEF Block, Number
        <4>2. AncestorAt(Genesis, Len(Genesis)) = Genesis
          BY <4>1, AncestorAtSelf
        <4> QED
          BY ONLY <4>1, <4>2
      <3> QED
        BY <3>1, <1>1 DEF CheckpointsOf
    <2>3. Lacking = {} /\ Overtaken = {}
      BY <2>1, <2>2 DEF Lacking, Overtaken, Below, Beneath
    <2>4. Few({}, 0) /\ Few({}, 0 + 1)
      BY FS_EmptySet DEF Few
    <2> QED
      BY <2>3, <2>4, <1>5 DEF KeptInv
  <1> QED
    BY <1>7, <1>8, <1>9 DEF IInv

\* Every step keeps the invariant.
LEMMA NextIInv == IInv /\ [Next]_vars => IInv'
  <1> SUFFICES ASSUME IInv, [Next]_vars PROVE IInv'
    OBVIOUS
  <1>1. ASSUME NEW t \in Threads, Step(t)
        PROVE  IInv'
    <2>1. CASE Panic(t) /\ (Take(t) \/ Result(t))
      BY <2>1, PanicKeeps
    <2>2. CASE Apply(t)
      BY <2>2, ApplyKeeps
    <2>3. CASE Store(t)
      BY <2>3, StoreKeeps
    <2> QED
      BY <1>1, <2>1, <2>2, <2>3, ReadsKeep DEF Step
  <1>2. CASE UNCHANGED vars
    <2>1. /\ Lacking' = Lacking /\ Overtaken' = Overtaken
      BY <1>2 DEF vars, Lacking, Overtaken, Using, PendingAll
    <2> QED
      BY <1>2, <2>1 DEF vars, IInv, TypeOK, CallsInv, EvictInv, PanicNeedsFullCache, InCache,
                        KeptInv, Undisturbed
  <1> QED
    BY <1>1, <1>2, FailsKeeps, GetKeeps, FollowKeeps, CrashKeeps, RestartKeeps, NodeKeeps DEF Next

\* In every state of the store, however loop and link are interleaved and
\* wherever the process stops, the invariant holds.
THEOREM Invariance == Safe => []IInv
  <1> QED
    BY InitIInv, NextIInv, PTL DEF Safe

\* The variables keep their types, and the cache its size, with two threads
\* that add to it without a lock (snapshots.go, add).
THEOREM TypeCorrect == Safe => []TypeOK
  <1>1. IInv => TypeOK
    BY DEF IInv
  <1> QED
    BY <1>1, Invariance, PTL

\* get and ensure panic on what they have just seen or put in the cache
\* (snapshots.go:66 and 92) only when the cache is full.
THEOREM PanicSafety == Safe => []PanicNeedsFullCache
  <1>1. IInv => PanicNeedsFullCache
    BY DEF IInv, EvictInv
  <1> QED
    BY <1>1, Invariance, PTL

\* Below each snapshot in use or in store every checkpoint is in the database,
\* but for those being written and one per failure or crash (snapshots.go, add).
THEOREM CheckpointSafety == Safe => []CheckpointsKept
  <1>1. IInv => CheckpointsKept
    <2> SUFFICES ASSUME IInv PROVE CheckpointsKept
      OBVIOUS
    <2> DEFINE missing == (UNION {CheckpointsOf(b) : b \in Held}) \ (database \cup Writing)
    <2>1. Writing = PendingAll
      BY DEF Writing, PendingAll, Pending, Threads
    <2>2. Held \subseteq Using
      BY DEF Held, Using
    <2>3. missing \subseteq Lacking
      <3>1. UNION {CheckpointsOf(b) : b \in Held} \subseteq Below(Using)
        BY <2>2 DEF Below
      <3> QED
        BY <2>1, <3>1 DEF Lacking
    <2>4. Few(missing, faults)
      <3>1. Few(Lacking, faults) /\ faults \in Nat
        BY Facts DEF IInv, KeptInv, Threads
      <3> HIDE DEF missing
      <3> QED
        BY <2>3, <3>1, FewSubset
    <2> QED
      BY <2>4 DEF Few, CheckpointsKept
  <1> QED
    BY <1>1, Invariance, PTL
=============================================================================
