------------------------------ MODULE Receiver ------------------------------
(***************************************************************************)
(* The receiver (chain/bsc2/receiver.go): it follows the headers of the    *)
(* BSC node, computes their finality, caches headers and BTP messages,     *)
(* notifies the link, and builds for it the block updates and message      *)
(* proofs that go to the verifier contract (BMC) of the other chain.       *)
(*                                                                         *)
(* Five threads share its state: the watcher of Client.WatchHeader, the    *)
(* loop, the goroutine of FinalizedStatus, and the link, which builds      *)
(* relay messages; the node moves on its own.  A block body has the        *)
(* attestation of its snapshot, the sequence of the last BTP message up to *)
(* the block, and a label that tells rival forks apart.                    *)
(***************************************************************************)
EXTENDS Finality, BlockTree, SequencesExt

CONSTANTS
    CacheSize,    \* entries of the heads and msgs caches, and the window (1024)
    FeedLimit,    \* heads without a message before the link is notified (50)
    MaxHeight,    \* bound: the highest block of the node
    MaxSeq,       \* bound: BTP messages sent on the node's chain
    MaxReorgs,    \* bound: reorganisations of the node's chain
    MaxSilent,    \* bound: blocks of a chain that carry no vote
    MaxInFlight,  \* bound: relay messages sent and not yet finalized
    MaxFaults     \* bound: failed queries, dropped relay messages, restarts

ASSUME ConstantsAssumption ==
    /\ CacheSize \in Nat \ {0}
    /\ {FeedLimit, MaxHeight, MaxSeq, MaxReorgs, MaxSilent, MaxInFlight,
        MaxFaults} \subseteq Nat

VARIABLES
    chain,      \* node: the canonical head
    finalized,  \* node: the highest block finalized by votes
    reorgs,     \* node: reorganisations so far
    watch,      \* watcher: the number it wants, the head it holds
    loop,       \* loop: where it is, and its local variables
    local,      \* o.local: finalized hash, sequence, cache
    peer,       \* o.peer: the BMC status last received as finalized
    heads,      \* heads cache: number -> head
    msgs,       \* msgs cache: sequence -> block of the message
    woken,      \* the condition variable was broadcast
    told,       \* link: the receive status it was last given
    relayed,    \* link: the BMC statuses of relay messages under way
    build,      \* link: BuildBlockUpdate in progress
    panicked,   \* BuildBlockUpdate has panicked
    faults      \* failed queries, drops and restarts so far

node == <<chain, finalized, reorgs>>
link == <<told, relayed, build, panicked>>
vars == <<chain, finalized, reorgs, watch, loop, local, peer, heads, msgs,
          woken, told, relayed, build, panicked, faults>>

\* The sequence of the last message sent in b or before.
SentUpTo(b) == IF b = Genesis THEN 0 ELSE Body(b).seq

\* The sequences of the messages sent in block b.
MessagesIn(b) == SentUpTo(Parent(b)) + 1 .. SentUpTo(b)

\* MessagesByBlockHash has the hash of a block, but asks the node for the messages
\* of its number: they are those of the canonical block there, if there is one.
CanonicalAt(b) == IF Number(b) <= Len(chain) THEN AncestorAt(chain, Number(b)) ELSE Genesis

\* No head: the genesis block is never watched.
None == Genesis

-----------------------------------------------------------------------------
(* Threads as they start.                                                  *)

WatchFrom(b) == [want |-> Number(b) + 1, head |-> None]

LoopFrom(b) == [pc |-> "recv", head |-> None, snap |-> b,
                calc |-> Calculator(b, << >>), fed |-> 0,
                target |-> Genesis, cursor |-> Genesis, seq |-> 0]

NoBuild == [on |-> FALSE, tree |-> NewBlockTree(Genesis), parent |-> Genesis,
            calc |-> Calculator(Genesis, << >>), number |-> 0, count |-> 0,
            finalities |-> 0, exists |-> FALSE]

Init ==
    /\ chain = Genesis
    /\ finalized = Genesis
    /\ reorgs = 0
    /\ watch = WatchFrom(Genesis)
    /\ loop = LoopFrom(Genesis)
    /\ local = [hash |-> Genesis, seq |-> 0, cache |-> 0]
    /\ peer = [height |-> 0, tree |-> NewBlockTree(Genesis), seq |-> 0]
    /\ heads = << >>
    /\ msgs = << >>
    /\ woken = FALSE
    /\ told = [number |-> 0, seq |-> 0]
    /\ relayed = << >>
    /\ build = NoBuild
    /\ panicked = FALSE
    /\ faults = 0

-----------------------------------------------------------------------------
(* The node.                                                               *)

ReceiverStays == UNCHANGED <<watch, loop, local, peer, heads, msgs, woken,
                             link, faults>>

Silent(b) == Cardinality({n \in 1 .. Len(b) :
    AttestationOf(AncestorAt(b, n)) = AttestationOf(AncestorAt(b, n - 1))})

\* A validator seals the next block.  Two consecutive justified blocks
\* finalize the first.
Mine ==
    /\ Len(chain) < MaxHeight
    /\ \E vote \in BOOLEAN, seq \in SentUpTo(chain) .. MaxSeq :
          LET att == UpdateAttestation(AttestationOf(chain), Len(chain) + 1, vote)
          IN  /\ chain' = Append(chain,
                             [att |-> att, seq |-> seq, fork |-> reorgs])
              /\ Silent(chain') <= MaxSilent
              /\ finalized' = IF att.source > Number(finalized)
                              THEN AncestorAt(chain, att.source) ELSE finalized
    /\ UNCHANGED reorgs
    /\ ReceiverStays

\* The head is abandoned for a rival branch.  Finality is safe: no branch
\* leaves out a finalized block.
Reorg ==
    /\ reorgs < MaxReorgs
    /\ \E n \in Number(finalized) .. Len(chain) - 1 :
          chain' = AncestorAt(chain, n)
    /\ reorgs' = reorgs + 1
    /\ UNCHANGED finalized
    /\ ReceiverStays

-----------------------------------------------------------------------------
(* The watcher: hands over the headers in order of their numbers.          *)

Fetch ==
    /\ watch.head = None
    /\ watch.want <= Len(chain)
    /\ watch' = [want |-> watch.want + 1, head |-> AncestorAt(chain, watch.want)]
    /\ UNCHANGED <<node, loop, local, peer, heads, msgs, woken, link, faults>>

-----------------------------------------------------------------------------
(* The loop.                                                               *)

\* The loop takes a head; waitIfFullBuf parks it once if the head is beyond
\* the window of the caches.
Receive ==
    /\ loop.pc = "recv"
    /\ watch.head # None
    /\ watch' = [watch EXCEPT !.head = None]
    /\ loop' = [loop EXCEPT
                  !.head = watch.head,
                  !.fed = IF @ > FeedLimit THEN @ ELSE @ + 1,
                  !.pc = IF peer.height + CacheSize < Number(watch.head)
                         THEN "full" ELSE "apply"]
    /\ woken' = FALSE
    /\ UNCHANGED <<node, local, peer, heads, msgs, link, faults>>

\* Cond.Wait returns; the window is not tested again.
Resume ==
    /\ loop.pc = "full"
    /\ woken
    /\ loop' = [loop EXCEPT !.pc = "apply"]
    /\ UNCHANGED <<node, watch, local, peer, heads, msgs, woken, link, faults>>

\* Entries added to a cache.  Beyond its size others are evicted, never the
\* last one added.
Put(cache, entries) ==
    LET all == DOMAIN cache \cup DOMAIN entries
        full == [k \in all |-> IF k \in DOMAIN entries THEN entries[k] ELSE cache[k]]
    IN  IF Cardinality(all) <= CacheSize THEN {full}
        ELSE {Restrict(full, kept) :
                 kept \in {k \in kSubset(CacheSize, all) : Max(DOMAIN entries) \in k}}

\* recoverable: the loop is entered again from the peer's finalized block.
Reenter ==
    /\ loop' = LoopFrom(peer.tree.root)
    /\ watch' = WatchFrom(peer.tree.root)

\* applyAndCache fails: the head is not a child of the last one.
Inconsistent ==
    /\ loop.pc = "apply"
    /\ Parent(loop.head) # loop.snap
    /\ Reenter
    /\ UNCHANGED <<node, local, peer, heads, msgs, woken, link, faults>>

\* Faulty: the messages of a head are taken as soon as it arrives.
HarvestHead(snap, final) == snap

\* The block the local status moves to: the source of the attestation of the
\* latest finalized block, so that two finalities stand above it.
Harvest(snap, final) == AncestorAt(final, AttestationOf(final).source)

\* applyAndCache, feed, and what follows from a new finality.
Apply ==
    /\ loop.pc = "apply"
    /\ Parent(loop.head) = loop.snap
    /\ heads' \in Put(heads, [n \in {Number(loop.head)} |-> loop.head])
    /\ \E fed \in {Feed(loop.calc, loop.head)} :
       LET next == [loop EXCEPT !.snap = loop.head, !.head = None,
                                !.calc = fed.calc, !.pc = "recv"]
       IN  IF fed.finalities = << >>
           THEN loop' = next /\ UNCHANGED local
           ELSE LET final == Last(fed.finalities)
                    target == Harvest(loop.head, final)
                IN  /\ local' = [local EXCEPT !.cache = Number(final)]
                    /\ loop' = IF Number(target) <= Number(local.hash) THEN next
                               ELSE [next EXCEPT !.pc = "query", !.seq = 0,
                                        !.target = target, !.cursor = target]
    /\ UNCHANGED <<node, watch, peer, msgs, woken, link, faults>>

\* Faulty: the walk ends one block early.
WalkedShort == loop.cursor = local.hash \/ Parent(loop.cursor) = local.hash

\* The walk of queryAndCacheMessages is back at the local block.
Walked == loop.cursor = local.hash

\* queryAndCacheMessages: one block of the walk back to the local block.
QueryBlock ==
    /\ loop.pc = "query"
    /\ ~Walked
    /\ LET at == CanonicalAt(loop.cursor)
           found == MessagesIn(at)
       IN  /\ IF found = {} THEN UNCHANGED msgs
              ELSE msgs' \in Put(msgs, [s \in found |-> at])
           /\ loop' = [loop EXCEPT
                         !.seq = IF found = {} THEN @ ELSE Max(found),
                         !.cursor = Parent(@)]
    /\ UNCHANGED <<node, watch, local, peer, heads, woken, link, faults>>

\* A query fails: the loop is entered again, what was cached stays.
QueryFails ==
    /\ loop.pc = "query"
    /\ ~Walked
    /\ faults < MaxFaults
    /\ faults' = faults + 1
    /\ Reenter
    /\ UNCHANGED <<node, local, peer, heads, msgs, woken, link>>

\* Faulty: new messages alone do not make it notify the link.
NotifiesLate(seq, fed) == fed > FeedLimit

\* Whether a new local status is worth a notification.
Notifies(seq, fed) == seq # 0 \/ fed > FeedLimit

\* updateStatus, and the decision to notify the link.
UpdateStatus ==
    /\ loop.pc = "query"
    /\ Walked
    /\ local' = [local EXCEPT !.hash = loop.target,
                              !.seq = IF loop.seq # 0 THEN loop.seq ELSE @]
    /\ loop' = IF Notifies(loop.seq, loop.fed)
               THEN [loop EXCEPT !.pc = "notify", !.fed = 0]
               ELSE [loop EXCEPT !.pc = "recv"]
    /\ UNCHANGED <<node, watch, peer, heads, msgs, woken, link, faults>>

\* The link takes the status from the unbuffered channel.
Notify ==
    /\ loop.pc = "notify"
    /\ told' = [number |-> Number(local.hash), seq |-> local.seq]
    /\ loop' = [loop EXCEPT !.pc = "recv"]
    /\ UNCHANGED <<node, watch, local, peer, heads, msgs, woken, relayed,
                   build, panicked, faults>>

-----------------------------------------------------------------------------
(* FinalizedStatus: purgeAndWakeup.                                        *)

\* Faulty: messages still under way to the contract are removed too.
PurgeSent(status) ==
    /\ heads' = Restrict(heads, DOMAIN heads \ (peer.height .. status.height))
    /\ msgs' = Restrict(msgs, DOMAIN msgs \ (peer.seq .. Last(relayed).seq))
    /\ woken' = (woken \/ (peer.height * 2) \div 3 < status.height)
    /\ peer' = status

\* Removes the entries of the caches up to the status and wakes the loop.
Purge(status) ==
    /\ heads' = Restrict(heads, DOMAIN heads \ (peer.height .. status.height))
    /\ msgs' = Restrict(msgs, DOMAIN msgs \ (peer.seq .. status.seq))
    /\ woken' = (woken \/ (peer.height * 2) \div 3 < status.height)
    /\ peer' = status

\* The oldest relay message under way is final on the other chain.
FinalizedStatus ==
    /\ relayed # << >>
    /\ Purge(Head(relayed))
    /\ relayed' = Tail(relayed)
    /\ UNCHANGED <<node, watch, loop, local, told, build, panicked, faults>>

-----------------------------------------------------------------------------
(* The link: relay messages are built on the status the last one leads to. *)

View == IF relayed = << >> THEN peer ELSE Last(relayed)

Building == UNCHANGED <<node, watch, loop, local, peer, heads, msgs, woken,
                        told, faults>>

\* Faulty: the branch that the verifier has above its root is forgotten.
NextNumberOfRoot(status, canonical) == status.height + 1

\* Faulty: two numbers too low, below zero at the genesis block.
NextNumberBelow(status, canonical) == status.height + Len(canonical) - 1

\* The number of the first header of a block update.
NextNumber(status, canonical) == status.height + Len(canonical) + 1

\* BuildBlockUpdate up to its loop: selectFork follows a branch of the tree.
BuildBegin ==
    /\ ~build.on /\ ~panicked
    /\ Len(relayed) < MaxInFlight
    /\ told.number > View.height
    /\ \E tip \in Tips(View.tree) :
          LET canonical == Branch(View.tree, tip)
          IN  build' = [on |-> TRUE, tree |-> View.tree, parent |-> tip,
                        calc |-> Calculator(View.tree.root, canonical),
                        number |-> NextNumber(View, canonical),
                        count |-> 0, finalities |-> 0, exists |-> FALSE]
    /\ UNCHANGED <<relayed, panicked>>
    /\ Building

\* Faulty: one finality per header, however many blocks it finalizes.
CountOnce(finalities) == IF finalities = << >> THEN 0 ELSE 1

\* What a header adds to the height of the block update.
CountFinalities(finalities) == Len(finalities)

\* One header of the block update: it must extend the last one.
BuildHead ==
    /\ build.on
    /\ build.number <= local.cache /\ ~build.exists
    /\ build.number \in DOMAIN heads
    /\ \E fed \in {Feed(build.calc, heads[build.number])} :
       LET head == heads[build.number]
           added == Add(build.tree, head)
       IN  IF Parent(head) # build.parent \/ ~CanAdd(build.tree, head)
           THEN panicked' = TRUE /\ UNCHANGED build
           ELSE /\ build' =
                     [build EXCEPT
                        !.number = @ + 1, !.count = @ + 1, !.parent = head,
                        !.calc = fed.calc,
                        !.finalities = @ + CountFinalities(fed.finalities),
                        !.tree = IF fed.finalities = << >> THEN added
                                 ELSE Prune(added, Last(fed.finalities)),
                        !.exists = \E i \in DOMAIN fed.finalities :
                                      MessagesIn(CanonicalAt(fed.finalities[i])) # {}]
                /\ UNCHANGED panicked
    /\ UNCHANGED relayed
    /\ Building

\* The query for the messages of a finalized block fails: the update is given up,
\* and the link asks for another one.
BuildFails ==
    /\ build.on
    /\ build.number <= local.cache /\ ~build.exists
    /\ build.number \in DOMAIN heads
    /\ LET head == heads[build.number]
       IN  /\ Parent(head) = build.parent /\ CanAdd(build.tree, head)
           /\ Feed(build.calc, head).finalities # << >>
    /\ faults < MaxFaults
    /\ faults' = faults + 1
    /\ build' = NoBuild
    /\ UNCHANGED <<node, watch, loop, local, peer, heads, msgs, woken, told,
                   relayed, panicked>>

\* The link keeps the verifier status of an update encoded, and it is decoded
\* for the next one.  The size limit, a missing header, a finalized block with
\* messages or the end of the cache ends the update; without a header there is none.
BuildEnd ==
    /\ build.on
    /\ build.count > 0 \/ build.number > local.cache
                       \/ build.number \notin DOMAIN heads
    /\ \E blob \in {Encode(build.tree)} :
          relayed' = IF build.count = 0 THEN relayed
                     ELSE Append(relayed, [height |-> View.height + build.finalities,
                                           tree |-> Decode(blob), seq |-> View.seq])
    /\ build' = NoBuild
    /\ UNCHANGED panicked
    /\ Building

\* Faulty: the height the contract knows is not looked at.
ProvableAhead(upto) ==
    LET range == View.seq + 1 .. upto
    IN  /\ range \subseteq DOMAIN msgs
        /\ \A s \in range : msgs[s] = msgs[View.seq + 1]

\* The messages BuildMessageProof may pack: consecutive, of one block, and of
\* no block above the height the contract knows as final.
Provable(upto) ==
    LET range == View.seq + 1 .. upto
    IN  /\ range \subseteq DOMAIN msgs
        /\ \A s \in range : /\ Number(msgs[s]) <= View.height
                            /\ msgs[s] = msgs[View.seq + 1]

BuildMessageProof ==
    /\ ~build.on
    /\ Len(relayed) < MaxInFlight
    /\ \E upto \in View.seq + 1 .. MaxSeq :
          /\ Provable(upto)
          /\ relayed' = Append(relayed, [View EXCEPT !.seq = upto])
    /\ UNCHANGED <<build, panicked>>
    /\ Building

\* A relay message is dropped on the other chain: the link starts over from
\* the finalized status.
Drop ==
    /\ relayed # << >>
    /\ faults < MaxFaults
    /\ faults' = faults + 1
    /\ relayed' = << >>
    /\ build' = NoBuild
    /\ UNCHANGED <<node, watch, loop, local, peer, heads, msgs, woken, told,
                   panicked>>

-----------------------------------------------------------------------------

\* The process ends at any point and is started again (receiver.Start) on the
\* status of the contract, which has accepted some of the relay messages under
\* way: the caches are gone, the messages of the finalized blocks that the
\* contract lacks are fetched anew.
Restart ==
    /\ faults < MaxFaults
    /\ faults' = faults + 1
    /\ \E status \in {peer} \cup Range(relayed) :
       LET root == status.tree.root
           missing == status.seq + 1 .. SentUpTo(root)
           sequence == IF missing = {} THEN status.seq ELSE SentUpTo(root)
       IN  /\ peer' = status
           /\ watch' = WatchFrom(root)
           /\ loop' = LoopFrom(root)
           /\ local' = [hash |-> root, seq |-> sequence, cache |-> 0]
           /\ msgs' \in Put(<< >>, [s \in missing |->
                 AncestorAt(root, Min({n \in 1 .. Len(root) : root[n].seq >= s}))])
           /\ told' = [number |-> Number(root), seq |-> sequence]
    /\ heads' = << >>
    /\ woken' = FALSE
    /\ relayed' = << >>
    /\ build' = NoBuild
    /\ UNCHANGED <<node, panicked>>

Loop == Receive \/ Resume \/ Inconsistent \/ Apply \/ QueryBlock \/ QueryFails
            \/ UpdateStatus \/ Notify

Link == BuildBegin \/ BuildHead \/ BuildEnd \/ BuildMessageProof

Node == Mine \/ Reorg

Next == Node \/ Fetch \/ Loop \/ FinalizedStatus \/ Link
            \/ BuildFails \/ Drop \/ Restart

Safe == Init /\ [][Next]_vars

-----------------------------------------------------------------------------

Advance == Receive \/ Resume \/ Inconsistent \/ Apply \/ QueryBlock
              \/ UpdateStatus \/ Notify

\* The goroutines are scheduled fairly, the node answers, the other chain
\* finalizes what it accepted, and the link keeps building.  The node need not
\* seal another block, and no fault need happen.
Fairness ==
    /\ WF_vars(Fetch)
    /\ WF_vars(Advance)
    /\ WF_vars(FinalizedStatus)
    /\ WF_vars(Link)

Spec == Safe /\ Fairness

-----------------------------------------------------------------------------
(* Properties.                                                             *)

Bodies == [att : [source : Nat, target : Nat], seq : Nat, fork : Nat]

Block == Seq(Bodies)

Tree == [root : Block, nodes : SUBSET Block]

CalculatorType == [checkpoint : Block, feeds : Seq(Block)]

Status == [height : Nat, tree : Tree, seq : Nat]

\* The variables have the types the receiver declares for them.
TypeOK ==
    /\ chain \in Block /\ finalized \in Block
    /\ reorgs \in 0 .. MaxReorgs /\ faults \in 0 .. MaxFaults
    /\ watch \in [want : Nat \ {0}, head : Block]
    /\ loop \in [pc : {"recv", "full", "apply", "query", "notify"},
                 head : Block, snap : Block,
                 calc : CalculatorType, fed : 0 .. FeedLimit + 1,
                 target : Block, cursor : Block, seq : Nat]
    /\ local \in [hash : Block, seq : Nat, cache : Nat]
    /\ peer \in Status
    /\ heads \in [DOMAIN heads -> Block] /\ DOMAIN heads \subseteq Nat
    /\ msgs \in [DOMAIN msgs -> Block] /\ DOMAIN msgs \subseteq Nat
    /\ Cardinality(DOMAIN heads) <= CacheSize
    /\ Cardinality(DOMAIN msgs) <= CacheSize
    /\ woken \in BOOLEAN /\ panicked \in BOOLEAN
    /\ told \in [number : Nat, seq : Nat]
    /\ relayed \in Seq(Status) /\ Len(relayed) <= MaxInFlight
    /\ build \in [on : BOOLEAN, tree : Tree, parent : Block,
                  calc : CalculatorType, number : Nat, count : Nat,
                  finalities : Nat, exists : BOOLEAN]

\* What the receiver treats as final is final: the heads up to the one it
\* calls the latest finalized block, from which block updates are built, are
\* on the finalized chain whatever the node reorganises.
CacheIsFinal ==
    \A n \in DOMAIN heads :
        n <= local.cache => IsAncestor(heads[n], finalized)

\* BuildBlockUpdate, which reads the caches while the loop writes them, never
\* meets a header that does not extend the last one, nor a tree that refuses
\* it (the panics at receiver.go:481 and 495).
NeverPanics == ~panicked

Statuses == {peer} \cup Range(relayed)

\* The height announced for a block update is the number of the root its
\* verifier status has: the two are computed apart, one by counting
\* finalities, the other by pruning the tree.
HeightIsRoot == \A st \in Statuses : st.height = Number(st.tree.root)

\* A block tree keeps its finalized root, and only one branch above it.
TreeIsBranch ==
    \A st \in Statuses \cup {build} :
        LET tree == st.tree
        IN  /\ IsAncestor(tree.root, finalized)
            /\ tree.root \in tree.nodes
            /\ \A a, b \in tree.nodes : IsAncestor(tree.root, a)
                                       /\ (IsAncestor(a, b) \/ IsAncestor(b, a))

\* No status counts a message as received whose block the verifier does not
\* know as final at that status.
ProofsAreFinal == \A st \in Statuses : st.seq <= SentUpTo(st.tree.root)

\* A cached message is one that the finalized chain has: the node is asked
\* by block number, which a reorganisation may give to another block.
MessagesAreFinal ==
    \A s \in DOMAIN msgs : IsAncestor(msgs[s], finalized) /\ s \in MessagesIn(msgs[s])

\* No message is lost between the walks, purges, failures and restarts: each
\* message up to the local block which the contract lacks is in the cache, as
\* long as the cache holds all messages there are.  Beyond that the oldest, which
\* the contract needs first, are evicted.
MessagesAreKept ==
    SentUpTo(finalized) <= CacheSize =>
        peer.seq + 1 .. SentUpTo(local.hash) \subseteq DOMAIN msgs

-----------------------------------------------------------------------------

\* The blocks that the canonical chain shows as final, and the last of them
\* that has two finalities above it.
ShownFinal == {n \in 0 .. Len(chain) :
    \E m \in n .. Len(chain) :
        LET att == AttestationOf(AncestorAt(chain, m))
        IN  n = 0 \/ (att.source = n /\ Consecutive(att))}

Settled == LET final == AncestorAt(chain, Max(ShownFinal))
           IN  AncestorAt(final, AttestationOf(final).source)

\* The relay as a whole (README.md:40-42): a message that stays settled on the
\* canonical chain is received by the contract of the other chain.
Delivered ==
    \A s \in 1 .. MaxSeq : <>[](s <= SentUpTo(Settled)) => <>(s <= peer.seq)
=============================================================================
