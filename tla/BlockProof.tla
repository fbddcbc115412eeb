----------------------------- MODULE BlockProof -----------------------------
(***************************************************************************)
(* The merkle accumulator of the receiver (chain/bsc2/receiver.go): Start  *)
(* prepares it, syncAcc extends it to a finalized block, BuildBlockProof   *)
(* takes a witness from it; and the search for the messages that block     *)
(* proofs are about.                                                       *)
(*                                                                         *)
(* Everything here is about the finalized chain, so a block is its number, *)
(* and so is the leaf made of its hash.  syncAcc is called by Start, by    *)
(* the goroutine of FinalizedStatus and by the link, without a lock.       *)
(***************************************************************************)
EXTENDS MessageSearch, FiniteSetsExt

CONSTANTS
    Offset,       \* StartNumber: the offset of the accumulator, an epoch block
    CacheSize,    \* entries of the msgs cache (1024)
    MaxHeight,    \* bound: the highest finalized block
    MaxSeq,       \* bound: BTP messages sent
    MaxFaults     \* bound: failed queries and flushes, and crashes

ASSUME AccumulatorAssumption ==
    /\ {Offset, CacheSize} \subseteq Nat \ {0}
    /\ MaxHeight \in Nat /\ MaxHeight >= Offset
    /\ {MaxSeq, MaxFaults} \subseteq Nat

VARIABLES
    final,     \* node: the highest finalized block
    sent,      \* node: the block of each message, those to come included
    bmc,       \* contract: the status of the link
    acc,       \* the leaves of the accumulator, in memory
    disk,      \* the database: flushed leaves, whether it has a boot snapshot
    main,      \* where Start is
    peer,      \* o.peer
    local,     \* o.local
    msgs,      \* msgs cache: the sequences it has
    sync,      \* thread -> its call of syncAcc
    arriving,  \* FinalizedStatus: the status it handles
    link,      \* link: the proof it wants
    faults,    \* failures and crashes so far
    raced      \* history: whether two calls of syncAcc ever had headers to add
               \* at the same time

chain == <<final, sent, bmc>>
vars == <<final, sent, bmc, acc, disk, main, peer, local, msgs, sync, arriving,
          link, faults, raced>>

Threads == {"start", "status", "link"}

NoSync == [pc |-> "idle", cursor |-> 0, end |-> 0]

NoProof == [header |-> NoBlock, leaves |-> << >>, at |-> 0]

Idle == [pc |-> "idle", status |-> [number |-> Offset, seq |-> 0], seq |-> 0,
         height |-> NoBlock, proof |-> NoProof]

\* The messages sent up to a block.
SentUpTo(number) == Cardinality({s \in DOMAIN sent : sent[s] <= number})

\* Faulty: the number of the last block.
LastHeight(leaves) == Offset + Len(leaves) - 1

\* accumulator.Height(): the number of the next block.
Height(leaves) == Offset + Len(leaves)

Init ==
    /\ final = Offset
    /\ sent \in {f \in [1 .. MaxSeq -> Offset .. MaxHeight] :
                    \A s, t \in 1 .. MaxSeq : s < t => f[s] <= f[t]}
    /\ bmc = [number |-> Offset, seq |-> 0]
    /\ acc = << >> /\ disk = [leaves |-> << >>, booted |-> FALSE]
    /\ main = "prepare"
    /\ peer = bmc /\ local = bmc
    /\ msgs = {}
    /\ sync = [t \in Threads |-> NoSync]
    /\ arriving = bmc
    /\ link = Idle
    /\ faults = 0
    /\ raced = FALSE

-----------------------------------------------------------------------------
(* The node and the contract.                                              *)

ReceiverStays == UNCHANGED <<acc, disk, main, peer, local, msgs, sync, arriving,
                             link, faults, raced>>

Finalize ==
    /\ final < MaxHeight
    /\ final' = final + 1
    /\ UNCHANGED <<sent, bmc>> /\ ReceiverStays

\* The contract receives block updates and messages, from this relay or another.
Accept ==
    /\ \E n \in bmc.number .. final :
       \E s \in bmc.seq .. SentUpTo(n) : bmc' = [number |-> n, seq |-> s]
    /\ bmc' # bmc
    /\ UNCHANGED <<final, sent>> /\ ReceiverStays

-----------------------------------------------------------------------------
(* syncAcc.                                                                *)

\* Faulty: the end itself is left out.
BeforeEnd(call) == call.cursor < call.end

\* cursor <= end.Number
UpToEnd(call) == call.cursor <= call.end

Adding(call) == call.pc = "add" /\ UpToEnd(call)

\* The header of the end is fetched, then Height() is read.  No lock keeps two
\* calls apart: what another one adds is not seen by this one any more.
SyncBegin(t, end) ==
    LET call == [pc |-> "add", cursor |-> Height(acc), end |-> end]
    IN  /\ sync' = [sync EXCEPT ![t] = call]
        /\ raced' = (raced \/ (Adding(call) /\ \E u \in Threads \ {t} : Adding(sync[u])))

\* One header fetched and added.
SyncAdd(t) ==
    /\ sync[t].pc = "add"
    /\ IF UpToEnd(sync[t])
       THEN /\ acc' = Append(acc, sync[t].cursor)
            /\ sync' = [sync EXCEPT ![t].cursor = @ + 1]
       ELSE /\ sync' = [sync EXCEPT ![t].pc = "flush"]
            /\ UNCHANGED acc
    /\ UNCHANGED <<chain, disk, main, peer, local, msgs, arriving, link, faults, raced>>

\* What follows syncAcc in its three callers: Start goes on, the status is
\* handled whether it failed or not, and the link gets its witness.
Synced(t, ok) ==
    /\ sync' = [sync EXCEPT ![t] = NoSync]
    /\ CASE t = "start"  -> /\ main' = IF ok THEN "fetch" ELSE "down"
                            /\ UNCHANGED <<peer, msgs, link>>
         [] t = "status" -> /\ peer' = arriving
                            /\ msgs' = msgs \ (peer.seq .. arriving.seq)
                            /\ UNCHANGED <<main, link>>
         [] t = "link"   -> /\ link' = IF ok THEN [link EXCEPT !.pc = "witness"] ELSE Idle
                            /\ UNCHANGED <<main, peer, msgs>>
    /\ UNCHANGED <<chain, acc, local, arriving, raced>>

SyncFlush(t) ==
    /\ sync[t].pc = "flush"
    /\ disk' = [disk EXCEPT !.leaves = acc]
    /\ Synced(t, TRUE)
    /\ UNCHANGED faults

\* A query or the flush fails: what was added stays, in memory.
SyncFails(t) ==
    /\ sync[t].pc # "idle" /\ faults < MaxFaults
    /\ faults' = faults + 1
    /\ Synced(t, FALSE)
    /\ UNCHANGED disk

-----------------------------------------------------------------------------
(* Start.                                                                  *)

\* prepare: the accumulator has its first leaf ...
Prepare ==
    /\ main = "prepare"
    /\ acc' = IF acc = << >> THEN <<Offset>> ELSE acc
    /\ disk' = IF acc = << >> THEN [disk EXCEPT !.leaves = acc'] ELSE disk
    /\ main' = "boot"
    /\ UNCHANGED <<chain, peer, local, msgs, sync, arriving, link, faults, raced>>

\* ... and the database a boot snapshot.
Boot ==
    /\ main = "boot"
    /\ disk' = [disk EXCEPT !.booted = TRUE]
    /\ main' = "ensure"
    /\ UNCHANGED <<chain, acc, peer, local, msgs, sync, arriving, link, faults, raced>>

\* synchronize: snapshots and accumulator up to the block of the contract.
Synchronize ==
    /\ main = "ensure"
    /\ SyncBegin("start", peer.number)
    /\ main' = "sync"
    /\ UNCHANGED <<chain, acc, disk, peer, local, msgs, arriving, link, faults>>

\* Faulty: nothing is evicted.
PutAll(added, last) == {msgs \cup added}

\* Entries added to the msgs cache.  Beyond its size others are evicted, never
\* the last one added.
Put(added, last) ==
    LET full == msgs \cup added
    IN  IF added = {} \/ Cardinality(full) <= CacheSize THEN {full}
        ELSE {kept \in kSubset(CacheSize, full) : last \in kept}

\* Start fetches the messages of finalized blocks that the contract lacks.
FetchMissing ==
    /\ main = "fetch"
    /\ LET found == MessagesAfterSequence(sent, Offset, peer.number, peer.seq)
       IN  /\ msgs' \in Put(ToSet(found), Last(found))
           /\ local' = IF found = << >> THEN local
                       ELSE [local EXCEPT !.seq = Last(found)]
    /\ main' = "enter"
    /\ UNCHANGED <<chain, acc, disk, peer, sync, arriving, link, faults, raced>>

\* Start returns: the loop and the link begin.
Enter ==
    /\ main = "enter"
    /\ main' = "run"
    /\ UNCHANGED <<chain, acc, disk, peer, local, msgs, sync, arriving, link, faults,
                   raced>>

\* Start panics on any failure, that of BootSnapshot included when the headers
\* it looks at have no attestation.
StartFails ==
    /\ main \in {"prepare", "boot", "ensure", "fetch"} /\ faults < MaxFaults
    /\ faults' = faults + 1
    /\ main' = "down"
    /\ UNCHANGED <<chain, acc, disk, peer, local, msgs, sync, arriving, link, raced>>

-----------------------------------------------------------------------------
(* The loop, as far as the search needs it, and FinalizedStatus.           *)

\* The local status moves up to a finalized block, over several blocks where
\* votes were missing.  queryAndCacheMessages walks from the newest to the
\* oldest, so that the last message it sees is that of the oldest block with
\* messages.
Advance ==
    /\ main = "run"
    /\ \E n \in local.number + 1 .. final :
          LET new == {s \in DOMAIN sent : sent[s] \in local.number + 1 .. n}
              seen == Max({s \in new : \A t \in new : sent[s] <= sent[t]})
          IN  /\ msgs' \in Put(new, seen)
              /\ local' = [number |-> n, seq |-> IF new = {} THEN local.seq ELSE seen]
    /\ UNCHANGED <<chain, acc, disk, main, peer, sync, arriving, link, faults, raced>>

FinalizedStatus ==
    /\ main = "run" /\ sync["status"].pc = "idle" /\ bmc # peer
    /\ arriving' = bmc
    /\ SyncBegin("status", bmc.number)
    /\ UNCHANGED <<chain, acc, disk, main, peer, local, msgs, link, faults>>

-----------------------------------------------------------------------------
(* The link: the proof of the next message the contract lacks.             *)

Linking == UNCHANGED <<chain, acc, disk, main, peer, local, msgs, arriving, faults>>

Ask ==
    /\ main = "run" /\ link.pc = "idle"
    /\ bmc.seq < SentUpTo(local.number)
    /\ link' = [Idle EXCEPT !.pc = "height", !.status = bmc, !.seq = bmc.seq + 1]
    /\ UNCHANGED <<sync, raced>> /\ Linking

\* The cache, or else one query up to the local block.
HeightOf(sequence) ==
    IF sequence \in msgs THEN sent[sequence]
    ELSE MessageBySequence(sent, Offset, local.number, sequence)

GetHeightForSeq ==
    /\ link.pc = "height"
    /\ link' = [link EXCEPT !.pc = "found", !.height = HeightOf(link.seq)]
    /\ UNCHANGED <<sync, raced>> /\ Linking

\* The query fails; the answer is that of a message there is not.
QueryFails ==
    /\ link.pc = "height" /\ link.seq \notin msgs
    /\ faults < MaxFaults
    /\ faults' = faults + 1
    /\ link' = Idle
    /\ UNCHANGED <<chain, acc, disk, main, peer, local, msgs, arriving, sync, raced>>

\* Faulty: the request waits for the block of its message.
KeepRequest(request) == request

\* The link looks again at the next status.
NextRound(request) == Idle

\* A message at or below the block of the contract needs a block proof; one
\* above it waits for a block update, one without a block for the next round.
BuildBlockProof ==
    /\ link.pc = "found"
    /\ IF link.height \in Offset .. link.status.number
       THEN /\ SyncBegin("link", link.status.number)
            /\ link' = [link EXCEPT !.pc = "sync"]
       ELSE link' = NextRound(link) /\ UNCHANGED <<sync, raced>>
    /\ Linking

\* Faulty: the leaf after that of the block.
WitnessAfter(leaves, height, number) ==
    [header |-> height, leaves |-> SubSeq(leaves, 1, number + 1 - Offset),
     at |-> height + 2 - Offset]

\* WitnessForAt(target + 1, number + 1, offset), with the header of the target:
\* a leaf of the accumulator as it was at the block of the contract.
WitnessForAt(leaves, height, number) ==
    [header |-> height, leaves |-> SubSeq(leaves, 1, number + 1 - Offset),
     at |-> height + 1 - Offset]

Witness ==
    /\ link.pc = "witness"
    /\ link' = IF link.status.number < Height(acc)
               THEN [link EXCEPT !.pc = "proved",
                        !.proof = WitnessForAt(acc, link.height, link.status.number)]
               ELSE Idle
    /\ UNCHANGED <<sync, raced>> /\ Linking

\* The proof goes into a relay message.
Relay ==
    /\ link.pc = "proved"
    /\ link' = Idle
    /\ UNCHANGED <<sync, raced>> /\ Linking

-----------------------------------------------------------------------------

Crash ==
    /\ main # "down" /\ faults < MaxFaults
    /\ faults' = faults + 1
    /\ main' = "down"
    /\ sync' = [t \in Threads |-> NoSync]
    /\ link' = Idle
    /\ UNCHANGED <<chain, acc, disk, peer, local, msgs, arriving, raced>>

\* accumulator.Recover reads back what was flushed; Start is given the status
\* of the contract.
Restart ==
    /\ main = "down"
    /\ main' = "prepare"
    /\ acc' = disk.leaves
    /\ peer' = bmc /\ local' = bmc /\ arriving' = bmc
    /\ msgs' = {}
    /\ UNCHANGED <<chain, disk, sync, link, faults, raced>>

Start == Prepare \/ Boot \/ Synchronize \/ SyncAdd("start") \/ SyncFlush("start")
            \/ FetchMissing \/ Enter

Link == GetHeightForSeq \/ BuildBlockProof \/ SyncAdd("link") \/ SyncFlush("link")
            \/ Witness \/ Relay

StatusLoop == FinalizedStatus \/ SyncAdd("status") \/ SyncFlush("status")

Fails == StartFails \/ QueryFails \/ \E t \in Threads : SyncFails(t)

Next == Finalize \/ Accept \/ Start \/ Advance \/ StatusLoop \/ Ask \/ Link
            \/ Fails \/ Crash \/ Restart

Safe == Init /\ [][Next]_vars

\* The goroutines are scheduled fairly and the node answers.
Fairness ==
    /\ WF_vars(Start)
    /\ WF_vars(Link)
    /\ WF_vars(StatusLoop)

Spec == Safe /\ Fairness

-----------------------------------------------------------------------------
(* Properties.                                                             *)

StatusType == [number : Offset .. MaxHeight, seq : 0 .. MaxSeq]

Leaves == Seq(Offset .. MaxHeight)

\* The variables have the types of the code, and the cache keeps to its size.
TypeOK ==
    /\ final \in Offset .. MaxHeight
    /\ sent \in [1 .. MaxSeq -> Offset .. MaxHeight]
    /\ {bmc, peer, local, arriving} \subseteq StatusType
    /\ acc \in Leaves /\ disk \in [leaves : Leaves, booted : BOOLEAN]
    /\ main \in {"prepare", "boot", "ensure", "sync", "fetch", "enter", "run", "down"}
    /\ msgs \subseteq 1 .. MaxSeq /\ Cardinality(msgs) <= CacheSize
    /\ sync \in [Threads -> [pc : {"idle", "add", "flush"}, cursor : Nat, end : Nat]]
    /\ link \in [pc : {"idle", "height", "found", "sync", "witness", "proved"},
                 status : StatusType, seq : 0 .. MaxSeq,
                 height : {NoBlock} \cup Offset .. MaxHeight,
                 proof : [header : Nat, leaves : Leaves, at : Nat]]
    /\ faults \in 0 .. MaxFaults /\ raced \in BOOLEAN

\* Unless two calls of syncAcc had headers to add at the same time, the leaves
\* are those of the contract: the blocks from the offset on, each once and in
\* order.  What is flushed is the beginning of them even then.
AccumulatorIsChain ==
    /\ ~raced => \A i \in DOMAIN acc : acc[i] = Offset + i - 1
    /\ main # "down" => IsPrefix(disk.leaves, acc)

\* A block proof is about the block of the message asked for, its leaf is that
\* block, and its leaves are those the contract has at its height.
ProofVerifies ==
    link.pc = "proved" =>
        /\ link.proof.header = sent[link.seq]
        /\ link.proof.leaves = [i \in 1 .. link.status.number + 1 - Offset |-> Offset + i - 1]
        /\ link.proof.at \in DOMAIN link.proof.leaves
        /\ link.proof.leaves[link.proof.at] = link.proof.header

\* Only such a race makes a block proof that does not verify.
ProofsVerify == raced \/ ProofVerifies

\* The accumulator reaches the block of the contract before the status is taken
\* as the peer's; only a failed synchronization, which FinalizedStatus logs and
\* passes over, leaves it behind.  The link makes up for that: after its own
\* synchronization it is never short of leaves, whatever failed before and
\* whichever calls overlap.
CoversPeer ==
    /\ main = "run" /\ faults = 0 => peer.number < Height(acc)
    /\ link.pc = "witness" => link.status.number < Height(acc)

\* After Start the receiver has all messages of finalized blocks that the
\* contract lacks, across the windows of the search and their common blocks,
\* and its status names the last of them.
MissingRestored ==
    main = "enter" =>
        /\ local.seq = IF peer.seq < SentUpTo(peer.number) THEN SentUpTo(peer.number)
                       ELSE peer.seq
        /\ Cardinality(msgs) = Min({CacheSize, SentUpTo(peer.number) - peer.seq})
        /\ msgs \subseteq peer.seq + 1 .. SentUpTo(peer.number)

\* A message that the link was told of is not found only when the cache has lost
\* it and its block is farther than one window below the local block.
HeightFound ==
    link.pc = "found" =>
        \/ link.height = sent[link.seq]
        \/ /\ link.height = NoBlock
           /\ sent[link.seq] + MaxQueryRange < local.number

\* The link gets a proof, or an answer that there is none for now.
LinkAnswered == link.pc # "idle" ~> link.pc = "idle"
=============================================================================
