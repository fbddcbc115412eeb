-------------------------- MODULE BlockProofProofs --------------------------
(***************************************************************************)
(* Theorems about the accumulator, the block proofs and the search for     *)
(* messages, for any offset, cache, window and number of faults, however   *)
(* calls of syncAcc overlap.                                               *)
(* The first part is about the accumulator.  The strengthening IInv adds   *)
(* to the checked invariants: what is flushed begins what is in memory     *)
(* (AccInv), what a call read of the height (ReadInv), what that is worth  *)
(* as long as no two calls had headers to add at once (AloneInv), in which *)
(* phase of Start the other threads are quiet (PhaseInv), how far a call   *)
(* is to go (ReachInv) and what the link has found so far (LinkInv).       *)
(* The second part is about the search and the cache of messages: what a   *)
(* search over all windows returns (SearchReturns), and the strengthening  *)
(* SearchInv.                                                              *)
(***************************************************************************)
EXTENDS BlockProof, BlocksProofs, FiniteSetTheorems

Numbers == [number : Nat, seq : Nat]

Calls == [pc : {"idle", "add", "flush"}, cursor : Nat, end : Nat]

Types ==
    /\ final \in Nat /\ sent \in [1 .. MaxSeq -> Nat]
    /\ \A s \in 1 .. MaxSeq : sent[s] >= Offset
    /\ bmc \in Numbers /\ peer \in Numbers /\ arriving \in Numbers
    /\ acc \in Seq(Nat) /\ disk \in [leaves : Seq(Nat), booted : BOOLEAN]
    /\ sync \in [Threads -> Calls]
    /\ link \in [pc : {"idle", "height", "found", "sync", "witness", "proved"},
                 status : Numbers, seq : 0 .. MaxSeq, height : Nat,
                 proof : [header : Nat, leaves : Seq(Nat), at : Nat]]
    /\ faults \in Nat /\ raced \in BOOLEAN

IsChain(leaves) == \A i \in 1 .. Len(leaves) : leaves[i] = Offset + i - 1

\* one begins with the other
Begins(one, other) ==
    /\ Len(one) <= Len(other)
    /\ \A i \in 1 .. Len(one) : one[i] = other[i]

AccInv ==
    /\ ~raced => IsChain(acc)
    /\ Begins(disk.leaves, acc)

\* The height only grows after a call has read it.
ReadInv ==
    /\ \A t \in Threads : sync[t].pc = "add" => sync[t].cursor <= Height(acc)
    /\ \A t \in Threads : sync[t].pc = "flush" => sync[t].end < Height(acc)

\* Without a race one call adds at a time, and what it read still holds.
AloneInv ==
    ~raced =>
        /\ \A t \in Threads : Adding(sync[t]) => sync[t].cursor = Height(acc)
        /\ \A t, u \in Threads : Adding(sync[t]) /\ Adding(sync[u]) => t = u

PhaseInv ==
    /\ sync["start"].pc # "idle" => main = "sync"
    /\ main # "run" => /\ sync["status"].pc = "idle"
                       /\ sync["link"].pc = "idle"
                       /\ link.pc = "idle"
    /\ sync["link"].pc # "idle" => link.pc = "sync"

ReachInv ==
    /\ sync["start"].pc # "idle" => sync["start"].end = peer.number
    /\ sync["status"].pc # "idle" => sync["status"].end = arriving.number
    /\ sync["link"].pc # "idle" => sync["link"].end = link.status.number
    /\ faults = 0 /\ main \in {"fetch", "enter", "run"} => peer.number < Height(acc)
    /\ link.pc = "witness" => link.status.number < Height(acc)

LinkInv ==
    /\ link.pc # "idle" => link.seq \in 1 .. MaxSeq
    /\ link.pc = "found" => link.height \in {NoBlock, sent[link.seq]}
    /\ link.pc \in {"sync", "witness", "proved"} =>
          /\ link.height = sent[link.seq]
          /\ link.height \in Offset .. link.status.number

IInv ==
    /\ Types /\ AccInv /\ ReadInv /\ AloneInv /\ PhaseInv /\ ReachInv /\ LinkInv
    /\ ProofsVerify
-----------------------------------------------------------------------------
(* Lemmas on the operators.                                                *)

\* The messages sent up to a block are no more than the messages.
LEMMA SentUpToBounded ==
    ASSUME sent \in [1 .. MaxSeq -> Nat], NEW number
    PROVE  SentUpTo(number) \in 0 .. MaxSeq
  <1> DEFINE S == {s \in DOMAIN sent : sent[s] <= number}
  <1>1. MaxSeq \in Nat
    BY AccumulatorAssumption
  <1>2. IsFiniteSet(1 .. MaxSeq) /\ Cardinality(1 .. MaxSeq) = MaxSeq
    BY <1>1, FS_Interval
  <1>3. S \subseteq 1 .. MaxSeq
    OBVIOUS
  <1> HIDE DEF S
  <1>4. IsFiniteSet(S) /\ Cardinality(S) <= MaxSeq
    <2>1. IsFiniteSet(S) /\ Cardinality(S) <= Cardinality(1 .. MaxSeq)
      BY <1>2, <1>3, FS_Subset
    <2> QED
      BY <1>2, <2>1
  <1>5. Cardinality(S) \in Nat
    BY <1>4, FS_CardinalityType
  <1> QED
    BY <1>1, <1>4, <1>5 DEF SentUpTo, S

\* A leaf more: the accumulator begins as before, and stays a chain when the leaf
\* is the block of its height.
LEMMA LeafAppend ==
    ASSUME NEW leaves \in Seq(Nat), NEW number \in Nat
    PROVE  LET longer == Append(leaves, number)
           IN  /\ longer \in Seq(Nat)
               /\ Len(longer) = Len(leaves) + 1
               /\ Height(longer) = Height(leaves) + 1
               /\ Height(leaves) \in Nat
               /\ \A one \in Seq(Nat) : Begins(one, leaves) => Begins(one, longer)
               /\ IsChain(leaves) /\ number = Height(leaves) => IsChain(longer)
  <1>1. Offset \in Nat /\ Len(leaves) \in Nat
    BY AccumulatorAssumption, LenProperties
  <1> DEFINE longer == Append(leaves, number)
  <1>2. /\ longer \in Seq(Nat)
        /\ Len(longer) = Len(leaves) + 1
        /\ \A i \in 1 .. Len(leaves) : longer[i] = leaves[i]
        /\ longer[Len(leaves) + 1] = number
    BY AppendProperties
  <1> HIDE DEF longer
  <1>3. Height(longer) = Height(leaves) + 1 /\ Height(leaves) \in Nat
    BY <1>1, <1>2 DEF Height
  <1>4. ASSUME NEW one \in Seq(Nat), Begins(one, leaves) PROVE Begins(one, longer)
    <2>1. Len(one) \in Nat
      BY LenProperties
    <2>2. Len(one) <= Len(leaves) /\ \A i \in 1 .. Len(one) : one[i] = leaves[i]
      BY <1>4 DEF Begins
    <2>3. /\ Len(one) <= Len(longer)
          /\ \A i \in 1 .. Len(one) : i \in 1 .. Len(leaves)
      BY ONLY <1>1, <1>2, <2>1, <2>2
    <2>4. \A i \in 1 .. Len(one) : one[i] = longer[i]
      BY ONLY <1>2, <2>2, <2>3
    <2> QED
      BY <2>3, <2>4 DEF Begins
  <1>5. ASSUME IsChain(leaves), number = Height(leaves) PROVE IsChain(longer)
    <2>1. \A i \in 1 .. Len(leaves) : longer[i] = Offset + i - 1
      BY <1>2, <1>5 DEF IsChain
    <2>2. longer[Len(leaves) + 1] = Offset + (Len(leaves) + 1) - 1
      BY <1>1, <1>2, <1>5 DEF Height
    <2>3. \A i \in 1 .. Len(longer) : i \in 1 .. Len(leaves) \/ i = Len(leaves) + 1
      BY ONLY <1>1, <1>2
    <2>4. \A i \in 1 .. Len(longer) : longer[i] = Offset + i - 1
      BY ONLY <2>1, <2>2, <2>3
    <2> QED
      BY <2>4 DEF IsChain
  <1>6. /\ longer \in Seq(Nat) /\ Len(longer) = Len(leaves) + 1
        /\ Height(longer) = Height(leaves) + 1 /\ Height(leaves) \in Nat
        /\ \A one \in Seq(Nat) : Begins(one, leaves) => Begins(one, longer)
        /\ IsChain(leaves) /\ number = Height(leaves) => IsChain(longer)
    BY ONLY <1>2, <1>3, <1>4, <1>5
  <1> QED
    BY ONLY <1>6, Zenon DEF longer

\* What is written begins itself.
LEMMA BeginsItself == ASSUME NEW leaves \in Seq(Nat) PROVE Begins(leaves, leaves)
  BY LenProperties DEF Begins

\* What is cut off an accumulator that reaches the block of the contract.
LEMMA CutOfLeaves ==
    ASSUME NEW leaves \in Seq(Nat), NEW number \in Nat, number < Height(leaves),
           number >= Offset
    PROVE  LET n == number + 1 - Offset
               cut == SubSeq(leaves, 1, n)
           IN  /\ n \in 1 .. Len(leaves) /\ cut \in Seq(Nat) /\ Len(cut) = n
               /\ \A i \in 1 .. n : cut[i] = leaves[i]
  <1>1. Offset \in Nat /\ Len(leaves) \in Nat
    BY AccumulatorAssumption, LenProperties
  <1> DEFINE n == number + 1 - Offset
             cut == SubSeq(leaves, 1, n)
  <1>2. n \in 1 .. Len(leaves)
    BY <1>1 DEF Height
  <1>3. \A i \in 1 .. n : leaves[i] \in Nat
    BY <1>1, <1>2, ElementOfSeq
  <1>4. cut \in Seq(Nat) /\ Len(cut) = n /\ \A i \in 1 .. n : cut[i] = leaves[i]
    BY <1>2, <1>3, SubSeqProperties
  <1> QED
    BY <1>2, <1>4

\* A witness is one of a leaf, whatever the accumulator is.
LEMMA WitnessType ==
    ASSUME NEW leaves \in Seq(Nat), NEW number \in Nat, number < Height(leaves),
           NEW height \in Offset .. number
    PROVE  WitnessForAt(leaves, height, number) \in
               [header : Nat, leaves : Seq(Nat), at : Nat]
  <1>1. Offset \in Nat /\ number >= Offset
    BY AccumulatorAssumption
  <1>2. SubSeq(leaves, 1, number + 1 - Offset) \in Seq(Nat)
    BY <1>1, CutOfLeaves
  <1>3. height \in Nat /\ height + 1 - Offset \in Nat
    BY <1>1
  <1> QED
    BY <1>2, <1>3 DEF WitnessForAt

\* A witness from a chain that reaches the block of the contract is about the
\* block it was asked for.
LEMMA WitnessOfChain ==
    ASSUME NEW leaves \in Seq(Nat), IsChain(leaves),
           NEW number \in Nat, number < Height(leaves),
           NEW height \in Offset .. number
    PROVE  LET proof == WitnessForAt(leaves, height, number)
           IN  /\ proof.header = height
               /\ proof.leaves = [i \in 1 .. number + 1 - Offset |-> Offset + i - 1]
               /\ proof.at \in DOMAIN proof.leaves
               /\ proof.leaves[proof.at] = proof.header
  <1>1. Offset \in Nat /\ Len(leaves) \in Nat /\ number >= Offset
    BY AccumulatorAssumption, LenProperties
  <1> DEFINE n == number + 1 - Offset
             cut == SubSeq(leaves, 1, n)
  <1>2. /\ n \in 1 .. Len(leaves) /\ cut \in Seq(Nat) /\ Len(cut) = n
        /\ \A i \in 1 .. n : cut[i] = leaves[i]
    BY <1>1, CutOfLeaves
  <1>5. cut = [i \in 1 .. n |-> Offset + i - 1]
    <2>1. DOMAIN cut = 1 .. n /\ cut = [i \in DOMAIN cut |-> cut[i]]
      BY <1>2, LenProperties
    <2>2. \A i \in 1 .. n : cut[i] = Offset + i - 1
      BY <1>1, <1>2 DEF IsChain
    <2> QED
      BY <2>1, <2>2
  <1>6. height + 1 - Offset \in 1 .. n
    BY <1>1
  <1> HIDE DEF n, cut
  <1>7. WitnessForAt(leaves, height, number) =
            [header |-> height, leaves |-> cut, at |-> height + 1 - Offset]
    BY DEF WitnessForAt, n, cut
  <1>8. /\ height \in Nat /\ height + 1 - Offset \in Nat
        /\ cut[height + 1 - Offset] = height
        /\ DOMAIN cut = 1 .. n
    BY <1>1, <1>5, <1>6
  <1> QED
    BY <1>5, <1>6, <1>7, <1>8 DEF n

-----------------------------------------------------------------------------
(* The invariant at the start.                                             *)

\* An empty accumulator, and nobody about to extend it.
LEMMA InitIInv == Init => IInv
  <1> SUFFICES ASSUME Init PROVE IInv
    OBVIOUS
  <1> USE AccumulatorAssumption
  <1>1. << >> \in Seq(Nat) /\ Len(<< >>) = 0
    BY EmptySeq
  <1>2. Types
    <2>1. sync \in [Threads -> Calls]
      BY DEF Init, Calls, NoSync
    <2>2. final \in Nat /\ sent \in [1 .. MaxSeq -> Nat]
      BY DEF Init
    <2>3. \A s \in 1 .. MaxSeq : sent[s] >= Offset
      BY DEF Init
    <2>4. bmc \in Numbers /\ peer \in Numbers /\ arriving \in Numbers
      BY DEF Init, Numbers
    <2>5. acc \in Seq(Nat) /\ disk \in [leaves : Seq(Nat), booted : BOOLEAN]
      BY <1>1 DEF Init
    <2>6. link \in [pc : {"idle", "height", "found", "sync", "witness", "proved"},
                    status : Numbers, seq : 0 .. MaxSeq, height : Nat,
                    proof : [header : Nat, leaves : Seq(Nat), at : Nat]]
      BY <1>1 DEF Init, Numbers, Idle, NoProof, NoBlock
    <2>7. faults \in Nat /\ raced \in BOOLEAN
      BY DEF Init
    <2> QED
      BY <2>1, <2>2, <2>3, <2>4, <2>5, <2>6, <2>7 DEF Types
  <1>3. AccInv
    BY <1>1 DEF Init, AccInv, IsChain, Begins
  <1>4. ReadInv /\ AloneInv /\ PhaseInv /\ ReachInv
    BY DEF Init, ReadInv, AloneInv, PhaseInv, ReachInv, Adding, Threads, NoSync, Idle
  <1>5. LinkInv /\ ProofsVerify
    BY DEF Init, LinkInv, ProofsVerify, ProofVerifies, Idle
  <1> QED
    BY <1>2, <1>3, <1>4, <1>5 DEF IInv

-----------------------------------------------------------------------------
(* The invariant in the steps of the node and the contract.                *)

\* What the calls read holds as long as they and the accumulator stay.
LEMMA CallsKept ==
    ASSUME IInv, UNCHANGED <<acc, sync, raced>>
    PROVE  ReadInv' /\ AloneInv'
  BY DEF IInv, ReadInv, AloneInv, Height, Adding, UpToEnd

\* A proof stays one, and so does what the link has found.
LEMMA LinkKept ==
    ASSUME IInv, UNCHANGED <<sent, link, raced>>
    PROVE  LinkInv' /\ ProofsVerify'
  BY DEF IInv, LinkInv, ProofsVerify, ProofVerifies

\* The chain grows, or the contract moves on: nothing else of the invariant.
LEMMA QuietIInv ==
    ASSUME IInv, final' \in Nat, bmc' \in Numbers,
           UNCHANGED <<sent, acc, disk, main, peer, sync, arriving, link, faults, raced>>
    PROVE  IInv'
  <1>1. Types' /\ AccInv'
    BY DEF IInv, Types, AccInv, IsChain, Begins
  <1>2. PhaseInv' /\ ReachInv'
    BY DEF IInv, PhaseInv, ReachInv, Height
  <1>3. ReadInv' /\ AloneInv' /\ LinkInv' /\ ProofsVerify'
    BY CallsKept, LinkKept
  <1> HIDE DEF Numbers
  <1> QED
    BY ONLY <1>1, <1>2, <1>3 DEF IInv

\* The status of the contract is one.
LEMMA AcceptIInv ==
    ASSUME IInv, Accept
    PROVE  IInv'
  <1>1. PICK n \in bmc.number .. final :
            \E s \in bmc.seq .. SentUpTo(n) : bmc' = [number |-> n, seq |-> s]
    BY DEF Accept
  <1>2. SentUpTo(n) \in Nat
    <2>1. SentUpTo(n) \in 0 .. MaxSeq
      BY SentUpToBounded DEF IInv, Types
    <2> QED
      BY <2>1, AccumulatorAssumption
  <1>3. bmc' \in Numbers
    <2>1. /\ bmc.number \in Nat /\ bmc.seq \in Nat /\ final \in Nat
      BY DEF IInv, Types, Numbers
    <2>2. PICK s \in bmc.seq .. SentUpTo(n) : bmc' = [number |-> n, seq |-> s]
      BY <1>1
    <2>3. n \in Nat /\ s \in Nat
      BY ONLY <1>2, <2>1, n \in bmc.number .. final, s \in bmc.seq .. SentUpTo(n)
    <2> QED
      BY ONLY <2>2, <2>3 DEF Numbers
  <1> QED
    BY <1>3, QuietIInv DEF Accept, ReceiverStays, IInv, Types

-----------------------------------------------------------------------------
(* The invariant in the steps of syncAcc.                                  *)

\* A call begins.  It may find another one under way with headers to add, and
\* then there was a race.
LEMMA CallBegins ==
    ASSUME IInv, NEW t \in Threads, NEW end \in Nat, SyncBegin(t, end), acc' = acc
    PROVE  /\ sync' \in [Threads -> Calls] /\ raced' \in BOOLEAN
           /\ sync'[t].pc = "add" /\ sync'[t].end = end
           /\ \A u \in Threads \ {t} : sync'[u] = sync[u]
           /\ raced => raced'
           /\ ReadInv' /\ AloneInv'
  <1> DEFINE call == [pc |-> "add", cursor |-> Height(acc), end |-> end]
  <1>1. Height(acc) \in Nat /\ Height(acc)' = Height(acc)
    BY AccumulatorAssumption, LenProperties DEF IInv, Types, Height
  <1>2. /\ sync' = [sync EXCEPT ![t] = call]
        /\ raced' = (raced \/ (Adding(call) /\ \E u \in Threads \ {t} : Adding(sync[u])))
    BY DEF SyncBegin
  <1>3. call \in Calls /\ call.pc = "add" /\ call.cursor = Height(acc) /\ call.end = end
    BY <1>1 DEF Calls
  <1> HIDE DEF call
  <1>4. /\ sync' \in [Threads -> Calls] /\ sync'[t] = call
        /\ \A u \in Threads \ {t} : sync'[u] = sync[u]
    BY <1>2, <1>3 DEF IInv, Types
  <1>5. raced' \in BOOLEAN /\ (raced => raced')
    BY <1>2
  <1>6. ReadInv'
    <2>1. \A u \in Threads \ {t} :
              /\ sync'[u].pc = "add" => sync'[u].cursor <= Height(acc)
              /\ sync'[u].pc = "flush" => sync'[u].end < Height(acc)
      BY <1>4 DEF IInv, ReadInv
    <2>2. sync'[t].pc = "add" /\ sync'[t].cursor <= Height(acc)
      BY <1>1, <1>3, <1>4
    <2> QED
      BY <1>1, <2>1, <2>2 DEF ReadInv
  <1>7. AloneInv'
    <2>1. SUFFICES ASSUME ~raced'
                   PROVE  /\ \A u \in Threads : Adding(sync'[u]) => sync'[u].cursor = Height(acc)
                          /\ \A u, v \in Threads : Adding(sync'[u]) /\ Adding(sync'[v]) => u = v
      BY <1>1 DEF AloneInv
    <2>2. /\ \A u \in Threads : Adding(sync[u]) => sync[u].cursor = Height(acc)
          /\ \A u, v \in Threads : Adding(sync[u]) /\ Adding(sync[v]) => u = v
      BY <1>5, <2>1 DEF IInv, AloneInv
    <2>3. Adding(call) => \A u \in Threads \ {t} : ~Adding(sync[u])
      BY <1>2, <2>1
    <2> QED
      BY ONLY <1>3, <1>4, <2>2, <2>3
  <1> QED
    BY <1>3, <1>4, <1>5, <1>6, <1>7

\* A leaf is added, or the end is passed.  Without a race the leaf is the next
\* block, because nobody else has added it meanwhile.
LEMMA SyncAddIInv ==
    ASSUME IInv, NEW t \in Threads, SyncAdd(t)
    PROVE  IInv'
  <1> USE DEF IInv
  <1>1. /\ sync[t].pc = "add" /\ sync[t].cursor <= Height(acc)
        /\ sync[t].cursor \in Nat /\ sync[t].end \in Nat
        /\ sync \in [Threads -> Calls] /\ Height(acc) \in Nat
        /\ UNCHANGED <<chain, disk, main, peer, arriving, link, faults, raced>>
    <2>1. Height(acc) \in Nat
      BY AccumulatorAssumption, LenProperties DEF Types, Height
    <2>2. sync[t].cursor \in Nat /\ sync[t].end \in Nat /\ sync \in [Threads -> Calls]
      BY DEF Types, Calls
    <2>3. /\ sync[t].pc = "add"
          /\ UNCHANGED <<chain, disk, main, peer, arriving, link, faults, raced>>
      BY DEF SyncAdd
    <2> QED
      BY <2>1, <2>2, <2>3 DEF ReadInv
  <1>2. LinkInv' /\ ProofsVerify'
    BY <1>1, LinkKept DEF chain
  <1>3. CASE UpToEnd(sync[t])
    <2>1. /\ acc' = Append(acc, sync[t].cursor)
          /\ sync' = [sync EXCEPT ![t].cursor = @ + 1]
      BY <1>1, <1>3 DEF SyncAdd
    <2>2. /\ acc' \in Seq(Nat) /\ Height(acc') = Height(acc) + 1
          /\ \A one \in Seq(Nat) : Begins(one, acc) => Begins(one, acc')
          /\ IsChain(acc) /\ sync[t].cursor = Height(acc) => IsChain(acc')
      BY <1>1, <2>1, LeafAppend DEF Types
    <2>3. /\ sync' \in [Threads -> Calls]
          /\ \A u \in Threads \ {t} : sync'[u] = sync[u]
          /\ \A u \in Threads : sync'[u].pc = sync[u].pc /\ sync'[u].end = sync[u].end
          /\ sync'[t].cursor = sync[t].cursor + 1
      BY ONLY <1>1, <2>1 DEF Calls
    <2>4. Types'
      BY <1>1, <2>2, <2>3 DEF Types, chain
    <2>5. ~raced => /\ sync[t].cursor = Height(acc)
                    /\ \A u \in Threads \ {t} : ~Adding(sync[u])
      BY <1>1, <1>3 DEF AloneInv, Adding
    <2>6. AccInv'
      BY <1>1, <2>2, <2>5 DEF AccInv, Types, Begins, IsChain
    <2>7. ReadInv'
      <3>1. \A u \in Threads : /\ sync[u].cursor \in Nat /\ sync[u].end \in Nat
                               /\ sync[u].pc = "add" => sync[u].cursor <= Height(acc)
                               /\ sync[u].pc = "flush" => sync[u].end < Height(acc)
        BY <1>1 DEF ReadInv, Calls
      <3>2. \A u \in Threads : /\ sync'[u].pc = "add" => sync'[u].cursor <= Height(acc')
                               /\ sync'[u].pc = "flush" => sync'[u].end < Height(acc')
        BY ONLY <1>1, <2>2, <2>3, <3>1
      <3> QED
        BY <3>2 DEF ReadInv, Height
    <2>8. AloneInv'
      <3>1. SUFFICES ASSUME ~raced
                     PROVE  /\ \A u \in Threads : Adding(sync'[u]) => sync'[u].cursor = Height(acc')
                            /\ \A u, v \in Threads : Adding(sync'[u]) /\ Adding(sync'[v]) => u = v
        BY <1>1 DEF AloneInv, Height
      <3> QED
        BY ONLY <1>1, <2>2, <2>3, <2>5, <3>1
    <2>9. PhaseInv' /\ ReachInv'
      <3>1. PhaseInv'
        BY <1>1, <2>3 DEF PhaseInv, Threads
      <3>2. peer.number \in Nat /\ link.status.number \in Nat
        BY DEF Types, Numbers
      <3>3. Height(acc)' = Height(acc) + 1
        BY <2>2 DEF Height
      <3>4. ReachInv'
        BY <1>1, <2>3, <3>2, <3>3 DEF ReachInv, Threads
      <3> QED
        BY <3>1, <3>4
    <2> QED
      BY <1>2, <2>4, <2>6, <2>7, <2>8, <2>9
  <1>4. CASE ~UpToEnd(sync[t])
    <2>1. acc' = acc /\ sync' = [sync EXCEPT ![t].pc = "flush"]
      BY <1>1, <1>4 DEF SyncAdd
    <2>2. /\ sync' \in [Threads -> Calls]
          /\ sync'[t].pc = "flush" /\ sync'[t].end < Height(acc)
          /\ \A u \in Threads : sync'[u].end = sync[u].end
          /\ \A u \in Threads \ {t} : sync'[u] = sync[u]
      BY <1>1, <1>4, <2>1 DEF UpToEnd, Calls
    <2>3. Types' /\ AccInv'
      BY <1>1, <2>1, <2>2 DEF Types, AccInv, IsChain, Begins, chain
    <2>4. Height(acc)' = Height(acc)
      BY <2>1 DEF Height
    <2>5. ReadInv'
      BY <2>2, <2>4 DEF ReadInv
    <2>6. AloneInv'
      BY <1>1, <2>2, <2>4 DEF AloneInv, Adding, UpToEnd
    <2>7. PhaseInv' /\ ReachInv'
      BY <1>1, <2>2, <2>4 DEF PhaseInv, ReachInv, Threads
    <2> QED
      BY <1>2, <2>3, <2>5, <2>6, <2>7
  <1> QED
    BY <1>3, <1>4

\* A call ends.  With success its end is below the height.
LEMMA SyncedIInv ==
    ASSUME IInv, NEW t \in Threads, NEW ok \in BOOLEAN, sync[t].pc # "idle",
           Synced(t, ok),
           disk' \in [leaves : Seq(Nat), booted : BOOLEAN], Begins(disk'.leaves, acc),
           faults' \in Nat, ok => sync[t].end < Height(acc) /\ faults' = faults,
           ~ok => faults' # 0
    PROVE  IInv'
  <1> USE DEF IInv
  <1>1. /\ sync' = [sync EXCEPT ![t] = NoSync]
        /\ UNCHANGED <<chain, acc, arriving, raced>>
    BY DEF Synced
  <1>2. /\ sync' \in [Threads -> Calls]
        /\ sync'[t].pc = "idle"
        /\ \A u \in Threads \ {t} : sync'[u] = sync[u]
    BY <1>1 DEF Types, Calls, NoSync
  <1>3. peer' \in Numbers /\ (t # "status" => peer' = peer)
        /\ (t = "status" => peer' = arriving)
    BY DEF Synced, Types, Threads
  <1>4. Height(acc)' = Height(acc)
    BY <1>1 DEF Height
  <1>5. AccInv' /\ ReadInv' /\ AloneInv'
    <2>1. AccInv'
      BY <1>1 DEF AccInv, IsChain, Begins
    <2>2. ReadInv'
      BY <1>2, <1>4 DEF ReadInv
    <2>3. AloneInv'
      BY <1>1, <1>2, <1>4 DEF AloneInv, Adding, UpToEnd
    <2> QED
      BY <2>1, <2>2, <2>3
  <1>6. CASE t = "start"
    <2>1. main = "sync" /\ main' = IF ok THEN "fetch" ELSE "down"
      BY <1>6 DEF Synced, PhaseInv
    <2>2. UNCHANGED <<peer, link>>
      BY <1>6 DEF Synced
    <2>3. Types'
      BY <1>1, <1>2, <2>2 DEF Types, chain
    <2>4. PhaseInv'
      BY <1>2, <1>6, <2>1, <2>2 DEF PhaseInv, Threads
    <2>5. ReachInv'
      BY <1>1, <1>2, <1>4, <1>6, <2>1, <2>2 DEF ReachInv, PhaseInv, Threads
    <2>6. LinkInv' /\ ProofsVerify'
      BY <1>1, <2>2, LinkKept DEF chain
    <2> QED
      BY <1>5, <2>3, <2>4, <2>5, <2>6
  <1>7. CASE t = "status"
    <2>1. main' = main /\ link' = link /\ peer' = arriving
      BY <1>7 DEF Synced
    <2>2. Types'
      BY <1>1, <1>2, <2>1 DEF Types, chain
    <2>3. PhaseInv'
      BY <1>2, <1>7, <2>1 DEF PhaseInv, Threads
    <2>4. main = "run"
      BY <1>7 DEF PhaseInv
    <2>5. ReachInv'
      <3>1. sync["start"].pc = "idle" /\ sync'["start"] = sync["start"]
            /\ sync'["link"] = sync["link"]
        BY <1>2, <1>7, <2>4 DEF PhaseInv, Threads
      <3>2. sync["status"].end = arriving.number /\ sync'["status"].pc = "idle"
        BY <1>2, <1>7 DEF ReachInv
      <3> QED
        BY <1>1, <1>4, <1>7, <2>1, <3>1, <3>2 DEF ReachInv
    <2>6. LinkInv' /\ ProofsVerify'
      BY <1>1, <2>1, LinkKept DEF chain
    <2> QED
      BY <1>5, <2>2, <2>3, <2>5, <2>6
  <1>8. CASE t = "link"
    <2>1. /\ main' = main /\ peer' = peer
          /\ link' = IF ok THEN [link EXCEPT !.pc = "witness"] ELSE Idle
          /\ link.pc = "sync"
      BY <1>8 DEF Synced, PhaseInv
    <2>2. link' \in [pc : {"idle", "height", "found", "sync", "witness", "proved"},
                     status : Numbers, seq : 0 .. MaxSeq, height : Nat,
                     proof : [header : Nat, leaves : Seq(Nat), at : Nat]]
      <3>1. << >> \in Seq(Nat)
        BY EmptySeq
      <3>2. CASE ok
        BY <2>1, <3>2 DEF Types
      <3>3. CASE ~ok
        BY <2>1, <3>1, <3>3, AccumulatorAssumption
           DEF Idle, NoProof, NoBlock, Numbers
      <3> QED
        BY <3>2, <3>3
    <2>3. Types'
      BY <1>1, <1>2, <2>1, <2>2 DEF Types, chain
    <2>4. main = "run" /\ sync["link"].end = link.status.number
      BY <1>8 DEF PhaseInv, ReachInv
    <2>5. PhaseInv'
      BY <1>2, <1>8, <2>1, <2>4 DEF PhaseInv, Threads
    <2>6. ReachInv'
      <3>1. /\ sync'["start"] = sync["start"] /\ sync'["status"] = sync["status"]
            /\ sync'["link"].pc = "idle"
        BY <1>2, <1>8 DEF Threads
      <3>2. link'.pc = "witness" => link'.status.number < Height(acc)
        BY <1>8, <2>1, <2>2, <2>4 DEF Types, Idle
      <3> QED
        BY <1>1, <1>4, <2>1, <3>1, <3>2 DEF ReachInv
    <2>7. LinkInv' /\ ProofsVerify'
      BY <1>1, <2>1, <2>2 DEF LinkInv, ProofsVerify, ProofVerifies, Idle, chain, Types
    <2> QED
      BY <1>5, <2>3, <2>5, <2>6, <2>7
  <1> QED
    BY <1>6, <1>7, <1>8 DEF Threads

-----------------------------------------------------------------------------
(* The invariant in the ends of syncAcc, with success and without.         *)

\* A call of syncAcc that ends writes the whole accumulator.
LEMMA SyncFlushIInv ==
    ASSUME IInv, NEW t \in Threads, SyncFlush(t)
    PROVE  IInv'
  <1>1. sync[t].pc # "idle" /\ sync[t].end < Height(acc)
    BY DEF SyncFlush, IInv, ReadInv
  <1>2. /\ disk' \in [leaves : Seq(Nat), booted : BOOLEAN]
        /\ disk'.leaves = acc
    BY DEF SyncFlush, IInv, Types
  <1>3. Begins(disk'.leaves, acc) /\ faults' = faults /\ faults \in Nat
    BY <1>2, BeginsItself DEF SyncFlush, IInv, Types
  <1>4. Synced(t, TRUE)
    BY DEF SyncFlush
  <1> QED
    BY <1>1, <1>2, <1>3, <1>4, SyncedIInv

\* A call of syncAcc that fails leaves what is flushed as it was.
LEMMA SyncFailsIInv ==
    ASSUME IInv, NEW t \in Threads, SyncFails(t)
    PROVE  IInv'
  <1>1. /\ sync[t].pc # "idle" /\ Synced(t, FALSE)
        /\ disk' = disk /\ faults' = faults + 1
    BY DEF SyncFails
  <1>2. faults' \in Nat /\ faults' # 0
    BY <1>1 DEF IInv, Types
  <1>3. /\ disk' \in [leaves : Seq(Nat), booted : BOOLEAN]
        /\ Begins(disk'.leaves, acc)
    BY <1>1 DEF IInv, Types, AccInv
  <1> QED
    BY <1>1, <1>2, <1>3, SyncedIInv

-----------------------------------------------------------------------------
(* The invariant in the steps of Start.                                    *)

\* A step that leaves the accumulator and the calls alone, and keeps the other
\* threads quiet.
LEMMA PhaseIInv ==
    ASSUME IInv, main # "run", main # "sync", main' # "sync", faults' \in Nat,
           faults = 0 \/ faults' # 0,
           faults' = 0 /\ main' \in {"fetch", "enter", "run"} =>
               main \in {"fetch", "enter", "run"},
           UNCHANGED <<chain, acc, disk, peer, sync, arriving, link, raced>>
    PROVE  IInv'
  <1> USE DEF IInv
  <1>1. Types' /\ AccInv'
    BY DEF Types, AccInv, IsChain, Begins, chain
  <1>2. \A t \in Threads : sync[t].pc = "idle"
    BY DEF PhaseInv, Threads
  <1>3. PhaseInv' /\ ReachInv'
    BY <1>2 DEF PhaseInv, ReachInv, Height, Threads
  <1>4. ReadInv' /\ AloneInv' /\ LinkInv' /\ ProofsVerify'
    BY CallsKept, LinkKept DEF chain
  <1> QED
    BY <1>1, <1>3, <1>4

\* Threads that are all quiet have read nothing.
LEMMA QuietCalls ==
    ASSUME \A t \in Threads : sync'[t].pc = "idle"
    PROVE  ReadInv' /\ AloneInv'
  BY DEF ReadInv, AloneInv, Adding

\* The first leaf.
LEMMA PrepareIInv ==
    ASSUME IInv, Prepare
    PROVE  IInv'
  <1> USE DEF IInv
  <1>1. /\ main = "prepare" /\ main' = "boot"
        /\ UNCHANGED <<chain, peer, sync, arriving, link, faults, raced>>
    BY DEF Prepare
  <1>2. \A t \in Threads : sync[t].pc = "idle"
    BY <1>1 DEF PhaseInv, Threads
  <1>3. /\ <<Offset>> \in Seq(Nat) /\ Len(<<Offset>>) = 1 /\ IsChain(<<Offset>>)
    BY AccumulatorAssumption DEF IsChain
  <1>4. CASE acc = << >>
    <2>1. acc' = <<Offset>> /\ disk' = [disk EXCEPT !.leaves = <<Offset>>]
      BY <1>4 DEF Prepare
    <2>2. Types'
      BY <1>1, <1>3, <2>1 DEF Types, chain
    <2>3. disk'.leaves = <<Offset>>
      BY <2>1 DEF Types
    <2>4. AccInv'
      BY <1>3, <2>1, <2>3, BeginsItself DEF AccInv, Begins, IsChain
    <2>5. ReadInv' /\ AloneInv'
      BY <1>1, <1>2, QuietCalls
    <2>6. PhaseInv' /\ ReachInv'
      BY <1>1, <1>2 DEF PhaseInv, ReachInv, Threads
    <2>7. LinkInv' /\ ProofsVerify'
      BY <1>1, LinkKept DEF chain
    <2> QED
      BY <2>2, <2>4, <2>5, <2>6, <2>7
  <1>5. CASE acc # << >>
    <2>1. UNCHANGED <<acc, disk>>
      BY <1>5 DEF Prepare
    <2>2. faults \in Nat
      BY DEF Types
    <2> QED
      BY <1>1, <2>1, <2>2, PhaseIInv
  <1> QED
    BY <1>4, <1>5

\* The boot snapshot is no part of the accumulator.
LEMMA BootIInv ==
    ASSUME IInv, Boot
    PROVE  IInv'
  <1> USE DEF IInv
  <1>1. /\ main = "boot" /\ main' = "ensure"
        /\ disk' = [disk EXCEPT !.booted = TRUE]
        /\ UNCHANGED <<chain, acc, peer, sync, arriving, link, faults, raced>>
    BY DEF Boot
  <1>2. disk' \in [leaves : Seq(Nat), booted : BOOLEAN] /\ disk'.leaves = disk.leaves
    BY <1>1 DEF Types
  <1>3. Types' /\ AccInv'
    BY <1>1, <1>2 DEF Types, AccInv, IsChain, Begins, chain
  <1>4. PhaseInv' /\ ReachInv'
    BY <1>1 DEF PhaseInv, ReachInv, Threads
  <1>5. ReadInv' /\ AloneInv' /\ LinkInv' /\ ProofsVerify'
    BY <1>1, CallsKept, LinkKept DEF chain
  <1> QED
    BY <1>3, <1>4, <1>5

\* Start calls syncAcc for the block of the contract.
LEMMA SynchronizeIInv ==
    ASSUME IInv, Synchronize
    PROVE  IInv'
  <1> USE DEF IInv
  <1>1. /\ main = "ensure" /\ main' = "sync" /\ SyncBegin("start", peer.number)
        /\ UNCHANGED <<chain, acc, disk, peer, arriving, link, faults>>
    BY DEF Synchronize
  <1>2. "start" \in Threads /\ peer.number \in Nat
    BY DEF Threads, Types, Numbers
  <1>3. /\ sync' \in [Threads -> Calls] /\ raced' \in BOOLEAN
        /\ sync'["start"].end = peer.number
        /\ \A u \in Threads \ {"start"} : sync'[u] = sync[u]
        /\ raced => raced'
        /\ ReadInv' /\ AloneInv'
    BY <1>1, <1>2, CallBegins
  <1>4. Types' /\ AccInv'
    BY <1>1, <1>3 DEF Types, AccInv, IsChain, Begins, chain
  <1>5. PhaseInv' /\ ReachInv'
    BY <1>1, <1>3 DEF PhaseInv, ReachInv, Threads
  <1>6. LinkInv' /\ ProofsVerify'
    BY <1>1, <1>3 DEF LinkInv, ProofsVerify, ProofVerifies, chain
  <1> QED
    BY <1>3, <1>4, <1>5, <1>6

\* Start looks for messages.
LEMMA FetchMissingIInv == ASSUME IInv, FetchMissing PROVE IInv'
  BY PhaseIInv DEF FetchMissing, IInv, Types

\* Start returns, and the other threads may move.
LEMMA EnterIInv == ASSUME IInv, Enter PROVE IInv'
  BY PhaseIInv DEF Enter, IInv, Types

\* Start stops with an error.
LEMMA StartFailsIInv == ASSUME IInv, StartFails PROVE IInv'
  <1>1. faults \in Nat /\ faults' = faults + 1
    BY DEF StartFails, IInv, Types
  <1> QED
    BY <1>1, PhaseIInv DEF StartFails

\* What is read back is what was in memory, as far as it was flushed.
LEMMA RestartIInv ==
    ASSUME IInv, Restart
    PROVE  IInv'
  <1> USE DEF IInv
  <1>1. /\ main = "down" /\ main' = "prepare" /\ acc' = disk.leaves
        /\ peer' = bmc /\ arriving' = bmc
        /\ UNCHANGED <<chain, disk, sync, link, faults, raced>>
    BY DEF Restart
  <1>2. disk.leaves \in Seq(Nat) /\ acc \in Seq(Nat)
    BY DEF Types
  <1>3. \A t \in Threads : sync[t].pc = "idle"
    BY <1>1 DEF PhaseInv, Threads
  <1>4. Types'
    BY <1>1, <1>2 DEF Types, chain
  <1>5. AccInv'
    <2>1. Begins(disk.leaves, disk.leaves)
      BY <1>2, BeginsItself
    <2>2. ~raced => IsChain(disk.leaves)
      BY <1>2, LenProperties DEF AccInv, IsChain, Begins
    <2> QED
      BY <1>1, <2>1, <2>2 DEF AccInv, IsChain, Begins
  <1>6. ReadInv' /\ AloneInv'
    BY <1>1, <1>3, QuietCalls
  <1>7. PhaseInv' /\ ReachInv'
    BY <1>1, <1>3 DEF PhaseInv, ReachInv, Threads
  <1>8. LinkInv' /\ ProofsVerify'
    BY <1>1, LinkKept DEF chain
  <1> QED
    BY <1>4, <1>5, <1>6, <1>7, <1>8

-----------------------------------------------------------------------------
(* The invariant in the steps of the running receiver and of the link.     *)

\* The goroutine of FinalizedStatus calls syncAcc for the block of its status.
LEMMA FinalizedStatusIInv ==
    ASSUME IInv, FinalizedStatus
    PROVE  IInv'
  <1> USE DEF IInv
  <1>1. /\ main = "run" /\ SyncBegin("status", bmc.number) /\ arriving' = bmc
        /\ UNCHANGED <<chain, acc, disk, main, peer, link, faults>>
    BY DEF FinalizedStatus
  <1>2. "status" \in Threads /\ bmc.number \in Nat
    BY DEF Threads, Types, Numbers
  <1>3. /\ sync' \in [Threads -> Calls] /\ raced' \in BOOLEAN
        /\ sync'["status"].end = bmc.number
        /\ \A u \in Threads \ {"status"} : sync'[u] = sync[u]
        /\ raced => raced'
        /\ ReadInv' /\ AloneInv'
    BY <1>1, <1>2, CallBegins
  <1>4. Types' /\ AccInv'
    BY <1>1, <1>3 DEF Types, AccInv, IsChain, Begins, chain
  <1>5. PhaseInv' /\ ReachInv'
    BY <1>1, <1>3 DEF PhaseInv, ReachInv, Threads, Height
  <1>6. LinkInv' /\ ProofsVerify'
    BY <1>1, <1>3 DEF LinkInv, ProofsVerify, ProofVerifies, chain
  <1> QED
    BY <1>3, <1>4, <1>5, <1>6

LinkType ==
    [pc : {"idle", "height", "found", "sync", "witness", "proved"},
     status : Numbers, seq : 0 .. MaxSeq, height : Nat,
     proof : [header : Nat, leaves : Seq(Nat), at : Nat]]

\* A link without a request has the type of a link.
LEMMA IdleType == Idle \in LinkType /\ Idle.pc = "idle"
  <1>1. << >> \in Seq(Nat)
    BY EmptySeq
  <1> QED
    BY <1>1, AccumulatorAssumption DEF Idle, LinkType, NoProof, NoBlock, Numbers

\* A step of the link alone, outside of syncAcc.
LEMMA LinkIInv ==
    ASSUME IInv, link' \in LinkType, sync["link"].pc = "idle",
           main # "run" => link'.pc = "idle", link'.pc # "witness",
           LinkInv', ProofsVerify', faults' \in Nat, faults = 0 \/ faults' # 0,
           UNCHANGED <<chain, acc, disk, main, peer, sync, arriving, raced>>
    PROVE  IInv'
  <1>1. Types' /\ AccInv'
    BY DEF IInv, Types, LinkType, AccInv, IsChain, Begins, chain
  <1>2. PhaseInv' /\ ReachInv'
    BY DEF IInv, PhaseInv, ReachInv, Height
  <1>3. ReadInv' /\ AloneInv'
    BY CallsKept
  <1> QED
    BY <1>1, <1>2, <1>3 DEF IInv

\* The link asks for a message that there is.
LEMMA AskIInv ==
    ASSUME IInv, Ask
    PROVE  IInv'
  <1> USE DEF IInv
  <1>1. /\ main = "run" /\ link.pc = "idle"
        /\ link' = [Idle EXCEPT !.pc = "height", !.status = bmc, !.seq = bmc.seq + 1]
        /\ UNCHANGED <<chain, acc, disk, main, peer, sync, arriving, faults, raced>>
    BY DEF Ask, Linking
  <1>2. bmc.seq + 1 \in 1 .. MaxSeq
    <2>1. \A n : SentUpTo(n) \in 0 .. MaxSeq
      BY SentUpToBounded DEF Types
    <2>2. bmc.seq < SentUpTo(local.number) /\ SentUpTo(local.number) \in 0 .. MaxSeq
      BY <2>1 DEF Ask
    <2>3. bmc.seq \in Nat /\ MaxSeq \in Nat
      BY AccumulatorAssumption DEF Types, Numbers
    <2> QED
      BY <2>2, <2>3
  <1>3. /\ link' \in LinkType
        /\ link'.pc = "height" /\ link'.seq = bmc.seq + 1
    <2>1. Idle \in LinkType
      BY IdleType
    <2>2. bmc \in Numbers /\ bmc.seq + 1 \in 0 .. MaxSeq
      BY <1>2 DEF Types
    <2> QED
      BY <1>1, <2>1, <2>2 DEF LinkType
  <1>4. LinkInv' /\ ProofsVerify'
    BY <1>2, <1>3 DEF LinkInv, ProofsVerify, ProofVerifies
  <1>5. sync["link"].pc = "idle" /\ faults' \in Nat
    BY <1>1 DEF PhaseInv, Types
  <1> QED
    BY <1>1, <1>3, <1>4, <1>5, LinkIInv

\* Cache and query know the block of the message or none.
LEMMA GetHeightForSeqIInv ==
    ASSUME IInv, GetHeightForSeq
    PROVE  IInv'
  <1> USE DEF IInv
  <1>1. /\ link.pc = "height"
        /\ link' = [link EXCEPT !.pc = "found", !.height = HeightOf(link.seq)]
        /\ UNCHANGED <<chain, acc, disk, main, peer, sync, arriving, faults, raced>>
    BY DEF GetHeightForSeq, Linking
  <1>2. HeightOf(link.seq) \in {NoBlock, sent[link.seq]}
    BY DEF HeightOf, MessageBySequence
  <1>3. link.seq \in 1 .. MaxSeq /\ sent[link.seq] \in Nat
    BY <1>1 DEF LinkInv, Types
  <1>4. /\ link' \in LinkType
        /\ link'.pc = "found" /\ link'.height = HeightOf(link.seq)
        /\ link'.seq = link.seq
    <2>1. HeightOf(link.seq) \in Nat
      BY <1>2, <1>3 DEF NoBlock
    <2> QED
      BY <1>1, <2>1 DEF Types, LinkType
  <1>5. sent' = sent
    BY <1>1 DEF chain
  <1>6. LinkInv' /\ ProofsVerify'
    BY <1>2, <1>3, <1>4, <1>5 DEF LinkInv, ProofsVerify, ProofVerifies
  <1>7. sync["link"].pc = "idle" /\ main = "run" /\ faults' \in Nat
    BY <1>1 DEF PhaseInv, Types
  <1> QED
    BY <1>1, <1>4, <1>6, <1>7, LinkIInv

\* The link gives up, for now.
LEMMA LinkStopsIInv ==
    ASSUME IInv, link' = Idle, sync["link"].pc = "idle",
           faults' \in Nat, faults = 0 \/ faults' # 0,
           UNCHANGED <<chain, acc, disk, main, peer, sync, arriving, raced>>
    PROVE  IInv'
  <1>1. link' \in LinkType /\ link'.pc = "idle"
    BY IdleType
  <1>2. LinkInv' /\ ProofsVerify'
    BY <1>1 DEF LinkInv, ProofsVerify, ProofVerifies
  <1> QED
    BY <1>1, <1>2, LinkIInv

\* A query of the link fails: the link is without a request again.
LEMMA QueryFailsIInv == ASSUME IInv, QueryFails PROVE IInv'
  <1>1. faults \in Nat /\ faults' = faults + 1 /\ link.pc = "height"
    BY DEF QueryFails, IInv, Types
  <1>2. sync["link"].pc = "idle"
    BY <1>1 DEF IInv, PhaseInv
  <1> QED
    BY <1>1, <1>2, LinkStopsIInv DEF QueryFails

\* The link sends a finished proof: it is without a request again.
LEMMA RelayIInv == ASSUME IInv, Relay PROVE IInv'
  <1>1. faults \in Nat /\ faults' = faults /\ link.pc = "proved"
    BY DEF Relay, Linking, IInv, Types
  <1>2. sync["link"].pc = "idle"
    BY <1>1 DEF IInv, PhaseInv
  <1> QED
    BY <1>1, <1>2, LinkStopsIInv DEF Relay, Linking

\* A block that the contract has reached is a block, not NoBlock.
LEMMA BuildBlockProofIInv ==
    ASSUME IInv, BuildBlockProof
    PROVE  IInv'
  <1> USE DEF IInv
  <1>1. /\ link.pc = "found"
        /\ UNCHANGED <<chain, acc, disk, main, peer, arriving, faults>>
    BY DEF BuildBlockProof, Linking
  <1>2. /\ sync["link"].pc = "idle" /\ main = "run" /\ faults' \in Nat
    BY <1>1 DEF PhaseInv, Types
  <1>3. CASE link.height \in Offset .. link.status.number
    <2>1. /\ SyncBegin("link", link.status.number)
          /\ link' = [link EXCEPT !.pc = "sync"]
      BY <1>3 DEF BuildBlockProof
    <2>2. "link" \in Threads /\ link.status.number \in Nat
      BY DEF Threads, Types, Numbers
    <2>3. /\ sync' \in [Threads -> Calls] /\ raced' \in BOOLEAN
          /\ sync'["link"].end = link.status.number
          /\ \A u \in Threads \ {"link"} : sync'[u] = sync[u]
          /\ raced => raced'
          /\ ReadInv' /\ AloneInv'
      BY <1>1, <2>1, <2>2, CallBegins
    <2>4. /\ link' \in LinkType
          /\ link'.pc = "sync" /\ link'.height = link.height
          /\ link'.seq = link.seq /\ link'.status = link.status
      BY <2>1 DEF Types, LinkType
    <2>5. Types' /\ AccInv'
      BY <1>1, <2>3, <2>4 DEF Types, LinkType, AccInv, IsChain, Begins, chain
    <2>6. PhaseInv' /\ ReachInv'
      BY <1>1, <1>2, <2>3, <2>4 DEF PhaseInv, ReachInv, Threads, Height
    <2>7. link.height # NoBlock
      BY <1>3, AccumulatorAssumption DEF NoBlock
    <2>8. LinkInv' /\ ProofsVerify'
      BY <1>1, <1>3, <2>4, <2>7 DEF LinkInv, ProofsVerify, ProofVerifies, chain
    <2> QED
      BY <2>3, <2>5, <2>6, <2>8
  <1>4. CASE link.height \notin Offset .. link.status.number
    <2>1. link' = Idle /\ sync' = sync /\ raced' = raced
      BY <1>4 DEF BuildBlockProof, NextRound
    <2> QED
      BY <1>1, <1>2, <2>1, LinkStopsIInv
  <1> QED
    BY <1>3, <1>4

\* The witness is taken from a chain that reaches the block of the contract.
LEMMA WitnessIInv ==
    ASSUME IInv, Witness
    PROVE  IInv'
  <1> USE DEF IInv
  <1>1. /\ link.pc = "witness"
        /\ UNCHANGED <<chain, acc, disk, main, peer, sync, arriving, faults, raced>>
    BY DEF Witness, Linking
  <1>2. sync["link"].pc = "idle" /\ main = "run" /\ faults' \in Nat
    BY <1>1 DEF PhaseInv, Types
  <1>3. CASE link.status.number < Height(acc)
    <2> DEFINE proof == WitnessForAt(acc, link.height, link.status.number)
    <2>1. link' = [link EXCEPT !.pc = "proved", !.proof = proof]
      BY <1>3 DEF Witness
    <2>2. /\ link.status.number \in Nat /\ acc \in Seq(Nat)
          /\ ~raced => IsChain(acc)
          /\ link.height = sent[link.seq] /\ link.seq \in 1 .. MaxSeq
          /\ link.height \in Offset .. link.status.number
      BY <1>1 DEF Types, Numbers, AccInv, LinkInv
    <2>3. proof \in [header : Nat, leaves : Seq(Nat), at : Nat]
      BY <1>3, <2>2, WitnessType
    <2>4. ~raced =>
              /\ proof.header = link.height
              /\ proof.leaves = [i \in 1 .. link.status.number + 1 - Offset |-> Offset + i - 1]
              /\ proof.at \in DOMAIN proof.leaves
              /\ proof.leaves[proof.at] = proof.header
      BY <1>3, <2>2, WitnessOfChain
    <2> HIDE DEF proof
    <2>5. /\ link' \in LinkType
          /\ link'.pc = "proved" /\ link'.proof = proof /\ link'.height = link.height
          /\ link'.seq = link.seq /\ link'.status = link.status
      BY <2>1, <2>3 DEF Types, LinkType
    <2>6. sent' = sent /\ raced' = raced
      BY <1>1 DEF chain
    <2>7. LinkInv'
      BY <2>2, <2>5, <2>6 DEF LinkInv
    <2>8. ProofsVerify'
      BY <2>2, <2>4, <2>5, <2>6 DEF ProofsVerify, ProofVerifies
    <2> QED
      BY <1>1, <1>2, <2>5, <2>7, <2>8, LinkIInv
  <1>4. CASE ~(link.status.number < Height(acc))
    <2>1. link' = Idle
      BY <1>4 DEF Witness
    <2> QED
      BY <1>1, <1>2, <2>1, LinkStopsIInv
  <1> QED
    BY <1>3, <1>4

\* A crash leaves nobody in a call.
LEMMA CrashIInv ==
    ASSUME IInv, Crash
    PROVE  IInv'
  <1> USE DEF IInv
  <1>1. /\ main' = "down" /\ faults' = faults + 1
        /\ sync' = [t \in Threads |-> NoSync] /\ link' = Idle
        /\ UNCHANGED <<chain, acc, disk, peer, arriving, raced>>
    BY DEF Crash
  <1>2. link' \in LinkType /\ link'.pc = "idle"
    BY <1>1, IdleType
  <1>3. Types' /\ AccInv'
    BY <1>1, <1>2 DEF Types, LinkType, Calls, NoSync, AccInv, IsChain, Begins, chain
  <1>4. \A t \in Threads : sync'[t].pc = "idle"
    BY <1>1 DEF NoSync
  <1>5. ReadInv' /\ AloneInv'
    BY <1>4, QuietCalls
  <1>6. PhaseInv' /\ ReachInv'
    BY <1>1, <1>2, <1>4 DEF PhaseInv, ReachInv, Threads
  <1>7. LinkInv' /\ ProofsVerify'
    BY <1>2 DEF LinkInv, ProofsVerify, ProofVerifies
  <1> QED
    BY <1>3, <1>5, <1>6, <1>7

-----------------------------------------------------------------------------
(* The theorems.                                                           *)

\* Every step keeps the invariant.
LEMMA NextIInv ==
    ASSUME IInv, [Next]_vars
    PROVE  IInv'
  <1>1. CASE Finalize
    BY <1>1, QuietIInv DEF Finalize, ReceiverStays, IInv, Types
  <1>2. CASE Accept
    BY <1>2, AcceptIInv
  <1>3. CASE Start
    <2>1. "start" \in Threads
      BY DEF Threads
    <2> QED
      BY <1>3, <2>1, PrepareIInv, BootIInv, SynchronizeIInv, SyncAddIInv,
         SyncFlushIInv, FetchMissingIInv, EnterIInv DEF Start
  <1>4. CASE Advance
    BY <1>4, QuietIInv DEF Advance, chain, IInv, Types
  <1>5. CASE StatusLoop
    <2>1. "status" \in Threads
      BY DEF Threads
    <2> QED
      BY <1>5, <2>1, FinalizedStatusIInv, SyncAddIInv, SyncFlushIInv DEF StatusLoop
  <1>6. CASE Ask
    BY <1>6, AskIInv
  <1>7. CASE Link
    <2>1. "link" \in Threads
      BY DEF Threads
    <2> QED
      BY <1>7, <2>1, GetHeightForSeqIInv, BuildBlockProofIInv, SyncAddIInv,
         SyncFlushIInv, WitnessIInv, RelayIInv DEF Link
  <1>8. CASE Fails
    BY <1>8, StartFailsIInv, QueryFailsIInv, SyncFailsIInv DEF Fails
  <1>9. CASE Crash
    BY <1>9, CrashIInv
  <1>10. CASE Restart
    BY <1>10, RestartIInv
  <1>11. CASE UNCHANGED vars
    BY <1>11, QuietIInv DEF vars, IInv, Types
  <1> QED
    BY <1>1, <1>2, <1>3, <1>4, <1>5, <1>6, <1>7, <1>8, <1>9, <1>10, <1>11 DEF Next

\* The invariant of the accumulator, its callers and the link.
THEOREM Invariance == Safe => []IInv
  <1>1. IInv /\ [Next]_vars => IInv'
    BY NextIInv
  <1> QED
    BY InitIInv, <1>1, PTL DEF Safe

\* Unless two calls of syncAcc had headers to add at the same time, the
\* accumulator has the leaves of the contract through failures, crashes and
\* restarts; and what is flushed begins what is in memory, even then.
THEOREM AccumulatorSafety == Safe => []AccumulatorIsChain
  <1>1. IInv => AccumulatorIsChain
    <2> SUFFICES ASSUME IInv PROVE AccumulatorIsChain
      OBVIOUS
    <2>1. /\ acc \in Seq(Nat) /\ disk.leaves \in Seq(Nat)
          /\ ~raced => IsChain(acc)
          /\ Begins(disk.leaves, acc)
      BY DEF IInv, Types, AccInv
    <2> DEFINE n == Len(disk.leaves)
               a == SubSeq(disk.leaves, 1, n)
               b == SubSeq(acc, 1, n)
    <2>2. n \in Nat /\ Len(acc) \in Nat /\ DOMAIN acc = 1 .. Len(acc) /\ n <= Len(acc)
      BY <2>1, LenProperties DEF Begins
    <2>3. \A i \in 1 .. n : disk.leaves[i] \in Nat /\ acc[i] \in Nat
      <3>1. \A i \in 1 .. n : disk.leaves[i] \in Nat
        BY <2>1, ElementOfSeq
      <3> QED
        BY <2>1, <3>1 DEF Begins
    <2>4. /\ a \in Seq(Nat) /\ Len(a) = n /\ \A i \in 1 .. n : a[i] = disk.leaves[i]
      BY <2>2, <2>3, SubSeqProperties
    <2>5. /\ b \in Seq(Nat) /\ Len(b) = n /\ \A i \in 1 .. n : b[i] = acc[i]
      BY <2>2, <2>3, SubSeqProperties
    <2>6. \A i \in 1 .. n : a[i] = b[i]
      BY <2>1, <2>4, <2>5 DEF Begins
    <2> HIDE DEF a, b
    <2>7. a = b
      BY <2>4, <2>5, <2>6, SeqEqual
    <2>8. IsPrefix(disk.leaves, acc)
      BY <2>2, <2>7 DEF IsPrefix, a, b
    <2> QED
      BY <2>1, <2>2, <2>8 DEF AccumulatorIsChain, IsChain
  <1> QED
    BY Invariance, <1>1, PTL

\* A block proof given to the link verifies: it is about the block of the
\* message, and the contract finds that block in its own accumulator.  Only a
\* race of two calls of syncAcc makes one that does not.
THEOREM ProofSafety == Safe => []ProofsVerify
  <1>1. IInv => ProofsVerify
    BY DEF IInv
  <1> QED
    BY Invariance, <1>1, PTL

\* Without a failure the accumulator is never behind the status taken as the
\* peer's, and the link never asks a witness of one that is too short.
THEOREM CoverageSafety == Safe => []CoversPeer
  <1>1. IInv => CoversPeer
    BY DEF IInv, ReachInv, CoversPeer
  <1> QED
    BY Invariance, <1>1, PTL
-----------------------------------------------------------------------------
(* The search for messages.  Messages are sent in the order of their       *)
(* numbers.                                                                *)

Ascending == \A s, t \in 1 .. MaxSeq : s < t => sent[s] <= sent[t]

\* The messages sent up to a block are the first ones.
LEMMA SentFirst ==
    ASSUME sent \in [1 .. MaxSeq -> Nat], Ascending, NEW n \in Int
    PROVE  /\ SentUpTo(n) \in 0 .. MaxSeq
           /\ \A s \in 1 .. MaxSeq : sent[s] <= n <=> s <= SentUpTo(n)
  <1> DEFINE S == {s \in DOMAIN sent : sent[s] <= n}
             T == {t \in 0 .. MaxSeq : t + 1 \notin S}
  <1>1. MaxSeq \in Nat /\ DOMAIN sent = 1 .. MaxSeq
    BY AccumulatorAssumption
  <1>2. PICK c \in T : \A t \in T : c <= t
    <2>1. MaxSeq \in T /\ T \in SUBSET Nat
      BY <1>1
    <2> HIDE DEF T
    <2> QED
      BY <2>1, LeastNatural
  <1>3. S = 1 .. c
    <2>1. ASSUME NEW s \in 1 .. c
          PROVE  s \in S
      <3>1. s - 1 \in 0 .. MaxSeq /\ s - 1 \notin T /\ (s - 1) + 1 = s
        BY <1>1, <1>2
      <3> QED
        BY <3>1
    <2>2. ASSUME NEW s \in S
          PROVE  s \in 1 .. c
      <3>1. c \in 0 .. MaxSeq /\ c + 1 \notin S /\ s \in 1 .. MaxSeq
        BY <1>1, <1>2
      <3>2. CASE c < s
        <4>1. c + 1 \in 1 .. MaxSeq /\ (c + 1 = s \/ c + 1 < s)
          BY <1>1, <3>1, <3>2
        <4>2. sent[c + 1] <= sent[s]
          BY <1>1, <3>1, <4>1 DEF Ascending
        <4>3. sent[c + 1] \in Nat /\ sent[s] \in Nat
          BY <3>1, <4>1
        <4>4. ~(sent[c + 1] <= n)
          BY <1>1, <3>1, <4>1
        <4> QED
          BY <4>2, <4>3, <4>4
      <3> QED
        BY <1>1, <3>1, <3>2
    <2> QED
      BY <2>1, <2>2
  <1>4. Cardinality(1 .. c) = c /\ c \in 0 .. MaxSeq
    <2>1. c \in Nat /\ c \in 0 .. MaxSeq
      BY <1>1, <1>2
    <2> QED
      BY <2>1, FS_Interval
  <1>5. SentUpTo(n) = c
    BY <1>3, <1>4 DEF SentUpTo
  <1>6. ASSUME NEW s \in 1 .. MaxSeq
        PROVE  sent[s] <= n <=> s <= c
    <2>1. sent[s] <= n <=> s \in S
      BY <1>1
    <2> QED
      BY <1>1, <1>3, <1>4, <2>1
  <1> QED
    BY <1>4, <1>5, <1>6

\* The events of a query, in order: each of them, the last one the greatest.
LEMMA EventsInOrder ==
    ASSUME sent \in [1 .. MaxSeq -> Nat], Ascending,
           NEW first \in Nat, NEW last \in Nat, NEW sequence \in Nat
    PROVE  LET found  == {s \in DOMAIN sent : sent[s] \in first .. last /\ s > sequence}
               events == EventsIn(sent, first, last, sequence)
           IN  /\ events \in Seq(1 .. MaxSeq)
               /\ ToSet(events) = found
               /\ events = << >> <=> found = {}
               /\ events # << >> => /\ Last(events) \in found
                                   /\ \A s \in found : s <= Last(events)
  <1> DEFINE found == {s \in DOMAIN sent : sent[s] \in first .. last /\ s > sequence}
             events == EventsIn(sent, first, last, sequence)
             n == Cardinality(found)
             before == SentUpTo(first - 1)
             low == IF sequence < before THEN before ELSE sequence
             high == SentUpTo(last)
             sorted(f) == \A i, j \in DOMAIN f : i < j => f[i] < f[j]
  <1>1. MaxSeq \in Nat /\ DOMAIN sent = 1 .. MaxSeq
    BY AccumulatorAssumption
  <1>2. /\ before \in Nat /\ \A s \in 1 .. MaxSeq : sent[s] <= first - 1 <=> s <= before
        /\ high \in Nat /\ high <= MaxSeq /\ \A s \in 1 .. MaxSeq : sent[s] <= last <=> s <= high
    <2>1. first - 1 \in Int /\ last \in Int
      OBVIOUS
    <2> QED
      BY <1>1, <2>1, SentFirst
  <1>3. found = low + 1 .. high
    <2>1. ASSUME NEW s \in 1 .. MaxSeq
          PROVE  s \in found <=> before < s /\ s <= high /\ sequence < s
      <3>1. sent[s] \in Nat
        OBVIOUS
      <3>2. sent[s] \in first .. last <=> ~(sent[s] <= first - 1) /\ sent[s] <= last
        BY ONLY <3>1, first \in Nat, last \in Nat
      <3> QED
        BY <1>1, <1>2, <3>2
    <2>2. found \subseteq 1 .. MaxSeq
      BY <1>1
    <2>3. before \in Nat /\ high \in Nat /\ high <= MaxSeq
      BY <1>2
    <2> HIDE DEF before, high, found
    <2>4. \A s \in Int : s \in low + 1 .. high <=> before < s /\ s <= high /\ sequence < s
      BY ONLY <2>3, sequence \in Nat
    <2>5. low + 1 .. high \subseteq 1 .. MaxSeq
      BY ONLY <1>1, <2>3, sequence \in Nat
    <2> HIDE DEF low
    <2>6. 1 .. MaxSeq \subseteq Int
      OBVIOUS
    <2> QED
      BY ONLY <2>1, <2>2, <2>4, <2>5, <2>6
  <1>4. low \in Nat /\ high \in Nat
    BY <1>2
  <1>5. /\ IsFiniteSet(found)
        /\ n = IF low + 1 > high THEN 0 ELSE high - low
        /\ n \in Nat
    <2> HIDE DEF low, high, found
    <2>1. /\ low + 1 \in Int /\ high \in Int
      BY <1>4
    <2>2. /\ IsFiniteSet(low + 1 .. high)
          /\ Cardinality(low + 1 .. high) = IF low + 1 > high THEN 0 ELSE high - (low + 1) + 1
      BY ONLY <2>1, FS_Interval
    <2> QED
      BY <1>3, <1>4, <2>2
  <1> HIDE DEF low, high, before
  <1>6. \E f \in [1 .. n -> found] : sorted(f)
    <2> DEFINE f == [i \in 1 .. n |-> low + i]
    <2>1. \A i \in 1 .. n : low + i \in found
      BY <1>3, <1>4, <1>5
    <2>2. f \in [1 .. n -> found]
      BY <2>1
    <2>3. sorted(f)
      BY <1>4, <1>5
    <2> HIDE DEF f, found, sorted
    <2> QED
      BY <2>2, <2>3
  <1>7. events \in [1 .. n -> found] /\ sorted(events)
    <2>1. events = CHOOSE f \in [1 .. n -> found] : sorted(f)
      BY DEF EventsIn
    <2> HIDE DEF events, found, sorted, n
    <2> QED
      BY <1>6, <2>1
  <1> HIDE DEF events, n
  <1>8. DOMAIN events = 1 .. n /\ events \in Seq(found) /\ Len(events) = n
    BY <1>5, <1>7
  <1>9. ToSet(events) = found
    <2>1. events \in Injection(1 .. n, found)
      <3>1. \A i, j \in 1 .. n : events[i] = events[j] => i = j
        <4>1. \A i, j \in 1 .. n : i < j => events[i] < events[j]
          BY <1>7, <1>8
        <4>2. \A i \in 1 .. n : events[i] \in Int
          BY <1>3, <1>4, <1>7
        <4> QED
          BY <1>5, <4>1, <4>2
      <3> QED
        BY <1>7, <3>1 DEF Injection, IsInjective
    <2>2. Cardinality(1 .. n) = n
      BY <1>5, FS_Interval
    <2>3. events \in Surjection(1 .. n, found)
      BY <1>5, <2>1, <2>2, FS_Injection DEF n
    <2>4. \A s \in found : \E i \in 1 .. n : events[i] = s
      BY <2>3 DEF Surjection
    <2> HIDE DEF found
    <2> QED
      BY <1>7, <1>8, <2>4 DEF ToSet
  <1>10. events = << >> <=> found = {}
    <2>1. events = << >> <=> n = 0
      BY <1>5, <1>8, EmptySeq
    <2> HIDE DEF found
    <2>2. n = 0 <=> low + 1 > high
      BY ONLY <1>4, <1>5
    <2>3. low + 1 .. high = {} <=> low + 1 > high
      <3>1. low + 1 <= high => low + 1 \in low + 1 .. high
        BY ONLY <1>4
      <3>2. low + 1 > high => \A s \in low + 1 .. high : FALSE
        BY ONLY <1>4
      <3> QED
        BY ONLY <1>4, <3>1, <3>2
    <2>4. n = 0 <=> found = {}
      BY ONLY <1>3, <2>2, <2>3
    <2> QED
      BY ONLY <2>1, <2>4
  <1>13. /\ found \subseteq 1 .. MaxSeq
         /\ \A s \in found : s \in Int
    BY <1>1
  <1>11. ASSUME events # << >>
         PROVE  Last(events) \in found /\ \A s \in found : s <= Last(events)
    <2>1. n # 0 /\ n \in 1 .. n
      BY <1>5, <1>8, <1>11, EmptySeq
    <2>2. Last(events) = events[n]
      BY <1>8 DEF Last
    <2>3. ASSUME NEW s \in found
          PROVE  s <= events[n]
      <3>1. PICK i \in 1 .. n : events[i] = s
        BY <1>8, <1>9 DEF ToSet
      <3>2. i = n \/ events[i] < events[n]
        BY <1>5, <1>7, <1>8, <2>1
      <3>3. events[i] \in Int /\ events[n] \in Int
        BY ONLY <1>7, <1>13, <2>1, i \in 1 .. n
      <3> QED
        BY <3>1, <3>2, <3>3
    <2> QED
      BY <1>7, <2>1, <2>2, <2>3
  <1>12. events \in Seq(1 .. MaxSeq)
    <2> DEFINE S == 1 .. MaxSeq
    <2> HIDE DEF found, sorted, S
    <2>1. n \in Nat /\ events \in [1 .. n -> found] /\ found \subseteq S
      BY ONLY <1>5, <1>7, <1>13 DEF S
    <2>2. events \in [1 .. n -> S]
      BY ONLY <2>1
    <2>3. events \in Seq(S)
      BY ONLY <2>1, <2>2
    <2> QED
      BY ONLY <2>3 DEF S
  <1> QED
    BY <1>9, <1>10, <1>11, <1>12 DEF events

\* What the search is to return, up to a block: all messages beyond a sequence
\* number, the last one the greatest.
Wanted(number, sequence) == {s \in 1 .. MaxSeq : sent[s] <= number /\ s > sequence}

Returns(found, number, sequence) ==
    /\ found \in Seq(1 .. MaxSeq)
    /\ ToSet(found) = Wanted(number, sequence)
    /\ found = << >> <=> Wanted(number, sequence) = {}
    /\ found # << >> => /\ Last(found) \in Wanted(number, sequence)
                       /\ \A s \in Wanted(number, sequence) : s <= Last(found)

\* The elements of two sequences, one after the other, and which is the last.
LEMMA ElementsOfConcat ==
    ASSUME NEW S, NEW a \in Seq(S), NEW b \in Seq(S)
    PROVE  /\ a \o b \in Seq(S)
           /\ ToSet(a \o b) = ToSet(a) \cup ToSet(b)
           /\ a \o b = << >> <=> a = << >> /\ b = << >>
           /\ b # << >> => Last(a \o b) = Last(b)
           /\ b = << >> => a \o b = a
  <1> DEFINE c == a \o b
             m == Len(a)
             n == Len(b)
  <1>1. m \in Nat /\ n \in Nat /\ DOMAIN a = 1 .. m /\ DOMAIN b = 1 .. n
    BY LenProperties
  <1>2. /\ c \in Seq(S) /\ Len(c) = m + n
        /\ \A i \in 1 .. m + n : c[i] = IF i <= m THEN a[i] ELSE b[i - m]
    BY ConcatProperties
  <1>3. DOMAIN c = 1 .. m + n
    BY <1>2, LenProperties
  <1>4. /\ a = << >> <=> m = 0
        /\ b = << >> <=> n = 0
        /\ c = << >> <=> m + n = 0
    BY <1>1, <1>2, EmptySeq
  <1> HIDE DEF c, m, n
  <1>5. ToSet(c) = ToSet(a) \cup ToSet(b)
    <2>1. ASSUME NEW i \in 1 .. m + n
          PROVE  c[i] \in ToSet(a) \cup ToSet(b)
      <3>1. i <= m => i \in 1 .. m
        BY <1>1
      <3>2. ~(i <= m) => i - m \in 1 .. n
        BY <1>1
      <3> QED
        BY <1>1, <1>2, <3>1, <3>2 DEF ToSet
    <2>2. ASSUME NEW i \in 1 .. m
          PROVE  a[i] \in ToSet(c)
      <3>1. i \in 1 .. m + n /\ c[i] = a[i]
        BY <1>1, <1>2
      <3> QED
        BY <1>3, <3>1 DEF ToSet
    <2>3. ASSUME NEW i \in 1 .. n
          PROVE  b[i] \in ToSet(c)
      <3>1. m + i \in 1 .. m + n /\ c[m + i] = b[i]
        <4>1. m + i \in 1 .. m + n /\ ~(m + i <= m) /\ (m + i) - m = i
          BY <1>1
        <4> QED
          BY <1>2, <4>1
      <3> QED
        BY <1>3, <3>1 DEF ToSet
    <2> QED
      BY <1>1, <1>3, <2>1, <2>2, <2>3 DEF ToSet
  <1>6. b # << >> => Last(c) = Last(b)
    <2>1. n # 0 => m + n \in 1 .. m + n /\ ~(m + n <= m) /\ (m + n) - m = n
      BY <1>1
    <2> QED
      BY <1>2, <1>4, <2>1 DEF Last, m, n
  <1>7. b = << >> => c = a
    <2> SUFFICES ASSUME n = 0 PROVE c = a
      BY <1>4
    <2>1. Len(c) = Len(a) /\ \A i \in 1 .. Len(c) : c[i] = a[i]
      BY <1>1, <1>2 DEF m
    <2> QED
      BY <1>2, <2>1, SeqEqual
  <1> QED
    BY <1>1, <1>2, <1>4, <1>5, <1>6, <1>7 DEF c

\* A window goes behind what the older ones have.  The block that they share is
\* in both, so that nothing is lost between them.
LEMMA WindowsReturn ==
    ASSUME sent \in [1 .. MaxSeq -> Nat], Ascending, NEW sequence \in Nat,
           NEW sp \in Nat, NEW ep \in Nat, sp <= ep,
           NEW older, Returns(older, sp, sequence)
    PROVE  Returns(OldestFirst(older, EventsIn(sent, sp, ep, sequence)), ep, sequence)
  <1> DEFINE found == {s \in DOMAIN sent : sent[s] \in sp .. ep /\ s > sequence}
             events == EventsIn(sent, sp, ep, sequence)
             all == Wanted(ep, sequence)
             old == Wanted(sp, sequence)
  <1>1. /\ events \in Seq(1 .. MaxSeq)
        /\ ToSet(events) = found
        /\ events = << >> <=> found = {}
        /\ events # << >> => /\ Last(events) \in found
                            /\ \A s \in found : s <= Last(events)
    BY EventsInOrder
  <1>2. /\ older \in Seq(1 .. MaxSeq)
        /\ ToSet(older) = old
        /\ older = << >> <=> old = {}
        /\ older # << >> => /\ Last(older) \in old
                           /\ \A s \in old : s <= Last(older)
    BY DEF Returns
  <1>3. all = old \cup found
    <2>1. \A s \in 1 .. MaxSeq : sent[s] \in Nat /\ DOMAIN sent = 1 .. MaxSeq
      OBVIOUS
    <2>2. \A s \in 1 .. MaxSeq : sent[s] <= ep <=> sent[s] <= sp \/ sent[s] \in sp .. ep
      BY <2>1
    <2> QED
      BY <2>1, <2>2 DEF Wanted
  <1>4. ASSUME NEW s \in old, NEW t \in found, t < s
        PROVE  s \in found
    <2>1. /\ s \in 1 .. MaxSeq /\ sent[s] <= sp /\ s > sequence
          /\ t \in 1 .. MaxSeq /\ sent[t] \in sp .. ep
          /\ sent[s] \in Nat /\ sent[t] \in Nat
      BY DEF Wanted
    <2>2. sent[t] <= sent[s]
      BY <1>4, <2>1 DEF Ascending
    <2>3. sent[s] \in sp .. ep
      BY ONLY <2>1, <2>2, sp \in Nat, ep \in Nat, sp <= ep
    <2> QED
      BY <2>1, <2>3
  <1>5. found \subseteq 1 .. MaxSeq /\ old \subseteq 1 .. MaxSeq
    BY DEF Wanted
  <1>6. OldestFirst(older, events) = older \o events
    BY DEF OldestFirst
  <1> HIDE DEF found, events, all, old
  <1>7. /\ older \o events \in Seq(1 .. MaxSeq)
        /\ ToSet(older \o events) = ToSet(older) \cup ToSet(events)
        /\ older \o events = << >> <=> older = << >> /\ events = << >>
        /\ events # << >> => Last(older \o events) = Last(events)
        /\ events = << >> => older \o events = older
    BY ONLY <1>1, <1>2, ElementsOfConcat
  <1> DEFINE result == older \o events
  <1>8. ASSUME events # << >>
        PROVE  Last(result) \in all /\ \A s \in all : s <= Last(result)
    <2>1. ASSUME NEW s \in all
          PROVE  s <= Last(events)
      <3>1. CASE s \in found
        BY <1>1, <1>8, <3>1
      <3>2. CASE s \in old /\ s \notin found
        <4>1. s \in 1 .. MaxSeq /\ Last(events) \in 1 .. MaxSeq /\ Last(events) \in found
          BY ONLY <1>1, <1>5, <1>8, <3>2
        <4>2. ~(Last(events) < s)
          BY <1>4, <3>2, <4>1
        <4> QED
          BY <4>1, <4>2
      <3> QED
        BY <1>3, <3>1, <3>2
    <2> QED
      BY <1>1, <1>3, <1>7, <1>8, <2>1
  <1>9. ASSUME events = << >>, older # << >>
        PROVE  Last(result) \in all /\ \A s \in all : s <= Last(result)
    BY <1>1, <1>2, <1>3, <1>7, <1>9
  <1>10. /\ result \in Seq(1 .. MaxSeq) /\ ToSet(result) = all
         /\ result = << >> <=> all = {}
    BY <1>1, <1>2, <1>3, <1>7
  <1> QED
    BY <1>6, <1>7, <1>8, <1>9, <1>10 DEF Returns, all, events

\* The search over all windows returns what it is to return.
LEMMA SearchReturns ==
    ASSUME sent \in [1 .. MaxSeq -> Nat], Ascending, NEW sequence \in Nat,
           NEW start \in Nat, NEW end \in Nat, start <= end,
           \A s \in 1 .. MaxSeq : sent[s] >= start
    PROVE  Returns(MessagesAfterSequence(sent, start, end, sequence), end, sequence)
  <1> DEFINE events(ep) == EventsIn(sent, WindowStart(start, ep), ep, sequence)
             Found(f, ep) == IF WindowStart(start, ep) = ep THEN events(ep)
                            ELSE OldestFirst(f[WindowStart(start, ep)], events(ep))
             Upto == CHOOSE f : f = [ep \in start .. end |-> Found(f, ep)]
  <1>1. ASSUME NEW ep \in Nat, start <= ep
        PROVE  /\ WindowStart(start, ep) \in start .. ep
               /\ WindowStart(start, ep) = ep <=> ep = start
    <2>1. MaxQueryRange \in Nat /\ MaxQueryRange # 0
      BY SearchAssumption
    <2>2. CASE ep - start > MaxQueryRange
      <3>1. WindowStart(start, ep) = ep - MaxQueryRange
        BY <2>2 DEF WindowStart
      <3> QED
        BY ONLY <1>1, <2>1, <2>2, <3>1, start \in Nat
    <2>3. CASE ~(ep - start > MaxQueryRange)
      <3>1. WindowStart(start, ep) = start
        BY <2>3 DEF WindowStart
      <3> QED
        BY ONLY <1>1, <3>1, start \in Nat
    <2> QED
      BY <2>2, <2>3
  <1>2. \E f : f = [ep \in start .. end |-> Found(f, ep)]
    <2> DEFINE T == {n \in Nat : \E f : f = [ep \in start .. start + n |-> Found(f, ep)]}
    <2>1. 0 \in T
      <3> DEFINE f == [ep \in start .. start + 0 |-> events(ep)]
      <3>1. \A ep \in start .. start + 0 : ep \in Nat /\ ep = start /\ start <= ep
        OBVIOUS
      <3>2. \A ep \in start .. start + 0 : WindowStart(start, ep) = ep
        BY <1>1, <3>1
      <3> HIDE DEF events
      <3>3. \A ep \in start .. start + 0 : Found(f, ep) = events(ep)
        BY <3>2
      <3> HIDE DEF Found
      <3>4. f = [ep \in start .. start + 0 |-> Found(f, ep)]
        BY <3>3
      <3> QED
        BY <3>4
    <2>2. ASSUME NEW n \in Nat, n \in T
          PROVE  n + 1 \in T
      <3>1. PICK g : g = [ep \in start .. start + n |-> Found(g, ep)]
        BY <2>2
      <3> DEFINE top == start + n + 1
                 f == [ep \in start .. start + (n + 1) |->
                          IF ep = top THEN Found(g, ep) ELSE g[ep]]
      <3>2. ASSUME NEW ep \in start .. start + (n + 1)
            PROVE  Found(f, ep) = Found(g, ep)
        <4>1. ep \in Nat /\ start <= ep
          OBVIOUS
        <4> DEFINE sp == WindowStart(start, ep)
        <4>2. sp \in start .. ep
          BY <1>1, <4>1
        <4>3. CASE sp = ep
          BY <4>3
        <4>4. CASE sp # ep
          <5> HIDE DEF sp
          <5>1. sp \in start .. start + (n + 1) /\ sp # top
            BY <4>1, <4>2, <4>4
          <5>2. f[sp] = g[sp]
            BY <5>1
          <5> HIDE DEF f
          <5> QED
            BY <4>4, <5>2 DEF sp
        <4> QED
          BY <4>3, <4>4
      <3>3. ASSUME NEW ep \in start .. start + (n + 1)
            PROVE  f[ep] = Found(g, ep)
        <4>1. ep # top => ep \in start .. start + n
          OBVIOUS
        <4> HIDE DEF Found
        <4>2. ep # top => g[ep] = Found(g, ep)
          BY <3>1, <4>1
        <4> QED
          BY <4>2
      <3>4. f = [ep \in start .. start + (n + 1) |-> f[ep]]
        OBVIOUS
      <3> HIDE DEF Found, f
      <3>5. f = [ep \in start .. start + (n + 1) |-> Found(f, ep)]
        BY <3>2, <3>3, <3>4
      <3> QED
        BY <3>5
    <2> HIDE DEF T
    <2>3. Nat \subseteq T
      BY <2>1, <2>2, SetInduction
    <2>4. end - start \in T /\ start + (end - start) = end
      BY <2>3
    <2> QED
      BY <2>4 DEF T
  <1>3. Upto = [ep \in start .. end |-> Found(Upto, ep)]
    <2> HIDE DEF Found
    <2> QED
      BY <1>2
  <1> HIDE DEF Upto
  <1>4. \A ep \in start .. end : Upto[ep] = Found(Upto, ep)
    <2> HIDE DEF Found
    <2> QED
      BY <1>3
  <1>5. ASSUME NEW ep \in start .. end,
               \A sp \in start .. end : sp < ep => Returns(Upto[sp], sp, sequence)
        PROVE  Returns(Upto[ep], ep, sequence)
    <2> DEFINE sp == WindowStart(start, ep)
    <2>1. ep \in Nat /\ start <= ep
      OBVIOUS
    <2>2. sp \in start .. ep /\ (sp = ep <=> ep = start)
      BY <1>1, <2>1
    <2>3. Upto[ep] = IF sp = ep THEN EventsIn(sent, sp, ep, sequence)
                     ELSE OldestFirst(Upto[sp], EventsIn(sent, sp, ep, sequence))
      BY <1>4
    <2> HIDE DEF sp
    <2>4. CASE sp = ep
      <3> DEFINE found == {s \in DOMAIN sent : sent[s] \in ep .. ep /\ s > sequence}
                 result == EventsIn(sent, ep, ep, sequence)
      <3>1. /\ result \in Seq(1 .. MaxSeq)
            /\ ToSet(result) = found
            /\ result = << >> <=> found = {}
            /\ result # << >> => /\ Last(result) \in found
                                /\ \A s \in found : s <= Last(result)
        BY <2>1, EventsInOrder
      <3>2. found = Wanted(ep, sequence)
        <4>1. \A s \in 1 .. MaxSeq : sent[s] \in Nat /\ sent[s] >= start
          OBVIOUS
        <4>2. \A s \in 1 .. MaxSeq : sent[s] \in ep .. ep <=> sent[s] <= ep
          BY ONLY <2>1, <2>2, <2>4, <4>1, start \in Nat
        <4> QED
          BY <4>2 DEF Wanted
      <3>3. Upto[ep] = result
        BY <2>3, <2>4
      <3> HIDE DEF found, result
      <3> QED
        BY <3>1, <3>2, <3>3 DEF Returns
    <2>5. CASE sp # ep
      <3>1. sp \in start .. end /\ sp < ep /\ sp \in Nat /\ sp <= ep
        BY ONLY <2>1, <2>2, <2>5, ep \in start .. end, start \in Nat, end \in Nat
      <3>2. Returns(Upto[sp], sp, sequence)
        BY <1>5, <3>1
      <3>3. Upto[ep] = OldestFirst(Upto[sp], EventsIn(sent, sp, ep, sequence))
        BY <2>3, <2>5
      <3> QED
        BY <2>1, <3>1, <3>2, <3>3, WindowsReturn
    <2> QED
      BY <2>4, <2>5
  <1>6. \A ep \in start .. end : Returns(Upto[ep], ep, sequence)
    <2> DEFINE Bad == {ep \in start .. end : ~Returns(Upto[ep], ep, sequence)}
    <2> SUFFICES ASSUME Bad # {} PROVE FALSE
      OBVIOUS
    <2>1. Bad \in SUBSET Nat
      OBVIOUS
    <2>2. PICK least \in Bad : \A ep \in Bad : least <= ep
      <3> HIDE DEF Bad
      <3> QED
        BY <2>1, LeastNatural
    <2>3. \A sp \in start .. end : sp < least => sp \notin Bad
      BY <2>1, <2>2
    <2> QED
      BY <1>5, <2>2, <2>3
  <1>7. MessagesAfterSequence(sent, start, end, sequence) = Upto[end]
    BY DEF MessagesAfterSequence, Upto
  <1>8. end \in start .. end
    OBVIOUS
  <1> QED
    BY <1>6, <1>7, <1>8

-----------------------------------------------------------------------------
(* The invariant of the search.                                            *)

\* What the contract has received was sent.
StatusInv ==
    \A status \in {bmc, peer, arriving} : status.seq <= SentUpTo(status.number)

\* A call adds blocks from the offset to one that is there.
CursorInv ==
    \A t \in Threads : sync[t].pc # "idle" =>
        /\ sync[t].cursor >= Offset
        /\ sync[t].end \in Offset .. MaxHeight

\* Before Start has returned the other threads are quiet.
QuietInv ==
    /\ sync["start"].pc # "idle" => main = "sync"
    /\ main # "run" => /\ sync["status"].pc = "idle"
                       /\ sync["link"].pc = "idle"
                       /\ link.pc = "idle"
    /\ sync["link"].pc # "idle" => link.pc = "sync"

\* Start looks for messages with an empty cache and the status of the contract.
FreshInv ==
    main \in {"prepare", "boot", "ensure", "sync", "fetch"} => msgs = {} /\ local = peer

\* The link asks for a message that the receiver has come to.
AskedInv ==
    /\ link.pc # "idle" => link.seq \in 1 .. MaxSeq
    /\ link.pc = "height" => sent[link.seq] <= local.number
    /\ link.pc \in {"sync", "witness", "proved"} =>
          link.height \in Offset .. link.status.number

SearchInv ==
    /\ TypeOK /\ Ascending /\ StatusInv /\ CursorInv /\ QuietInv /\ FreshInv
    /\ MissingRestored /\ AskedInv /\ HeightFound

SyncType == [Threads -> [pc : {"idle", "add", "flush"}, cursor : Nat, end : Nat]]

LinkRange ==
    [pc : {"idle", "height", "found", "sync", "witness", "proved"},
     status : StatusType, seq : 0 .. MaxSeq, height : {NoBlock} \cup Offset .. MaxHeight,
     proof : [header : Nat, leaves : Leaves, at : Nat]]

-----------------------------------------------------------------------------
(* Lemmas on the search and the cache.                                     *)

\* The greatest of some messages is one of them.
LEMMA MaxIsMember ==
    ASSUME NEW S \in SUBSET (1 .. MaxSeq), S # {}
    PROVE  Max(S) \in S /\ \A s \in S : s <= Max(S)
  <1> DEFINE T == {MaxSeq - s : s \in S}
  <1>1. MaxSeq \in Nat /\ S \subseteq Nat
    BY AccumulatorAssumption
  <1>2. PICK least \in T : \A t \in T : least <= t
    <2>1. T \in SUBSET Nat /\ T # {}
      <3>1. \A s \in S : s \in 1 .. MaxSeq
        OBVIOUS
      <3>2. \A s \in 1 .. MaxSeq : MaxSeq - s \in Nat
        BY ONLY <1>1
      <3> QED
        BY <3>1, <3>2
    <2> HIDE DEF T
    <2> QED
      BY <2>1, LeastNatural
  <1>3. PICK m \in S : least = MaxSeq - m
    BY <1>2
  <1>4. \A s \in S : m >= s /\ s \in Nat /\ m \in Nat
    BY <1>1, <1>2, <1>3
  <1>5. Max(S) \in S /\ \A s \in S : Max(S) >= s
    BY <1>4 DEF Max
  <1> QED
    BY <1>1, <1>5

\* The cache keeps to its size, and an empty one is filled.
LEMMA PutFits ==
    ASSUME msgs \subseteq 1 .. MaxSeq, Cardinality(msgs) <= CacheSize,
           NEW added \in SUBSET (1 .. MaxSeq), NEW last, NEW kept \in Put(added, last)
    PROVE  /\ kept \subseteq msgs \cup added
           /\ Cardinality(kept) <= CacheSize
           /\ msgs = {} => Cardinality(kept) = IF Cardinality(added) <= CacheSize
                                               THEN Cardinality(added) ELSE CacheSize
  <1> DEFINE full == msgs \cup added
  <1>1. CacheSize \in Nat
    BY AccumulatorAssumption
  <1>2. CASE added = {}
    <2>1. kept = full /\ full = msgs
      BY <1>2 DEF Put
    <2>2. Cardinality({}) = 0
      BY FS_EmptySet
    <2> QED
      BY <1>1, <1>2, <2>1, <2>2
  <1>3. CASE added # {} /\ Cardinality(full) <= CacheSize
    <2>1. kept = full
      BY <1>3 DEF Put
    <2>2. msgs = {} => full = added
      OBVIOUS
    <2> QED
      BY <1>3, <2>1, <2>2
  <1>4. CASE added # {} /\ ~(Cardinality(full) <= CacheSize)
    <2>1. kept \in kSubset(CacheSize, full)
      BY <1>4 DEF Put
    <2>2. kept \subseteq full /\ Cardinality(kept) = CacheSize
      BY <2>1 DEF kSubset
    <2>3. msgs = {} => full = added
      OBVIOUS
    <2> QED
      BY <1>1, <1>4, <2>2, <2>3
  <1> QED
    BY <1>2, <1>3, <1>4

\* The messages that Start looks for are the next ones after the contract's.
LEMMA WantedIsNext ==
    ASSUME sent \in [1 .. MaxSeq -> Nat], Ascending, NEW number \in Nat, NEW sequence \in Nat
    PROVE  /\ Wanted(number, sequence) = sequence + 1 .. SentUpTo(number)
           /\ sequence <= SentUpTo(number) =>
                 Cardinality(Wanted(number, sequence)) = SentUpTo(number) - sequence
  <1>1. /\ SentUpTo(number) \in 0 .. MaxSeq
        /\ \A s \in 1 .. MaxSeq : sent[s] <= number <=> s <= SentUpTo(number)
    BY SentFirst
  <1>2. MaxSeq \in Nat /\ SentUpTo(number) \in Nat /\ SentUpTo(number) <= MaxSeq
    BY <1>1, AccumulatorAssumption
  <1>3. Wanted(number, sequence) = {s \in 1 .. MaxSeq : s <= SentUpTo(number) /\ s > sequence}
    BY <1>1 DEF Wanted
  <1>4. {s \in 1 .. MaxSeq : s <= SentUpTo(number) /\ s > sequence} =
           sequence + 1 .. SentUpTo(number)
    BY ONLY <1>2, sequence \in Nat
  <1>5. ASSUME sequence <= SentUpTo(number)
        PROVE  Cardinality(sequence + 1 .. SentUpTo(number)) = SentUpTo(number) - sequence
    <2>1. sequence + 1 \in Int /\ SentUpTo(number) \in Int
      BY <1>2
    <2>2. Cardinality(sequence + 1 .. SentUpTo(number)) =
             IF sequence + 1 > SentUpTo(number) THEN 0
             ELSE SentUpTo(number) - (sequence + 1) + 1
      BY ONLY <2>1, FS_Interval
    <2> QED
      BY ONLY <1>2, <1>5, <2>2, sequence \in Nat
  <1> QED
    BY <1>3, <1>4, <1>5

\* No sequence of leaves, one more leaf, the leaves up to a block.
LEMMA LeavesType ==
    /\ << >> \in Leaves
    /\ \A leaves \in Leaves : Height(leaves) \in Nat /\ Height(leaves) >= Offset
    /\ \A leaves \in Leaves, leaf \in Offset .. MaxHeight : Append(leaves, leaf) \in Leaves
    /\ \A leaves \in Leaves, n \in Nat : n <= Len(leaves) => SubSeq(leaves, 1, n) \in Leaves
  <1>1. << >> \in Leaves
    BY DEF Leaves
  <1>2. ASSUME NEW leaves \in Leaves
        PROVE  Height(leaves) \in Nat /\ Height(leaves) >= Offset
    <2>1. Len(leaves) \in Nat /\ Offset \in Nat
      BY AccumulatorAssumption, LenProperties DEF Leaves
    <2> QED
      BY <2>1 DEF Height
  <1>3. ASSUME NEW leaves \in Leaves, NEW leaf \in Offset .. MaxHeight
        PROVE  Append(leaves, leaf) \in Leaves
    BY AppendProperties DEF Leaves
  <1>4. ASSUME NEW leaves \in Leaves, NEW n \in Nat, n <= Len(leaves)
        PROVE  SubSeq(leaves, 1, n) \in Leaves
    <2>1. Len(leaves) \in Nat
      BY LenProperties DEF Leaves
    <2>2. \A i \in 1 .. n : leaves[i] \in Offset .. MaxHeight
      <3>1. \A i \in 1 .. n : i \in 1 .. Len(leaves)
        BY ONLY <1>4, <2>1, n \in Nat
      <3>2. leaves \in Seq(Offset .. MaxHeight)
        BY DEF Leaves
      <3> QED
        BY ONLY <3>1, <3>2, ElementOfSeq
    <2> QED
      BY <2>2, SubSeqProperties DEF Leaves
  <1> QED
    BY <1>1, <1>2, <1>3, <1>4

\* No request is one.
LEMMA IdleInRange == Idle \in LinkRange /\ Idle.pc = "idle"
  <1>1. Offset \in Offset .. MaxHeight /\ 0 \in 0 .. MaxSeq
    BY AccumulatorAssumption
  <1>2. << >> \in Leaves
    BY LeavesType
  <1> QED
    BY <1>1, <1>2 DEF Idle, LinkRange, NoProof, NoBlock, StatusType

-----------------------------------------------------------------------------
(* What a step leaves alone.                                               *)

\* The parts of the invariant that need only some of the variables.
LEMMA SearchStays ==
    ASSUME SearchInv, sent' = sent
    PROVE  /\ Ascending'
           /\ {bmc', peer', arriving'} \subseteq {bmc, peer, arriving} => StatusInv'
           /\ sync' = sync => CursorInv'
           /\ sync' = sync /\ main' = main /\ link' = link => QuietInv'
           /\ main' = main /\ msgs' = msgs /\ local' = local /\ peer' = peer =>
                 FreshInv' /\ MissingRestored'
           /\ link' = link /\ local' = local => AskedInv' /\ HeightFound'
  <1>1. \A n : SentUpTo(n)' = SentUpTo(n)
    BY DEF SentUpTo
  <1>2. Ascending'
    BY DEF SearchInv, Ascending
  <1>3. ASSUME {bmc', peer', arriving'} \subseteq {bmc, peer, arriving}
        PROVE  StatusInv'
    BY <1>1, <1>3 DEF SearchInv, StatusInv
  <1>4. sync' = sync => CursorInv'
    BY DEF SearchInv, CursorInv
  <1>5. sync' = sync /\ main' = main /\ link' = link => QuietInv'
    BY DEF SearchInv, QuietInv
  <1>6. main' = main /\ msgs' = msgs /\ local' = local /\ peer' = peer => FreshInv'
    BY DEF SearchInv, FreshInv
  <1>7. ASSUME main' = main, msgs' = msgs, local' = local, peer' = peer
        PROVE  MissingRestored'
    <2>1. SentUpTo(peer.number)' = SentUpTo(peer.number)
      BY <1>7 DEF SentUpTo
    <2> QED
      BY <1>7, <2>1 DEF SearchInv, MissingRestored
  <1>8. link' = link /\ local' = local => AskedInv' /\ HeightFound'
    BY DEF SearchInv, AskedInv, HeightFound
  <1> QED
    BY <1>2, <1>3, <1>4, <1>5, <1>6, <1>7, <1>8

\* A step of the node or the contract.
LEMMA NodeSearch ==
    ASSUME SearchInv, Finalize \/ Accept
    PROVE  SearchInv'
  <1>1. /\ UNCHANGED <<sent, acc, disk, main, peer, local, msgs, sync, arriving, link, faults, raced>>
        /\ final \in Offset .. MaxHeight /\ bmc \in StatusType
        /\ sent \in [1 .. MaxSeq -> Offset .. MaxHeight] /\ Ascending
    BY DEF Finalize, Accept, ReceiverStays, SearchInv, TypeOK
  <1>2. Offset \in Nat /\ MaxHeight \in Nat /\ MaxSeq \in Nat
    BY AccumulatorAssumption
  <1>3. final' \in Offset .. MaxHeight
    BY <1>1, <1>2 DEF Finalize, Accept
  <1>4. bmc' \in StatusType /\ (bmc' = bmc \/ bmc'.seq <= SentUpTo(bmc'.number))
    <2>1. CASE Finalize
      BY <1>1, <2>1 DEF Finalize
    <2>2. CASE Accept
      <3>1. PICK n \in bmc.number .. final : \E s \in bmc.seq .. SentUpTo(n) :
                bmc' = [number |-> n, seq |-> s]
        BY <2>2 DEF Accept
      <3>2. PICK s \in bmc.seq .. SentUpTo(n) : bmc' = [number |-> n, seq |-> s]
        BY <3>1
      <3>3. bmc.number \in Offset .. MaxHeight /\ bmc.seq \in 0 .. MaxSeq
        BY <1>1 DEF StatusType
      <3>4. n \in Offset .. MaxHeight /\ n \in Int
        BY <1>1, <1>2, <3>3
      <3>5. SentUpTo(n) \in 0 .. MaxSeq
        <4>1. sent \in [1 .. MaxSeq -> Nat]
          BY <1>1, <1>2
        <4> QED
          BY <1>1, <3>4, <4>1, SentFirst
      <3>6. s \in 0 .. MaxSeq /\ s <= SentUpTo(n)
        BY <1>2, <3>3, <3>5
      <3> QED
        BY <3>2, <3>4, <3>6 DEF StatusType
    <2> QED
      BY <2>1, <2>2
  <1>5. TypeOK'
    <2>1. TypeOK
      BY DEF SearchInv
    <2> QED
      BY ONLY <1>1, <1>3, <1>4, <2>1 DEF TypeOK, StatusType
  <1>6. StatusInv'
    <2>1. \A n : SentUpTo(n)' = SentUpTo(n)
      BY <1>1 DEF SentUpTo
    <2>2. StatusInv
      BY DEF SearchInv
    <2>3. /\ bmc.seq <= SentUpTo(bmc.number) /\ peer.seq <= SentUpTo(peer.number)
          /\ arriving.seq <= SentUpTo(arriving.number)
      BY ONLY <2>2 DEF StatusInv
    <2>4. /\ bmc'.seq <= SentUpTo(bmc'.number) /\ peer'.seq <= SentUpTo(peer'.number)
          /\ arriving'.seq <= SentUpTo(arriving'.number)
      BY ONLY <1>1, <1>4, <2>3
    <2>5. \A status \in {bmc', peer', arriving'} : status.seq <= SentUpTo(status.number)
      BY ONLY <2>4
    <2> QED
      BY <2>1, <2>5 DEF StatusInv
  <1> QED
    BY <1>1, <1>5, <1>6, SearchStays DEF SearchInv

\* A call of syncAcc begins, to a block that there is.
LEMMA BeginSearch ==
    ASSUME SearchInv, NEW t \in Threads, NEW end \in Offset .. MaxHeight, SyncBegin(t, end)
    PROVE  /\ sync' \in SyncType /\ raced' \in BOOLEAN
           /\ CursorInv'
           /\ sync'[t].pc = "add"
           /\ \A u \in Threads \ {t} : sync'[u] = sync[u]
  <1>1. sync' = [sync EXCEPT ![t] = [pc |-> "add", cursor |-> Height(acc), end |-> end]]
    BY DEF SyncBegin
  <1>2. raced' \in BOOLEAN
    BY DEF SyncBegin, SearchInv, TypeOK
  <1>3. acc \in Leaves /\ sync \in SyncType /\ CursorInv
    BY DEF SearchInv, TypeOK, SyncType
  <1>4. Height(acc) \in Nat /\ Height(acc) >= Offset /\ end \in Nat
    BY <1>3, LeavesType, AccumulatorAssumption
  <1>5. /\ sync'[t] = [pc |-> "add", cursor |-> Height(acc), end |-> end]
        /\ \A u \in Threads \ {t} : sync'[u] = sync[u]
        /\ sync' \in SyncType
    BY ONLY <1>1, <1>3, <1>4, t \in Threads DEF SyncType
  <1>6. CursorInv'
    <2>1. ASSUME NEW u \in Threads, sync'[u].pc # "idle"
          PROVE  sync'[u].cursor >= Offset /\ sync'[u].end \in Offset .. MaxHeight
      <3>1. CASE u = t
        BY <1>4, <1>5, <3>1
      <3>2. CASE u # t
        BY <1>3, <1>5, <2>1, <3>2 DEF CursorInv
      <3> QED
        BY <3>1, <3>2
    <2> QED
      BY <2>1 DEF CursorInv
  <1> QED
    BY <1>2, <1>5, <1>6

\* One leaf, or the end of the call.
LEMMA AddSearch ==
    ASSUME SearchInv, NEW t \in Threads, SyncAdd(t)
    PROVE  SearchInv'
  <1>1. /\ sync[t].pc = "add"
        /\ UNCHANGED <<final, sent, bmc, disk, main, peer, local, msgs, arriving, link, faults, raced>>
    BY DEF SyncAdd, chain
  <1>2. TypeOK /\ acc \in Leaves /\ sync \in SyncType /\ CursorInv /\ QuietInv
    BY DEF SearchInv, TypeOK, SyncType
  <1>3. /\ sync[t].cursor \in Nat /\ sync[t].cursor >= Offset
        /\ sync[t].end \in Offset .. MaxHeight
    BY <1>1, <1>2 DEF CursorInv, SyncType
  <1>4. /\ acc' \in Leaves
        /\ sync' \in SyncType
        /\ \A u \in Threads : /\ sync'[u].pc = "idle" <=> sync[u].pc = "idle"
                              /\ sync'[u].end = sync[u].end
                              /\ sync'[u].cursor = sync[u].cursor \/ sync'[u].cursor >= Offset
    <2>1. CASE UpToEnd(sync[t])
      <3>1. acc' = Append(acc, sync[t].cursor) /\ sync' = [sync EXCEPT ![t].cursor = @ + 1]
        BY <2>1 DEF SyncAdd
      <3>2. sync[t].cursor \in Offset .. MaxHeight
        BY <1>3, <2>1, AccumulatorAssumption DEF UpToEnd
      <3>3. acc' \in Leaves
        BY <1>2, <3>1, <3>2, LeavesType
      <3>4. sync[t].cursor + 1 \in Nat /\ sync[t].cursor + 1 >= Offset
        BY <1>3, AccumulatorAssumption
      <3>5. /\ sync' \in SyncType
            /\ \A u \in Threads : sync'[u].pc = sync[u].pc /\ sync'[u].end = sync[u].end
            /\ \A u \in Threads : sync'[u].cursor = sync[u].cursor \/ sync'[u].cursor >= Offset
        BY ONLY <1>2, <3>1, <3>4, t \in Threads DEF SyncType
      <3> QED
        BY ONLY <3>3, <3>5
    <2>2. CASE ~UpToEnd(sync[t])
      <3>1. acc' = acc /\ sync' = [sync EXCEPT ![t].pc = "flush"]
        BY <2>2 DEF SyncAdd
      <3> QED
        BY ONLY <1>1, <1>2, <3>1, t \in Threads DEF SyncType
    <2> QED
      BY <2>1, <2>2
  <1>5. TypeOK'
    BY ONLY <1>1, <1>2, <1>4 DEF TypeOK, SyncType
  <1>6. CursorInv' /\ QuietInv'
    <2>1. CursorInv'
      BY ONLY <1>2, <1>4 DEF CursorInv
    <2>2. {"start", "status", "link"} \subseteq Threads
      BY DEF Threads
    <2>3. QuietInv'
      BY ONLY <1>1, <1>2, <1>4, <2>2 DEF QuietInv
    <2> QED
      BY <2>1, <2>3
  <1> QED
    BY <1>1, <1>5, <1>6, SearchStays DEF SearchInv

\* A call ends, in whichever thread.
LEMMA EndSearch ==
    ASSUME SearchInv, NEW t \in Threads, NEW ok \in BOOLEAN, sync[t].pc # "idle",
           Synced(t, ok), disk' \in [leaves : Leaves, booted : BOOLEAN],
           faults' \in 0 .. MaxFaults
    PROVE  SearchInv'
  <1>1. /\ TypeOK /\ StatusInv /\ CursorInv /\ QuietInv /\ FreshInv /\ MissingRestored
        /\ AskedInv /\ HeightFound
    BY DEF SearchInv
  <1>2. /\ sync' = [sync EXCEPT ![t] = NoSync]
        /\ UNCHANGED <<final, sent, bmc, acc, local, arriving, raced>>
    BY DEF Synced, chain
  <1>3. sync \in SyncType /\ msgs \subseteq 1 .. MaxSeq /\ arriving \in StatusType
    BY <1>1 DEF TypeOK, SyncType
  <1>4. /\ sync' \in SyncType /\ sync'[t].pc = "idle"
        /\ \A u \in Threads \ {t} : sync'[u] = sync[u]
    BY ONLY <1>2, <1>3, t \in Threads DEF SyncType, NoSync
  <1>5. CursorInv'
    BY ONLY <1>1, <1>4 DEF CursorInv
  <1>6. {"start", "status", "link"} \subseteq Threads
    BY DEF Threads
  <1>7. CASE t = "start"
    <2>1. /\ main = "sync" /\ main' \in {"fetch", "down"} /\ link.pc = "idle"
          /\ UNCHANGED <<peer, msgs, link>>
      BY <1>1, <1>7 DEF Synced, QuietInv
    <2>2. TypeOK'
      BY ONLY <1>1, <1>2, <1>4, <2>1, disk' \in [leaves : Leaves, booted : BOOLEAN],
              faults' \in 0 .. MaxFaults DEF TypeOK, SyncType
    <2>3. QuietInv'
      BY ONLY <1>1, <1>4, <1>6, <1>7, <2>1 DEF QuietInv
    <2>4. FreshInv' /\ MissingRestored'
      BY <1>1, <1>2, <2>1 DEF FreshInv, MissingRestored
    <2> QED
      BY <1>2, <1>5, <2>1, <2>2, <2>3, <2>4, SearchStays DEF SearchInv
  <1>8. CASE t = "status"
    <2>1. /\ main = "run" /\ main' = main /\ link' = link /\ peer' = arriving
          /\ msgs' \subseteq msgs
      BY <1>1, <1>6, <1>8 DEF Synced, QuietInv
    <2>2. Cardinality(msgs') <= CacheSize
      <3>1. IsFiniteSet(msgs)
        <4>1. IsFiniteSet(1 .. MaxSeq)
          BY AccumulatorAssumption, FS_Interval
        <4> QED
          BY <1>3, <4>1, FS_Subset
      <3>2. /\ IsFiniteSet(msgs') /\ Cardinality(msgs') <= Cardinality(msgs)
            /\ Cardinality(msgs) <= CacheSize
        BY <1>1, <2>1, <3>1, FS_Subset DEF TypeOK
      <3>3. Cardinality(msgs') \in Nat /\ Cardinality(msgs) \in Nat /\ CacheSize \in Nat
        BY <3>1, <3>2, FS_CardinalityType, AccumulatorAssumption
      <3> QED
        BY <3>2, <3>3
    <2>3. TypeOK'
      BY ONLY <1>1, <1>2, <1>4, <2>1, <2>2, disk' \in [leaves : Leaves, booted : BOOLEAN],
              faults' \in 0 .. MaxFaults DEF TypeOK, SyncType
    <2>4. QuietInv'
      BY ONLY <1>1, <1>4, <1>6, <1>8, <2>1 DEF QuietInv
    <2>5. FreshInv' /\ MissingRestored'
      BY <2>1 DEF FreshInv, MissingRestored
    <2> QED
      BY <1>2, <1>5, <2>1, <2>3, <2>4, <2>5, SearchStays DEF SearchInv
  <1>9. CASE t = "link"
    <2>1. /\ link.pc = "sync" /\ main = "run" /\ UNCHANGED <<main, peer, msgs>>
          /\ link' = IF ok THEN [link EXCEPT !.pc = "witness"] ELSE Idle
      BY <1>1, <1>6, <1>9 DEF Synced, QuietInv
    <2>2. link \in LinkRange /\ Idle \in LinkRange /\ Idle.pc = "idle"
      BY <1>1, IdleInRange DEF TypeOK, LinkRange
    <2>3. /\ link' \in LinkRange
          /\ \/ link'.pc = "idle"
             \/ /\ link'.pc = "witness" /\ link'.seq = link.seq
                /\ link'.height = link.height /\ link'.status = link.status
      BY ONLY <2>1, <2>2 DEF LinkRange
    <2>4. TypeOK'
      BY ONLY <1>1, <1>2, <1>4, <2>1, <2>3, disk' \in [leaves : Leaves, booted : BOOLEAN],
              faults' \in 0 .. MaxFaults DEF TypeOK, SyncType, LinkRange
    <2>5. QuietInv'
      BY ONLY <1>1, <1>4, <1>6, <1>9, <2>1 DEF QuietInv
    <2>6. AskedInv' /\ HeightFound'
      BY ONLY <1>1, <1>2, <2>1, <2>3 DEF AskedInv, HeightFound
    <2> QED
      BY <1>2, <1>5, <2>1, <2>4, <2>5, <2>6, SearchStays DEF SearchInv
  <1> QED
    BY <1>7, <1>8, <1>9 DEF Threads

\* The ends of syncAcc, with success and without.
LEMMA FlushSearch ==
    ASSUME SearchInv, NEW t \in Threads, SyncFlush(t) \/ SyncFails(t)
    PROVE  SearchInv'
  <1>1. /\ acc \in Leaves /\ disk \in [leaves : Leaves, booted : BOOLEAN]
        /\ faults \in 0 .. MaxFaults /\ MaxFaults \in Nat
    BY AccumulatorAssumption DEF SearchInv, TypeOK
  <1>2. CASE SyncFlush(t)
    <2>1. /\ sync[t].pc # "idle" /\ Synced(t, TRUE)
          /\ disk' \in [leaves : Leaves, booted : BOOLEAN] /\ faults' \in 0 .. MaxFaults
      BY <1>1, <1>2 DEF SyncFlush
    <2> QED
      BY <2>1, EndSearch
  <1>3. CASE SyncFails(t)
    <2>1. /\ sync[t].pc # "idle" /\ Synced(t, FALSE)
          /\ disk' \in [leaves : Leaves, booted : BOOLEAN] /\ faults' \in 0 .. MaxFaults
      <3>1. /\ sync[t].pc # "idle" /\ Synced(t, FALSE)
            /\ disk' = disk /\ faults < MaxFaults /\ faults' = faults + 1
        BY <1>3 DEF SyncFails
      <3>2. disk' \in [leaves : Leaves, booted : BOOLEAN] /\ faults' \in 0 .. MaxFaults
        <4>1. disk' = disk /\ faults < MaxFaults /\ faults' = faults + 1
          BY <3>1
        <4> QED
          BY ONLY <1>1, <4>1
      <3> QED
        BY <3>1, <3>2
    <2> QED
      BY <2>1, EndSearch
  <1> QED
    BY <1>2, <1>3

\* A step of Start that calls nobody.
LEMMA PhaseSearch ==
    ASSUME SearchInv, TypeOK', main \notin {"run", "sync"}, main' \notin {"sync", "enter"},
           main' \in {"prepare", "boot", "ensure", "fetch"} =>
               main \in {"prepare", "boot", "ensure", "fetch"},
           UNCHANGED <<sent, bmc, peer, local, msgs, sync, arriving, link, raced>>
    PROVE  SearchInv'
  <1>1. QuietInv /\ FreshInv
    BY DEF SearchInv
  <1>2. QuietInv' /\ FreshInv' /\ MissingRestored'
    BY ONLY <1>1, main \notin {"run", "sync"}, main' \notin {"sync", "enter"},
            main' \in {"prepare", "boot", "ensure", "fetch"} =>
               main \in {"prepare", "boot", "ensure", "fetch"},
            UNCHANGED <<sent, bmc, peer, local, msgs, sync, arriving, link, raced>>
       DEF QuietInv, FreshInv, MissingRestored
  <1> QED
    BY <1>2, SearchStays DEF SearchInv

\* Start, but for its call of syncAcc and its search.
LEMMA StartSearch ==
    ASSUME SearchInv, Prepare \/ Boot \/ Enter \/ StartFails
    PROVE  SearchInv'
  <1>1. /\ TypeOK /\ acc \in Leaves /\ disk \in [leaves : Leaves, booted : BOOLEAN]
        /\ faults \in 0 .. MaxFaults /\ MaxFaults \in Nat
    BY AccumulatorAssumption DEF SearchInv, TypeOK
  <1>2. UNCHANGED <<final, sent, bmc, peer, local, msgs, sync, arriving, link, raced>>
    BY DEF Prepare, Boot, Enter, StartFails, chain
  <1>3. /\ acc' \in Leaves /\ disk' \in [leaves : Leaves, booted : BOOLEAN]
        /\ faults' \in 0 .. MaxFaults
    <2>1. <<Offset>> \in Leaves
      BY AccumulatorAssumption DEF Leaves
    <2>2. /\ acc' \in {acc, <<Offset>>}
          /\ \/ disk' = disk
             \/ disk' = [disk EXCEPT !.booted = TRUE]
             \/ disk' = [disk EXCEPT !.leaves = <<Offset>>]
          /\ \/ faults' = faults
             \/ faults < MaxFaults /\ faults' = faults + 1
      BY DEF Prepare, Boot, Enter, StartFails
    <2>3. acc' \in Leaves
      BY ONLY <1>1, <2>1, <2>2
    <2>4. faults' \in 0 .. MaxFaults
      BY ONLY <1>1, <2>2
    <2>5. disk' \in [leaves : Leaves, booted : BOOLEAN]
      <3> HIDE DEF Leaves
      <3>1. CASE disk' = disk
        BY ONLY <1>1, <3>1
      <3>2. CASE disk' = [disk EXCEPT !.booted = TRUE]
        BY ONLY <1>1, <3>2
      <3>3. CASE disk' = [disk EXCEPT !.leaves = <<Offset>>]
        BY ONLY <1>1, <2>1, <3>3
      <3> QED
        BY ONLY <2>2, <3>1, <3>2, <3>3
    <2> QED
      BY ONLY <2>3, <2>4, <2>5
  <1>4. /\ main \notin {"run", "sync"} /\ main' \in {"boot", "ensure", "run", "down"}
        /\ main' \in {"prepare", "boot", "ensure", "fetch"} =>
              main \in {"prepare", "boot", "ensure", "fetch"}
    BY DEF Prepare, Boot, Enter, StartFails
  <1>5. TypeOK'
    BY ONLY <1>1, <1>2, <1>3, <1>4 DEF TypeOK
  <1> QED
    BY <1>2, <1>4, <1>5, PhaseSearch

\* The call of syncAcc in Start goes to the block of the contract.
LEMMA SynchronizeSearch ==
    ASSUME SearchInv, Synchronize
    PROVE  SearchInv'
  <1>1. /\ main = "ensure" /\ main' = "sync" /\ SyncBegin("start", peer.number)
        /\ UNCHANGED <<final, sent, bmc, acc, disk, peer, local, msgs, arriving, link, faults>>
    BY DEF Synchronize, chain
  <1>2. TypeOK /\ QuietInv /\ FreshInv /\ peer.number \in Offset .. MaxHeight
    BY DEF SearchInv, TypeOK, StatusType
  <1>3. "start" \in Threads /\ "status" \in Threads /\ "link" \in Threads
    BY DEF Threads
  <1>4. /\ sync' \in SyncType /\ CursorInv' /\ raced' \in BOOLEAN
        /\ \A u \in Threads \ {"start"} : sync'[u] = sync[u]
    BY <1>1, <1>2, <1>3, BeginSearch
  <1>5. TypeOK'
    BY ONLY <1>1, <1>2, <1>4 DEF TypeOK, SyncType
  <1>6. QuietInv' /\ FreshInv' /\ MissingRestored'
    BY ONLY <1>1, <1>2, <1>3, <1>4 DEF QuietInv, FreshInv, MissingRestored
  <1> QED
    BY <1>1, <1>4, <1>5, <1>6, SearchStays DEF SearchInv

\* Start finds what the contract lacks.
LEMMA FetchMissingSearch ==
    ASSUME SearchInv, FetchMissing
    PROVE  SearchInv'
  <1> DEFINE found == MessagesAfterSequence(sent, Offset, peer.number, peer.seq)
             wanted == Wanted(peer.number, peer.seq)
             top == SentUpTo(peer.number)
  <1>1. /\ main = "fetch" /\ main' = "enter"
        /\ msgs' \in Put(ToSet(found), Last(found))
        /\ local' = IF found = << >> THEN local ELSE [local EXCEPT !.seq = Last(found)]
        /\ UNCHANGED <<final, sent, bmc, acc, disk, peer, sync, arriving, link, faults, raced>>
    BY DEF FetchMissing, chain
  <1>2. TypeOK /\ QuietInv /\ Ascending /\ msgs = {} /\ local = peer
    BY <1>1 DEF SearchInv, FreshInv
  <1>3. /\ peer \in StatusType /\ sent \in [1 .. MaxSeq -> Offset .. MaxHeight]
        /\ peer.number \in Offset .. MaxHeight /\ peer.seq \in 0 .. MaxSeq
    BY <1>2 DEF TypeOK, StatusType
  <1>4. /\ Offset \in Nat /\ MaxHeight \in Nat /\ MaxSeq \in Nat /\ CacheSize \in Nat
    BY AccumulatorAssumption
  <1>5. sent \in [1 .. MaxSeq -> Nat] /\ \A s \in 1 .. MaxSeq : sent[s] >= Offset
    BY ONLY <1>3, <1>4
  <1>6. peer.number \in Nat /\ Offset <= peer.number /\ peer.seq \in Nat
    BY ONLY <1>3, <1>4
  <1>7. Returns(found, peer.number, peer.seq)
    BY ONLY <1>2, <1>4, <1>5, <1>6, SearchReturns
  <1>8. peer.seq <= top /\ top \in 0 .. MaxSeq
    <2>1. StatusInv /\ peer.number \in Int
      BY <1>6 DEF SearchInv
    <2> QED
      BY <1>2, <1>5, <2>1, SentFirst DEF StatusInv
  <1>9. wanted = peer.seq + 1 .. top /\ Cardinality(wanted) = top - peer.seq
    BY <1>2, <1>5, <1>6, <1>8, WantedIsNext
  <1>10. /\ ToSet(found) = wanted
         /\ found = << >> <=> wanted = {}
         /\ found # << >> => Last(found) \in wanted /\ \A s \in wanted : s <= Last(found)
    BY <1>7 DEF Returns
  <1> HIDE DEF found, wanted, top
  <1>11. found = << >> <=> peer.seq = top
    <2>1. wanted = {} <=> ~(peer.seq + 1 <= top)
      <3>1. peer.seq + 1 <= top => peer.seq + 1 \in wanted
        BY ONLY <1>4, <1>6, <1>8, <1>9
      <3>2. ~(peer.seq + 1 <= top) => \A s \in wanted : FALSE
        BY ONLY <1>4, <1>6, <1>8, <1>9
      <3> QED
        BY <3>1, <3>2
    <2> QED
      BY ONLY <1>4, <1>6, <1>8, <1>10, <2>1
  <1>12. local' = [number |-> peer.number, seq |-> top]
    <2>1. CASE found = << >>
      BY <1>1, <1>2, <1>3, <1>11, <2>1 DEF StatusType
    <2>2. CASE found # << >>
      <3>1. top \in wanted /\ Last(found) \in wanted
        BY ONLY <1>4, <1>6, <1>8, <1>9, <1>10, <1>11, <2>2
      <3>2. Last(found) = top
        BY ONLY <1>4, <1>6, <1>8, <1>9, <1>10, <2>2, <3>1
      <3> QED
        BY <1>1, <1>2, <1>3, <2>2, <3>2 DEF StatusType
    <2> QED
      BY <2>1, <2>2
  <1>13. /\ msgs' \subseteq wanted
         /\ Cardinality(msgs') <= CacheSize
         /\ Cardinality(msgs') = IF Cardinality(wanted) <= CacheSize
                                 THEN Cardinality(wanted) ELSE CacheSize
         /\ wanted \subseteq 1 .. MaxSeq
    <2>1. wanted \in SUBSET (1 .. MaxSeq)
      BY ONLY <1>4, <1>6, <1>8, <1>9
    <2>2. msgs \subseteq 1 .. MaxSeq /\ Cardinality(msgs) <= CacheSize /\ msgs' \in Put(wanted, Last(found))
      BY <1>1, <1>2, <1>10 DEF TypeOK
    <2>3. /\ msgs' \subseteq msgs \cup wanted
          /\ Cardinality(msgs') <= CacheSize
          /\ msgs = {} => Cardinality(msgs') = IF Cardinality(wanted) <= CacheSize
                                               THEN Cardinality(wanted) ELSE CacheSize
      BY ONLY <2>1, <2>2, PutFits, Zenon
    <2> QED
      BY ONLY <1>2, <2>1, <2>3
  <1>14. local' \in StatusType /\ msgs' \subseteq 1 .. MaxSeq
    BY <1>3, <1>8, <1>12, <1>13 DEF StatusType
  <1>15. TypeOK'
    BY ONLY <1>1, <1>2, <1>13, <1>14 DEF TypeOK
  <1>16. MissingRestored'
    <2>1. SentUpTo(peer.number)' = top
      BY <1>1 DEF SentUpTo, top
    <2>2. local'.seq = IF peer.seq < top THEN top ELSE peer.seq
      BY ONLY <1>4, <1>6, <1>8, <1>12
    <2>3. Cardinality(msgs') = Min({CacheSize, top - peer.seq})
      <3>1. Cardinality(msgs') = IF top - peer.seq <= CacheSize THEN top - peer.seq
                                 ELSE CacheSize
        BY <1>9, <1>13
      <3>2. top - peer.seq \in Nat
        BY ONLY <1>4, <1>6, <1>8
      <3> QED
        BY ONLY <1>4, <3>1, <3>2 DEF Min
    <2> QED
      BY <1>1, <1>9, <1>13, <2>1, <2>2, <2>3 DEF MissingRestored
  <1>17. QuietInv' /\ FreshInv'
    BY ONLY <1>1, <1>2 DEF QuietInv, FreshInv
  <1>18. link.pc = "idle"
    BY <1>1, <1>2 DEF QuietInv
  <1>19. AskedInv' /\ HeightFound'
    BY ONLY <1>1, <1>18 DEF AskedInv, HeightFound
  <1> QED
    BY <1>1, <1>15, <1>16, <1>17, <1>19, SearchStays DEF SearchInv

\* Crash and restart: Start begins with the status of the contract.
LEMMA RestartSearch ==
    ASSUME SearchInv, Crash \/ Restart
    PROVE  SearchInv'
  <1>1. /\ TypeOK /\ QuietInv /\ bmc \in StatusType
        /\ disk \in [leaves : Leaves, booted : BOOLEAN]
        /\ faults \in 0 .. MaxFaults /\ MaxFaults \in Nat
    BY AccumulatorAssumption DEF SearchInv, TypeOK
  <1>2. CASE Crash
    <2>1. /\ main' = "down" /\ faults' \in 0 .. MaxFaults
          /\ sync' = [t \in Threads |-> NoSync] /\ link' = Idle
          /\ UNCHANGED <<final, sent, bmc, acc, disk, peer, local, msgs, arriving, raced>>
      <3>1. faults < MaxFaults /\ faults' = faults + 1
        BY <1>2 DEF Crash
      <3>2. faults' \in 0 .. MaxFaults
        BY ONLY <1>1, <3>1
      <3> QED
        BY <1>2, <3>2 DEF Crash, chain
    <2>2. sync' \in SyncType /\ \A t \in Threads : sync'[t].pc = "idle"
      BY ONLY <2>1 DEF SyncType, NoSync
    <2>3. link' \in LinkRange /\ link'.pc = "idle"
      BY <2>1, IdleInRange
    <2>4. TypeOK'
      BY ONLY <1>1, <2>1, <2>2, <2>3 DEF TypeOK, SyncType, LinkRange
    <2>5. CursorInv' /\ QuietInv' /\ FreshInv' /\ MissingRestored'
      <3>1. CursorInv'
        BY ONLY <2>2 DEF CursorInv
      <3>2. {"start", "status", "link"} \subseteq Threads
        BY DEF Threads
      <3>3. QuietInv' /\ FreshInv' /\ MissingRestored'
        BY ONLY <2>1, <2>2, <2>3, <3>2 DEF QuietInv, FreshInv, MissingRestored
      <3> QED
        BY <3>1, <3>3
    <2>6. AskedInv' /\ HeightFound'
      BY ONLY <2>3 DEF AskedInv, HeightFound
    <2> QED
      BY <2>1, <2>4, <2>5, <2>6, SearchStays DEF SearchInv
  <1>3. CASE Restart
    <2>1. /\ main = "down" /\ main' = "prepare" /\ acc' = disk.leaves /\ msgs' = {}
          /\ peer' = bmc /\ local' = bmc /\ arriving' = bmc
          /\ UNCHANGED <<final, sent, bmc, disk, sync, link, faults, raced>>
      BY <1>3 DEF Restart, chain
    <2>2. Cardinality(msgs') <= CacheSize
      BY <2>1, FS_EmptySet, AccumulatorAssumption
    <2>3. TypeOK'
      BY ONLY <1>1, <2>1, <2>2 DEF TypeOK
    <2>4. QuietInv' /\ FreshInv' /\ MissingRestored'
      BY ONLY <1>1, <2>1 DEF QuietInv, FreshInv, MissingRestored
    <2>5. link'.pc = "idle"
      BY ONLY <1>1, <2>1 DEF QuietInv
    <2>6. AskedInv' /\ HeightFound'
      BY ONLY <2>5 DEF AskedInv, HeightFound
    <2> QED
      BY <2>1, <2>3, <2>4, <2>6, SearchStays DEF SearchInv
  <1> QED
    BY <1>2, <1>3

\* Among some messages there is a last one of the oldest block.
LEMMA SeenIsMessage ==
    ASSUME sent \in [1 .. MaxSeq -> Nat], NEW new \in SUBSET (1 .. MaxSeq), new # {}
    PROVE  Max({s \in new : \A t \in new : sent[s] <= sent[t]}) \in new
  <1> DEFINE T == {sent[s] : s \in new}
             S == {s \in new : \A t \in new : sent[s] <= sent[t]}
  <1>1. T \in SUBSET Nat /\ T # {}
    OBVIOUS
  <1> HIDE DEF T
  <1>2. PICK least \in T : \A n \in T : least <= n
    BY <1>1, LeastNatural
  <1>3. PICK s \in new : least = sent[s]
    BY DEF T
  <1>4. s \in S
    BY <1>2, <1>3 DEF T
  <1>5. S \in SUBSET (1 .. MaxSeq) /\ S # {} /\ S \subseteq new
    BY <1>4
  <1> HIDE DEF S
  <1>6. Max(S) \in S
    BY ONLY <1>5, MaxIsMember
  <1> QED
    BY <1>5, <1>6 DEF S

\* The loop comes to a final block, perhaps over several.
LEMMA AdvanceSearch ==
    ASSUME SearchInv, Advance
    PROVE  SearchInv'
  <1>1. PICK n \in local.number + 1 .. final :
            LET new == {s \in DOMAIN sent : sent[s] \in local.number + 1 .. n}
                seen == Max({s \in new : \A t \in new : sent[s] <= sent[t]})
            IN  /\ msgs' \in Put(new, seen)
                /\ local' = [number |-> n, seq |-> IF new = {} THEN local.seq ELSE seen]
    BY DEF Advance
  <1> DEFINE new == {s \in DOMAIN sent : sent[s] \in local.number + 1 .. n}
             seen == Max({s \in new : \A t \in new : sent[s] <= sent[t]})
  <1>2. /\ main = "run"
        /\ UNCHANGED <<final, sent, bmc, acc, disk, main, peer, sync, arriving, link, faults,
                       raced>>
    BY DEF Advance, chain
  <1>3. /\ TypeOK /\ AskedInv /\ HeightFound /\ local \in StatusType
        /\ msgs \subseteq 1 .. MaxSeq /\ Cardinality(msgs) <= CacheSize
        /\ sent \in [1 .. MaxSeq -> Offset .. MaxHeight] /\ final \in Offset .. MaxHeight
    BY DEF SearchInv, TypeOK
  <1>4. /\ local.number \in Offset .. MaxHeight /\ local.seq \in 0 .. MaxSeq
        /\ Offset \in Nat /\ MaxHeight \in Nat /\ MaxSeq \in Nat
        /\ MaxQueryRange \in Nat
    BY <1>3, AccumulatorAssumption, SearchAssumption DEF StatusType
  <1>5. new \in SUBSET (1 .. MaxSeq) /\ sent \in [1 .. MaxSeq -> Nat]
    BY <1>3, <1>4
  <1>6. n \in Offset .. MaxHeight /\ local.number < n
    BY ONLY <1>1, <1>3, <1>4
  <1>7. new # {} => seen \in 1 .. MaxSeq
    <2> HIDE DEF new
    <2> QED
      BY <1>5, SeenIsMessage
  <1>8. /\ msgs' \in Put(new, seen)
        /\ local' = [number |-> n, seq |-> IF new = {} THEN local.seq ELSE seen]
    BY <1>1
  <1> HIDE DEF new, seen
  <1>9. local' \in StatusType /\ local'.number = n
    <2>1. (IF new = {} THEN local.seq ELSE seen) \in 0 .. MaxSeq
      BY <1>4, <1>7
    <2> QED
      BY ONLY <1>8, <1>6, <2>1 DEF StatusType
  <1>10. msgs' \subseteq 1 .. MaxSeq /\ Cardinality(msgs') <= CacheSize
    <2>1. msgs' \subseteq msgs \cup new /\ Cardinality(msgs') <= CacheSize
      BY ONLY <1>3, <1>5, <1>8, PutFits, Zenon
    <2> QED
      BY ONLY <1>3, <1>5, <2>1
  <1>11. TypeOK'
    BY ONLY <1>2, <1>3, <1>9, <1>10 DEF TypeOK
  <1>12. FreshInv' /\ MissingRestored'
    BY ONLY <1>2 DEF FreshInv, MissingRestored
  <1>13. link.pc \in {"height", "found"} => link.seq \in 1 .. MaxSeq /\ sent[link.seq] \in Nat
    <2>1. link.pc \in {"height", "found"} => link.seq \in 1 .. MaxSeq
      BY ONLY <1>3 DEF AskedInv
    <2>2. \A s \in 1 .. MaxSeq : sent[s] \in Nat
      BY ONLY <1>3, <1>4
    <2> QED
      BY ONLY <2>1, <2>2
  <1>14. AskedInv'
    <2>1. link.pc = "height" => sent[link.seq] <= n
      BY ONLY <1>3, <1>4, <1>6, <1>13 DEF AskedInv
    <2> QED
      BY ONLY <1>2, <1>3, <1>9, <2>1 DEF AskedInv
  <1>15. HeightFound'
    <2>1. link.pc = "found" => \/ link.height = sent[link.seq]
                               \/ /\ link.height = NoBlock
                                  /\ sent[link.seq] + MaxQueryRange < n
      BY ONLY <1>3, <1>4, <1>6, <1>13 DEF HeightFound
    <2> QED
      BY ONLY <1>2, <1>9, <2>1 DEF HeightFound
  <1> QED
    BY <1>2, <1>11, <1>12, <1>14, <1>15, SearchStays DEF SearchInv

\* The call of FinalizedStatus goes to the block of the status it was given.
LEMMA FinalizedStatusSearch ==
    ASSUME SearchInv, FinalizedStatus
    PROVE  SearchInv'
  <1>1. /\ main = "run" /\ arriving' = bmc /\ SyncBegin("status", bmc.number)
        /\ UNCHANGED <<final, sent, bmc, acc, disk, main, peer, local, msgs, link, faults>>
    BY DEF FinalizedStatus, chain
  <1>2. TypeOK /\ QuietInv /\ bmc \in StatusType /\ bmc.number \in Offset .. MaxHeight
    BY DEF SearchInv, TypeOK, StatusType
  <1>3. "start" \in Threads /\ "status" \in Threads /\ "link" \in Threads
    BY DEF Threads
  <1>4. /\ sync' \in SyncType /\ CursorInv' /\ raced' \in BOOLEAN
        /\ \A u \in Threads \ {"status"} : sync'[u] = sync[u]
    BY <1>1, <1>2, <1>3, BeginSearch
  <1>5. TypeOK'
    BY ONLY <1>1, <1>2, <1>4 DEF TypeOK, SyncType
  <1>6. QuietInv'
    BY ONLY <1>1, <1>2, <1>3, <1>4 DEF QuietInv
  <1> QED
    BY <1>1, <1>4, <1>5, <1>6, SearchStays DEF SearchInv

\* A step of the link alone, outside of syncAcc.
LEMMA LinkSearch ==
    ASSUME SearchInv, link' \in LinkRange, faults' \in 0 .. MaxFaults,
           sync["link"].pc = "idle", main = "run", AskedInv', HeightFound',
           UNCHANGED <<final, sent, bmc, acc, disk, main, peer, local, msgs, sync, arriving, raced>>
    PROVE  SearchInv'
  <1>1. TypeOK /\ QuietInv
    BY DEF SearchInv
  <1>2. TypeOK'
    BY ONLY <1>1, link' \in LinkRange, faults' \in 0 .. MaxFaults,
            UNCHANGED <<final, sent, bmc, acc, disk, main, peer, local, msgs, sync, arriving, raced>>
       DEF TypeOK, LinkRange
  <1>3. QuietInv'
    BY ONLY <1>1, sync["link"].pc = "idle", main = "run",
            UNCHANGED <<main, sync>>
       DEF QuietInv
  <1> QED
    BY <1>2, <1>3, SearchStays DEF SearchInv

\* The link gives up, or is done.
LEMMA LinkStopsSearch ==
    ASSUME SearchInv, link' = Idle, faults' \in 0 .. MaxFaults,
           sync["link"].pc = "idle", main = "run",
           UNCHANGED <<final, sent, bmc, acc, disk, main, peer, local, msgs, sync, arriving, raced>>
    PROVE  SearchInv'
  <1>1. link' \in LinkRange /\ link'.pc = "idle"
    BY IdleInRange
  <1>2. AskedInv' /\ HeightFound'
    BY ONLY <1>1 DEF AskedInv, HeightFound
  <1> QED
    BY <1>1, <1>2, LinkSearch

\* The link asks, and is answered from the cache or by a query.
LEMMA AskSearch ==
    ASSUME SearchInv, Ask \/ GetHeightForSeq
    PROVE  SearchInv'
  <1>1. /\ link.pc \in {"idle", "height"}
        /\ UNCHANGED <<final, sent, bmc, acc, disk, main, peer, local, msgs, sync, arriving, faults, raced>>
    BY DEF Ask, GetHeightForSeq, Linking, chain
  <1>2. /\ TypeOK /\ AskedInv /\ QuietInv /\ Ascending
        /\ link \in LinkRange /\ faults \in 0 .. MaxFaults
        /\ sent \in [1 .. MaxSeq -> Offset .. MaxHeight]
        /\ bmc \in StatusType /\ local \in StatusType
    BY DEF SearchInv, TypeOK, LinkRange
  <1>3. /\ Offset \in Nat \ {0} /\ MaxHeight \in Nat /\ MaxSeq \in Nat /\ MaxQueryRange \in Nat
        /\ local.number \in Offset .. MaxHeight /\ bmc.seq \in 0 .. MaxSeq
        /\ sent \in [1 .. MaxSeq -> Nat]
    BY <1>2, AccumulatorAssumption, SearchAssumption DEF StatusType
  <1>4. CASE Ask
    <2>1. /\ main = "run" /\ link.pc = "idle" /\ bmc.seq < SentUpTo(local.number)
          /\ link' = [Idle EXCEPT !.pc = "height", !.status = bmc, !.seq = bmc.seq + 1]
      BY <1>4 DEF Ask
    <2>2. /\ SentUpTo(local.number) \in 0 .. MaxSeq
          /\ \A s \in 1 .. MaxSeq : sent[s] <= local.number <=> s <= SentUpTo(local.number)
      <3>1. local.number \in Int
        BY <1>3
      <3> QED
        BY <1>2, <1>3, <3>1, SentFirst
    <2>3. bmc.seq + 1 \in 1 .. MaxSeq /\ bmc.seq + 1 <= SentUpTo(local.number)
      BY ONLY <1>3, <2>1, <2>2
    <2>4. sent[bmc.seq + 1] <= local.number
      BY <2>2, <2>3
    <2>5. Idle \in LinkRange /\ bmc.seq + 1 \in 0 .. MaxSeq
      BY <2>3, IdleInRange
    <2>6. link' \in LinkRange /\ link'.pc = "height" /\ link'.seq = bmc.seq + 1
      BY ONLY <1>2, <2>1, <2>5 DEF LinkRange
    <2>7. AskedInv' /\ HeightFound'
      BY ONLY <1>1, <2>3, <2>4, <2>6 DEF AskedInv, HeightFound
    <2>8. sync["link"].pc = "idle"
      BY ONLY <1>2, <2>1 DEF QuietInv
    <2> QED
      BY <1>1, <1>2, <2>1, <2>6, <2>7, <2>8, LinkSearch
  <1>5. CASE GetHeightForSeq
    <2>1. /\ link.pc = "height"
          /\ link' = [link EXCEPT !.pc = "found", !.height = HeightOf(link.seq)]
      BY <1>5 DEF GetHeightForSeq
    <2>2. link.seq \in 1 .. MaxSeq /\ sent[link.seq] <= local.number
      BY ONLY <1>2, <2>1 DEF AskedInv
    <2>3. sent[link.seq] \in Offset .. MaxHeight
      BY <1>2, <2>2
    <2>4. \/ HeightOf(link.seq) = sent[link.seq]
          \/ /\ HeightOf(link.seq) = NoBlock
             /\ sent[link.seq] + MaxQueryRange < local.number
      <3>1. CASE link.seq \in msgs
        BY <3>1 DEF HeightOf
      <3>2. CASE link.seq \notin msgs /\ sent[link.seq] \in WindowStart(Offset, local.number) .. local.number
        BY <3>2 DEF HeightOf, MessageBySequence
      <3>3. CASE link.seq \notin msgs /\ sent[link.seq] \notin WindowStart(Offset, local.number) .. local.number
        <4>1. HeightOf(link.seq) = NoBlock
          BY <3>3 DEF HeightOf, MessageBySequence
        <4>2. WindowStart(Offset, local.number) =
                 IF local.number - Offset > MaxQueryRange THEN local.number - MaxQueryRange
                 ELSE Offset
          BY DEF WindowStart
        <4>3. sent[link.seq] + MaxQueryRange < local.number
          BY ONLY <1>3, <2>2, <2>3, <3>3, <4>2
        <4> QED
          BY <4>1, <4>3
      <3> QED
        BY <3>1, <3>2, <3>3
    <2>5. /\ link' \in LinkRange /\ link'.pc = "found"
          /\ link'.seq = link.seq /\ link'.height = HeightOf(link.seq)
      <3>1. HeightOf(link.seq) \in {NoBlock} \cup Offset .. MaxHeight
        BY ONLY <2>3, <2>4
      <3> HIDE DEF HeightOf
      <3> QED
        BY ONLY <1>2, <2>1, <3>1 DEF LinkRange
    <2>6. AskedInv' /\ HeightFound'
      BY ONLY <1>1, <2>2, <2>4, <2>5 DEF AskedInv, HeightFound
    <2>7. sync["link"].pc = "idle" /\ main = "run"
      BY ONLY <1>2, <2>1 DEF QuietInv
    <2> QED
      BY <1>1, <1>2, <2>5, <2>6, <2>7, LinkSearch
  <1> QED
    BY <1>4, <1>5

\* The link calls syncAcc, takes the witness, or stops.
LEMMA ProofSearch ==
    ASSUME SearchInv, BuildBlockProof \/ Witness \/ Relay \/ QueryFails
    PROVE  SearchInv'
  <1>1. /\ TypeOK /\ AskedInv /\ QuietInv /\ link \in LinkRange
        /\ faults \in 0 .. MaxFaults /\ acc \in Leaves
        /\ Offset \in Nat \ {0} /\ MaxHeight \in Nat /\ MaxFaults \in Nat
    BY AccumulatorAssumption DEF SearchInv, TypeOK, LinkRange
  <1>2. /\ link.pc \in {"height", "found", "witness", "proved"}
        /\ UNCHANGED <<final, sent, bmc, acc, disk, main, peer, local, msgs, arriving>>
        /\ \/ faults' = faults
           \/ faults < MaxFaults /\ faults' = faults + 1
    BY DEF BuildBlockProof, Witness, Relay, QueryFails, Linking, chain
  <1>3. main = "run" /\ sync["link"].pc = "idle"
    BY ONLY <1>1, <1>2 DEF QuietInv
  <1>4. faults' \in 0 .. MaxFaults
    BY ONLY <1>1, <1>2
  <1>5. CASE link' = Idle /\ sync' = sync /\ raced' = raced
    BY <1>2, <1>3, <1>4, <1>5, LinkStopsSearch
  <1>6. CASE BuildBlockProof /\ ~(link' = Idle /\ sync' = sync /\ raced' = raced)
    <2>1. /\ link.height \in Offset .. link.status.number
          /\ SyncBegin("link", link.status.number)
          /\ link' = [link EXCEPT !.pc = "sync"] /\ faults' = faults
      BY <1>6 DEF BuildBlockProof, NextRound, Linking
    <2>2. /\ link.status.number \in Offset .. MaxHeight
          /\ {"start", "status", "link"} \subseteq Threads
      BY <1>1 DEF LinkRange, StatusType, Threads
    <2>3. /\ sync' \in SyncType /\ CursorInv' /\ raced' \in BOOLEAN
          /\ \A u \in Threads \ {"link"} : sync'[u] = sync[u]
      BY <2>1, <2>2, BeginSearch
    <2>4. /\ link' \in LinkRange /\ link'.pc = "sync" /\ link'.seq = link.seq
          /\ link'.height = link.height /\ link'.status = link.status
      BY ONLY <1>1, <2>1 DEF LinkRange
    <2>5. TypeOK'
      BY ONLY <1>1, <1>2, <2>1, <2>3, <2>4 DEF TypeOK, SyncType, LinkRange
    <2>6. QuietInv' /\ AskedInv' /\ HeightFound'
      <3>1. QuietInv'
        BY ONLY <1>1, <1>2, <1>3, <2>2, <2>3, <2>4 DEF QuietInv
      <3>2. link.seq \in 1 .. MaxSeq
        BY ONLY <1>1, <1>2 DEF AskedInv
      <3>3. AskedInv' /\ HeightFound'
        BY ONLY <2>1, <2>4, <3>2 DEF AskedInv, HeightFound
      <3> QED
        BY <3>1, <3>3
    <2> QED
      BY <1>2, <2>3, <2>5, <2>6, SearchStays DEF SearchInv
  <1>7. CASE Witness /\ ~(link' = Idle /\ sync' = sync /\ raced' = raced)
    <2> DEFINE proof == WitnessForAt(acc, link.height, link.status.number)
    <2>1. /\ link.pc = "witness" /\ sync' = sync /\ raced' = raced
          /\ link.status.number < Height(acc)
          /\ link' = [link EXCEPT !.pc = "proved", !.proof = proof]
      BY <1>7 DEF Witness
    <2>2. /\ link.height \in Offset .. link.status.number /\ link.seq \in 1 .. MaxSeq
          /\ link.status.number \in Offset .. MaxHeight
      BY ONLY <1>1, <2>1 DEF AskedInv, LinkRange, StatusType
    <2>3. proof \in [header : Nat, leaves : Leaves, at : Nat]
      <3>1. Len(acc) \in Nat /\ Height(acc) = Offset + Len(acc)
        BY <1>1, LenProperties DEF Leaves, Height
      <3>2. /\ link.status.number + 1 - Offset \in Nat
            /\ link.status.number + 1 - Offset <= Len(acc)
            /\ link.height \in Nat /\ link.height + 1 - Offset \in Nat
        <4>1. Offset \in Nat /\ MaxHeight \in Nat
          BY ONLY <1>1
        <4>2. \A n, h, len \in Nat : n >= Offset /\ h >= Offset /\ n < Offset + len =>
                  /\ n + 1 - Offset \in Nat /\ n + 1 - Offset <= len
                  /\ h + 1 - Offset \in Nat
          BY ONLY <4>1
        <4>3. /\ link.status.number \in Nat /\ link.status.number >= Offset
              /\ link.height \in Nat /\ link.height >= Offset
          BY ONLY <2>2, <4>1
        <4>4. link.status.number < Offset + Len(acc)
          BY ONLY <2>1, <3>1
        <4> QED
          BY ONLY <3>1, <4>2, <4>3, <4>4
      <3>3. SubSeq(acc, 1, link.status.number + 1 - Offset) \in Leaves
        BY <1>1, <3>2, LeavesType
      <3> QED
        BY <3>2, <3>3 DEF WitnessForAt
    <2> HIDE DEF proof
    <2>4. /\ link' \in LinkRange /\ link'.pc = "proved" /\ link'.seq = link.seq
          /\ link'.height = link.height /\ link'.status = link.status
      BY ONLY <1>1, <2>1, <2>3 DEF LinkRange
    <2>5. AskedInv' /\ HeightFound'
      BY ONLY <2>2, <2>4 DEF AskedInv, HeightFound
    <2> QED
      BY <1>2, <1>3, <1>4, <2>1, <2>4, <2>5, LinkSearch
  <1>8. Relay \/ QueryFails => link' = Idle /\ sync' = sync /\ raced' = raced
    BY DEF Relay, QueryFails
  <1> QED
    BY <1>5, <1>6, <1>7, <1>8

-----------------------------------------------------------------------------
(* The theorems.                                                           *)

\* Nothing is asked for, and the contract is at the offset.
LEMMA InitSearch == Init => SearchInv
  <1> SUFFICES ASSUME Init PROVE SearchInv
    OBVIOUS
  <1>1. /\ Offset \in Nat \ {0} /\ CacheSize \in Nat /\ MaxHeight \in Nat /\ MaxSeq \in Nat
        /\ MaxFaults \in Nat /\ Offset \in Offset .. MaxHeight
    BY AccumulatorAssumption
  <1>2. << >> \in Leaves /\ Idle \in LinkRange /\ Idle.pc = "idle"
    BY LeavesType, IdleInRange
  <1>3. bmc \in StatusType /\ bmc.seq = 0
    BY <1>1 DEF Init, StatusType
  <1>4. Cardinality({}) = 0
    BY FS_EmptySet
  <1>5. sync \in SyncType /\ \A t \in Threads : sync[t].pc = "idle"
    BY DEF Init, SyncType, NoSync
  <1>6. TypeOK
    <2>1. /\ final \in Offset .. MaxHeight /\ sent \in [1 .. MaxSeq -> Offset .. MaxHeight]
          /\ {bmc, peer, local, arriving} \subseteq StatusType
      BY <1>1, <1>3 DEF Init
    <2>2. acc \in Leaves /\ disk \in [leaves : Leaves, booted : BOOLEAN]
      BY <1>2 DEF Init
    <2>3. /\ main \in {"prepare", "boot", "ensure", "sync", "fetch", "enter", "run", "down"}
          /\ raced \in BOOLEAN
      BY DEF Init
    <2>4. link \in LinkRange
      BY <1>2 DEF Init
    <2>5. faults \in 0 .. MaxFaults
      BY <1>1 DEF Init
    <2>6. msgs \subseteq 1 .. MaxSeq /\ Cardinality(msgs) <= CacheSize
      <3>1. msgs = {}
        BY DEF Init
      <3>2. 0 <= CacheSize
        BY ONLY <1>1
      <3> QED
        BY ONLY <1>4, <3>1, <3>2
    <2> QED
      BY ONLY <1>5, <2>1, <2>2, <2>3, <2>4, <2>5, <2>6 DEF TypeOK, SyncType, LinkRange
  <1>7. Ascending
    BY DEF Init, Ascending
  <1>8. StatusInv
    <2>1. sent \in [1 .. MaxSeq -> Nat] /\ bmc.number \in Int
      BY <1>1, <1>3 DEF Init, StatusType
    <2>2. SentUpTo(bmc.number) \in 0 .. MaxSeq
      BY <1>7, <2>1, SentFirst
    <2> QED
      BY <1>3, <2>2 DEF Init, StatusInv
  <1>9. CursorInv /\ QuietInv
    BY <1>2, <1>5 DEF Init, CursorInv, QuietInv, Threads
  <1>10. FreshInv /\ MissingRestored /\ AskedInv /\ HeightFound
    BY <1>2 DEF Init, FreshInv, MissingRestored, AskedInv, HeightFound
  <1> QED
    BY <1>6, <1>7, <1>8, <1>9, <1>10 DEF SearchInv

\* Every step keeps the second invariant.
LEMMA NextSearch ==
    ASSUME SearchInv, [Next]_vars
    PROVE  SearchInv'
  <1>1. {"start", "status", "link"} \subseteq Threads
    BY DEF Threads
  <1>2. CASE Finalize \/ Accept
    BY <1>2, NodeSearch
  <1>3. CASE Start
    BY <1>1, <1>3, StartSearch, SynchronizeSearch, AddSearch, FlushSearch,
       FetchMissingSearch DEF Start
  <1>4. CASE Advance
    BY <1>4, AdvanceSearch
  <1>5. CASE StatusLoop
    BY <1>1, <1>5, FinalizedStatusSearch, AddSearch, FlushSearch DEF StatusLoop
  <1>6. CASE Ask
    BY <1>6, AskSearch
  <1>7. CASE Link
    BY <1>1, <1>7, AskSearch, ProofSearch, AddSearch, FlushSearch DEF Link
  <1>8. CASE Fails
    BY <1>8, StartSearch, ProofSearch, FlushSearch DEF Fails
  <1>9. CASE Crash \/ Restart
    BY <1>9, RestartSearch
  <1>10. CASE UNCHANGED vars
    <2>1. UNCHANGED <<final, sent, bmc, acc, disk, main, peer, local, msgs, sync, arriving,
                      link, faults, raced>>
      BY <1>10 DEF vars
    <2>2. TypeOK'
      BY ONLY <2>1, SearchInv DEF SearchInv, TypeOK
    <2> QED
      BY <2>1, <2>2, SearchStays DEF SearchInv
  <1> QED
    BY <1>2, <1>3, <1>4, <1>5, <1>6, <1>7, <1>8, <1>9, <1>10 DEF Next

\* The invariant of the search for messages, however calls of syncAcc overlap.
THEOREM SearchInvariance == Safe => []SearchInv
  <1>1. SearchInv /\ [Next]_vars => SearchInv'
    BY NextSearch
  <1> QED
    BY InitSearch, <1>1, PTL DEF Safe

\* The variables keep their types, the accumulator holds blocks that there are
\* and the cache keeps to its size, however calls of syncAcc overlap.
THEOREM TypeCorrect == Safe => []TypeOK
  <1>1. SearchInv => TypeOK
    BY DEF SearchInv
  <1> QED
    BY SearchInvariance, <1>1, PTL

\* After Start the receiver has the messages that the contract lacks, as many as
\* its cache holds, and its status names the last of them: the windows of the
\* search lose none at the blocks they share.
THEOREM RestoreSafety == Safe => []MissingRestored
  <1>1. SearchInv => MissingRestored
    BY DEF SearchInv
  <1> QED
    BY SearchInvariance, <1>1, PTL

\* A message that the link asks for is not found only when the cache has lost it
\* and its block is more than one window below the loop's.
THEOREM HeightSafety == Safe => []HeightFound
  <1>1. SearchInv => HeightFound
    BY DEF SearchInv
  <1> QED
    BY SearchInvariance, <1>1, PTL
=============================================================================
