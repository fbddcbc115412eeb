--------------------------- MODULE ReceiverProofs ---------------------------
(***************************************************************************)
(* Theorems about the receiver, for any caches, limits, chains and faults. *)
(*                                                                         *)
(* The strengthening IInv says why what the receiver keeps is final.  A    *)
(* header is fetched once the chain is at its number, maybe before that    *)
(* number is final; but whatever tells the receiver that a height is final *)
(* it has from headers that come after it on the same branch, so that a    *)
(* header on another branch is never at a height it takes for final        *)
(* (SettledInv).                                                           *)
(***************************************************************************)
EXTENDS Receiver, BranchProofs

IsFinal(b) == IsAncestor(b, finalized)

Sound(b) == SoundFor(b, finalized)

\* Sequence numbers ascend along a branch.
Ascends(b) == \A i, j \in 1 .. Len(b) : i <= j => b[i].seq <= b[j].seq

ChainInv == IsAncestor(finalized, chain) /\ Sound(chain) /\ Ascends(chain)

\* The watcher is ahead of the loop.
WatchInv ==
    /\ watch.head # None => Number(watch.head) = watch.want - 1
    /\ loop.pc \in {"full", "apply"} =>
          /\ loop.head # None
          /\ Number(loop.head) < watch.want
          /\ watch.head # None => Number(loop.head) < Number(watch.head)
    /\ Sound(watch.head) /\ Sound(loop.head) /\ Sound(loop.snap)

\* The heights the receiver or the link has taken for final.
Reached(n) ==
    \/ n <= local.cache
    \/ \E st \in Statuses \cup {build} : n <= Number(st.tree.root)

SettledInv ==
    /\ \A n \in DOMAIN heads : Number(heads[n]) = n /\ (Reached(n) => IsFinal(heads[n]))
    /\ Reached(Number(watch.head)) => IsFinal(watch.head)
    /\ Reached(Number(loop.head)) => IsFinal(loop.head)
    /\ local.cache <= Number(finalized)
    /\ IsFinal(local.hash)

\* The calculator of the loop stands at the last block, and the cache has the
\* blocks since its checkpoint.
LoopInv ==
    LET checkpoint == Number(loop.calc.checkpoint)
    IN  /\ StandsAt(loop.calc, loop.snap, checkpoint)
        /\ IsFinal(loop.calc.checkpoint)
        /\ checkpoint <= local.cache \/ checkpoint <= Number(peer.tree.root)
        /\ \A n \in DOMAIN heads :
              checkpoint < n /\ n <= Number(loop.snap) =>
                  heads[n] = AncestorAt(loop.snap, n)

\* A walk for messages is between the local block and a final one above it.
WalkInv ==
    loop.pc = "query" =>
        /\ IsAncestor(local.hash, loop.cursor)
        /\ IsAncestor(loop.cursor, loop.target)
        /\ IsFinal(loop.target)

\* The tree is one branch, with the final block `tip' at its end.
IsBranch(tree, tip) ==
    /\ IsFinal(tip)
    /\ Number(tree.root) <= Number(tip)
    /\ tree = BranchTree(Number(tree.root), tip)

StatusOK(st) ==
    /\ st.height = Number(st.tree.root)
    /\ \E tip \in st.tree.nodes : IsBranch(st.tree, tip)
    /\ st.seq <= SentUpTo(st.tree.root)

StatusInv == \A st \in Statuses : StatusOK(st)

\* A status goes on from an earlier one.
GoesOn(earlier, later) == earlier.height <= later.height /\ earlier.seq <= later.seq

OrderInv ==
    \A i \in 1 .. Len(relayed) :
        /\ GoesOn(peer, relayed[i])
        /\ \A j \in i .. Len(relayed) : GoesOn(relayed[i], relayed[j])

\* A block update in progress goes on from the view of the link.
BuildInv ==
    /\ IsBranch(build.tree, build.parent)
    /\ build.on =>
          /\ build.calc.checkpoint = build.tree.root
          /\ StandsAt(build.calc, build.parent, Number(build.tree.root))
          /\ build.number = Number(build.parent) + 1
          /\ Number(build.tree.root) = View.height + build.finalities
          /\ Len(relayed) < MaxInFlight

\* The messages of a walk in progress are in the cache from its end down to
\* the block it has come to.
MsgsInv ==
    /\ MessagesAreFinal
    /\ MessagesAreKept
    /\ SentUpTo(finalized) <= CacheSize /\ loop.pc = "query" =>
          \A s \in SentUpTo(loop.cursor) + 1 .. SentUpTo(loop.target) :
              s > peer.seq => s \in DOMAIN msgs

FiniteInv == IsFiniteSet(DOMAIN heads) /\ IsFiniteSet(DOMAIN msgs)

IInv ==
    /\ TypeOK /\ FiniteInv /\ ChainInv /\ WatchInv /\ SettledInv /\ LoopInv
    /\ WalkInv /\ StatusInv /\ OrderInv /\ BuildInv /\ MsgsInv /\ NeverPanics

-----------------------------------------------------------------------------
(* Blocks of the receiver.                                                 *)

\* What a body holds.
LEMMA BodyFields ==
    ASSUME NEW body \in Bodies
    PROVE  body.att \in Attestations /\ body.seq \in Nat
  BY DEF Bodies, Attestations

\* The genesis block is a block, of number 0 and an ancestor of all.
LEMMA GenesisIsBlock ==
    /\ Genesis \in Block
    /\ Number(Genesis) = 0
    /\ \A b \in Block : /\ IsAncestor(Genesis, b)
                        /\ Number(b) \in Nat
                        /\ Number(b) = 0 <=> b = Genesis
    /\ \A f : SoundFor(Genesis, f)
  <1>1. /\ Genesis \in Seq(Bodies)
        /\ Number(Genesis) = 0
        /\ \A b \in Seq(Bodies) : /\ IsAncestor(Genesis, b)
                                  /\ Number(b) \in Nat
                                  /\ Number(b) = 0 <=> b = Genesis
        /\ \A f : SoundFor(Genesis, f)
    BY ONLY GenesisOf, Zenon
  <1>2. Block = Seq(Bodies)
    BY DEF Block
  <1> QED
    BY ONLY <1>1, <1>2, Zenon

\* The ancestor at a height.
LEMMA AncestorIsBlock ==
    ASSUME NEW b \in Block, NEW n \in 0 .. Number(b)
    PROVE  /\ AncestorAt(b, n) \in Block
           /\ Number(AncestorAt(b, n)) = n
           /\ IsAncestor(AncestorAt(b, n), b)
  BY AncestorOf DEF Block

\* The block one below.
LEMMA ParentIsBlock ==
    ASSUME NEW b \in Block, b # Genesis
    PROVE  /\ Parent(b) = AncestorAt(b, Number(b) - 1)
           /\ Parent(b) \in Block
           /\ Number(Parent(b)) = Number(b) - 1
           /\ IsAncestor(Parent(b), b)
           /\ Number(b) \in Nat \ {0}
  BY ParentOf DEF Block

\* Two ancestors of one block: the lower is the ancestor of the higher, and
\* they are equal when they are at one height.
LEMMA AncestorsAgree ==
    ASSUME NEW a \in Block, NEW b \in Block, NEW final \in Block,
           IsAncestor(a, final), IsAncestor(b, final), Number(a) <= Number(b)
    PROVE  /\ IsAncestor(a, b)
           /\ Number(a) \in 0 .. Number(b)
           /\ a = AncestorAt(b, Number(a))
           /\ Number(a) = Number(b) => a = b
  BY AncestorsMeet DEF Block

\* What an ancestor of b has at a height, b has.
LEMMA AncestorHas ==
    ASSUME NEW a \in Block, NEW b \in Block, IsAncestor(a, b)
    PROVE  /\ Number(a) <= Number(b)
           /\ a = AncestorAt(b, Number(a))
           /\ \A n \in 0 .. Number(a) : n \in 0 .. Number(b)
                                        /\ AncestorAt(a, n) = AncestorAt(b, n)
  BY AncestorShares DEF Block

\* An ancestor of an ancestor.
LEMMA AncestorOfAncestor ==
    ASSUME NEW a \in Block, NEW b \in Block, NEW c \in Block,
           IsAncestor(a, b), IsAncestor(b, c)
    PROVE  IsAncestor(a, c)
  BY AncestorTransitive DEF Block

\* Ancestors have the attestations the block has, and the same is known of
\* them.
LEMMA SoundAncestor ==
    ASSUME NEW a \in Block, NEW b \in Block, NEW final, SoundFor(b, final),
           IsAncestor(a, b)
    PROVE  SoundFor(a, final)
  <1>1. Attested(Bodies)
    BY BodyFields DEF Attested
  <1> QED
    BY <1>1, SoundBelow DEF Block

\* What is final stays final.
LEMMA SoundStays ==
    ASSUME NEW b \in Block, NEW old \in Block, NEW new \in Block,
           SoundFor(b, old), IsAncestor(old, new)
    PROVE  SoundFor(b, new)
  <1>1. Attested(Bodies)
    BY BodyFields DEF Attested
  <1> QED
    BY <1>1, SoundOnwards DEF Block

\* What follows from an attestation of a sound block.
LEMMA SoundSource ==
    ASSUME NEW b \in Block, NEW final, SoundFor(b, final)
    PROVE  /\ Bounded(b)
           /\ \A n \in 1 .. Len(b) :
                 /\ b[n].att.source \in 0 .. Number(b) - 1
                 /\ IsAncestor(AncestorAt(b, b[n].att.source), final)
  <1>1. Attested(Bodies)
    BY BodyFields DEF Attested
  <1> QED
    BY <1>1, SoundSources DEF Block

\* The harvest of a final block is final and not above it.
LEMMA HarvestIsFinal ==
    ASSUME NEW b \in Block, NEW final \in Block, SoundFor(b, final), IsAncestor(b, final),
           NEW snap
    PROVE  /\ Harvest(snap, b) \in Block
           /\ IsAncestor(Harvest(snap, b), final)
  <1>1. CASE b = Genesis
    <2>1. Harvest(snap, b) = AncestorAt(b, 0)
      BY <1>1 DEF Harvest, AttestationOf, NoAttestation
    <2>2. 0 \in 0 .. Number(b)
      BY GenesisIsBlock
    <2>3. AncestorAt(b, 0) \in Block /\ IsAncestor(AncestorAt(b, 0), b)
      BY <2>2, AncestorIsBlock
    <2> QED
      BY <2>1, <2>3, AncestorOfAncestor
  <1>2. CASE b # Genesis
    <2>1. Len(b) \in 1 .. Len(b) /\ Harvest(snap, b) = AncestorAt(b, b[Len(b)].att.source)
      BY <1>2, GenesisIsBlock DEF Harvest, AttestationOf, Body, Number
    <2>2. b[Len(b)].att.source \in 0 .. Number(b) - 1
          /\ IsAncestor(AncestorAt(b, b[Len(b)].att.source), final)
      BY <2>1, SoundSource
    <2>3. b[Len(b)].att.source \in 0 .. Number(b)
      BY <2>2, GenesisIsBlock
    <2> QED
      BY <2>1, <2>2, <2>3, AncestorIsBlock
  <1> QED
    BY <1>1, <1>2

\* Sequences of messages ascend along the branch.
LEMMA SentAscends ==
    ASSUME NEW a \in Block, NEW b \in Block, IsAncestor(a, b), Ascends(b)
    PROVE  /\ Ascends(a)
           /\ SentUpTo(a) \in Nat /\ SentUpTo(b) \in Nat
           /\ SentUpTo(a) <= SentUpTo(b)
  <1>1. /\ Len(a) \in Nat /\ Len(b) \in Nat /\ Len(a) <= Len(b)
        /\ \A n \in 1 .. Len(a) : n \in 1 .. Len(b) /\ a[n] = b[n]
    BY LenProperties DEF IsAncestor, Block
  <1>2. Ascends(a)
    BY <1>1 DEF Ascends
  <1>3. \A n \in 1 .. Len(b) : b[n].seq \in Nat
    BY ElementOfSeq, BodyFields DEF Block
  <1>4. SentUpTo(b) = IF Len(b) = 0 THEN 0 ELSE b[Len(b)].seq
    BY GenesisIsBlock DEF SentUpTo, Body, Number
  <1>5. SentUpTo(a) = IF Len(a) = 0 THEN 0 ELSE b[Len(a)].seq
    BY <1>1, GenesisIsBlock DEF SentUpTo, Body, Number
  <1>6. SentUpTo(b) \in Nat /\ SentUpTo(a) \in Nat
    BY <1>1, <1>3, <1>4, <1>5
  <1>7. SentUpTo(a) <= SentUpTo(b)
    BY <1>1, <1>3, <1>4, <1>5 DEF Ascends
  <1> QED
    BY <1>2, <1>6, <1>7

-----------------------------------------------------------------------------
(* The caches.                                                             *)

\* What the receiver caches: blocks under numbers, finitely many.
IsCache(cache) ==
    cache \in [DOMAIN cache -> Block] /\ DOMAIN cache \subseteq Nat /\ IsFiniteSet(DOMAIN cache)

\* What is added to a cache is in it as long as there is room, and what is in
\* it was added or was there before.
LEMMA PutInto ==
    ASSUME NEW cache, IsCache(cache), NEW entries, IsCache(entries),
           NEW put \in Put(cache, entries)
    PROVE  /\ IsCache(put)
           /\ Cardinality(DOMAIN put) <= CacheSize
           /\ \A k \in DOMAIN put :
                 /\ k \in DOMAIN entries \/ k \in DOMAIN cache
                 /\ put[k] = IF k \in DOMAIN entries THEN entries[k] ELSE cache[k]
           /\ Cardinality(DOMAIN cache \cup DOMAIN entries) <= CacheSize =>
                 DOMAIN put = DOMAIN cache \cup DOMAIN entries
  <1> DEFINE all == DOMAIN cache \cup DOMAIN entries
             full == [k \in all |-> IF k \in DOMAIN entries THEN entries[k] ELSE cache[k]]
  <1>1. IsFiniteSet(all) /\ all \subseteq Nat
    BY FS_Union DEF IsCache
  <1>2. full \in [all -> Block]
    BY DEF IsCache
  <1>3. CASE Cardinality(all) <= CacheSize
    <2>1. put = full
      BY <1>3 DEF Put
    <2> QED
      BY <1>1, <1>2, <1>3, <2>1 DEF IsCache
  <1>4. CASE ~(Cardinality(all) <= CacheSize)
    <2>1. PICK kept \in kSubset(CacheSize, all) : put = Restrict(full, kept)
      BY <1>4 DEF Put
    <2>2. kept \subseteq all /\ Cardinality(kept) = CacheSize
      BY <2>1 DEF kSubset
    <2>3. IsFiniteSet(kept)
      BY <1>1, <2>2, FS_Subset
    <2>4. put = [k \in kept |-> IF k \in DOMAIN entries THEN entries[k] ELSE cache[k]]
      BY <2>1, <2>2 DEF Restrict
    <2>5. CacheSize \in Nat
      BY ConstantsAssumption
    <2> QED
      BY <1>1, <1>2, <1>4, <2>2, <2>3, <2>4, <2>5 DEF IsCache
  <1> QED
    BY <1>3, <1>4

\* The same of one block under a number.
LEMMA PutOne ==
    ASSUME NEW cache, IsCache(cache), NEW number \in Nat, NEW b \in Block,
           NEW entries, entries = [n \in {number} |-> b],
           NEW put \in Put(cache, entries)
    PROVE  /\ IsCache(put)
           /\ Cardinality(DOMAIN put) <= CacheSize
           /\ \A n \in DOMAIN put : /\ n # number => n \in DOMAIN cache
                                    /\ put[n] = IF n = number THEN b ELSE cache[n]
  <1>1. DOMAIN entries = {number} /\ entries[number] = b
    OBVIOUS
  <1>2. IsCache(entries)
    BY FS_Singleton DEF IsCache
  <1>3. IsCache(cache) /\ put \in Put(cache, entries)
    OBVIOUS
  <1>4. /\ IsCache(put)
        /\ Cardinality(DOMAIN put) <= CacheSize
        /\ \A k \in DOMAIN put :
              /\ k \in DOMAIN entries \/ k \in DOMAIN cache
              /\ put[k] = IF k \in DOMAIN entries THEN entries[k] ELSE cache[k]
    BY ONLY <1>2, <1>3, PutInto
  <1> QED
    BY <1>1, <1>4

\* Entries taken out of a cache.
LEMMA TakenFrom ==
    ASSUME NEW cache, IsCache(cache), Cardinality(DOMAIN cache) <= CacheSize,
           NEW gone, NEW rest, rest = Restrict(cache, DOMAIN cache \ gone)
    PROVE  /\ IsCache(rest)
           /\ DOMAIN rest = DOMAIN cache \ gone
           /\ Cardinality(DOMAIN rest) <= CacheSize
           /\ \A k \in DOMAIN rest : rest[k] = cache[k]
  <1>1. rest = [k \in DOMAIN cache \ gone |-> cache[k]]
    BY DEF Restrict
  <1>2. DOMAIN rest = DOMAIN cache \ gone
    BY <1>1
  <1>3. IsFiniteSet(DOMAIN rest) /\ Cardinality(DOMAIN rest) <= Cardinality(DOMAIN cache)
    BY <1>2, FS_Subset DEF IsCache
  <1>4. /\ CacheSize \in Nat
        /\ Cardinality(DOMAIN rest) \in Nat /\ Cardinality(DOMAIN cache) \in Nat
    BY <1>3, FS_CardinalityType, ConstantsAssumption DEF IsCache
  <1> QED
    BY <1>1, <1>2, <1>3, <1>4 DEF IsCache

\* The greatest of an interval.
LEMMA MaxOfInterval ==
    ASSUME NEW m \in Nat, NEW n \in Nat, m .. n # {}
    PROVE  Max(m .. n) = n
  <1>1. n \in m .. n /\ \A i \in m .. n : n >= i
    OBVIOUS
  <1>2. \A i \in m .. n : i >= n => i = n
    OBVIOUS
  <1> QED
    BY <1>1, <1>2 DEF Max

-----------------------------------------------------------------------------
(* The calculators of the loop and of the link.                            *)

\* feed, on a block that is a child of the one the calculator stands at, all
\* of whose attestations have final sources: the new checkpoint is final and
\* below the block, and what is returned are the blocks up to it.
LEMMA FeedOnBranch ==
    ASSUME NEW b \in Block, b # Genesis, NEW final \in Block, SoundFor(b, final),
           NEW calc \in CalculatorType, NEW k \in Nat,
           StandsAt(calc, Parent(b), k), IsAncestor(calc.checkpoint, final)
    PROVE  LET fed == Feed(calc, b)
           IN  \E s \in k .. Number(b) - 1 :
                  /\ fed.finalities \in Seq(Block)
                  /\ Len(fed.finalities) = s - k
                  /\ Follows(fed.finalities, b, k, s)
                  /\ fed.calc \in CalculatorType
                  /\ fed.calc.checkpoint = AncestorAt(b, s)
                  /\ StandsAt(fed.calc, b, s)
                  /\ AncestorAt(b, s) \in Block
                  /\ Number(AncestorAt(b, s)) = s
                  /\ IsAncestor(AncestorAt(b, s), final)
                  /\ fed.finalities = << >> <=> s = k
                  /\ s # k => Last(fed.finalities) = AncestorAt(b, s)
  <1>1. Attested(Bodies) /\ CalculatorType = CalculatorOf(Bodies)
    BY BodyFields DEF Attested, CalculatorType, CalculatorOf, Block
  <1>2. b \in Seq(Bodies) /\ final \in Seq(Bodies) /\ calc \in CalculatorOf(Bodies)
    BY <1>1 DEF Block
  <1>3. LET fed == Feed(calc, b)
        IN  \E s \in k .. Number(b) - 1 :
               /\ fed.finalities \in Seq(Seq(Bodies))
               /\ Len(fed.finalities) = s - k
               /\ Follows(fed.finalities, b, k, s)
               /\ fed.calc \in CalculatorOf(Bodies)
               /\ fed.calc.checkpoint = AncestorAt(b, s)
               /\ StandsAt(fed.calc, b, s)
               /\ AncestorAt(b, s) \in Seq(Bodies)
               /\ Number(AncestorAt(b, s)) = s
               /\ s # k => IsAncestor(AncestorAt(b, s), final)
               /\ fed.finalities = << >> <=> s = k
               /\ s # k => Last(fed.finalities) = AncestorAt(b, s)
    <2>1. b # Genesis /\ SoundFor(b, final) /\ StandsAt(calc, Parent(b), k)
      OBVIOUS
    <2>2. Attested(Bodies)
      BY <1>1
    <2> QED
      BY ONLY <1>2, <2>1, <2>2, k \in Nat, FeedFollows, SMTT(40)
  <1>4. PICK s \in k .. Number(b) - 1 :
           LET fed == Feed(calc, b)
           IN  /\ fed.finalities \in Seq(Seq(Bodies))
               /\ Len(fed.finalities) = s - k
               /\ Follows(fed.finalities, b, k, s)
               /\ fed.calc \in CalculatorOf(Bodies)
               /\ fed.calc.checkpoint = AncestorAt(b, s)
               /\ StandsAt(fed.calc, b, s)
               /\ AncestorAt(b, s) \in Seq(Bodies)
               /\ Number(AncestorAt(b, s)) = s
               /\ s # k => IsAncestor(AncestorAt(b, s), final)
               /\ fed.finalities = << >> <=> s = k
               /\ s # k => Last(fed.finalities) = AncestorAt(b, s)
    BY ONLY <1>3, Zenon
  <1>5. s = k => IsAncestor(AncestorAt(b, s), final)
    <2>1. Parent(b) \in Block /\ IsAncestor(Parent(b), b) /\ k \in 0 .. Number(Parent(b))
      BY ParentIsBlock DEF StandsAt, Number
    <2>2. AncestorAt(b, k) = AncestorAt(Parent(b), k)
      BY <2>1, AncestorHas
    <2> QED
      BY <2>2 DEF StandsAt
  <1> QED
    BY <1>1, <1>4, <1>5 DEF Block

-----------------------------------------------------------------------------
(* What holds in the states of the invariant.                              *)

\* The statuses of the link, and the one it builds on.
LEMMA StatusTypes ==
    ASSUME TypeOK
    PROVE  /\ Statuses \subseteq Status
           /\ View \in Statuses
           /\ \A st \in Statuses : st.tree.root \in Block /\ st.tree.nodes \subseteq Block
  <1>1. peer \in Status /\ relayed \in Seq(Status)
    BY DEF TypeOK
  <1>2. Range(relayed) \subseteq Status
    BY <1>1, ElementOfSeq, LenProperties DEF Range
  <1>3. Statuses \subseteq Status
    BY <1>1, <1>2 DEF Statuses
  <1>4. View \in Statuses
    <2>1. CASE relayed = << >>
      BY <2>1 DEF View, Statuses
    <2>2. CASE relayed # << >>
      <3>1. Len(relayed) \in DOMAIN relayed
        BY <1>1, <2>2, EmptySeq, LenProperties
      <3>2. Last(relayed) \in Range(relayed)
        BY <3>1 DEF Last, Range
      <3> QED
        BY <2>2, <3>2 DEF View, Statuses
    <2> QED
      BY <2>1, <2>2
  <1> QED
    BY <1>3, <1>4 DEF Status, Tree

\* A tree that is a branch: its root and its tip are final.
LEMMA BranchFacts ==
    ASSUME NEW tree, NEW tip \in Block, finalized \in Block, IsBranch(tree, tip),
           tree.root \in Block
    PROVE  /\ Number(tree.root) \in 0 .. Number(tip)
           /\ tree.root = AncestorAt(tip, Number(tree.root))
           /\ tree = BranchTree(Number(tree.root), tip)
           /\ IsFinal(tree.root) /\ IsFinal(tip)
           /\ Number(tree.root) <= Number(finalized)
           /\ Number(tip) <= Number(finalized)
  <1>1. Number(tree.root) \in 0 .. Number(tip)
    BY GenesisIsBlock DEF IsBranch
  <1>2. tree = BranchTree(Number(tree.root), tip)
    BY DEF IsBranch
  <1>3. tree.root = AncestorAt(tip, Number(tree.root))
    <2> DEFINE k == Number(tree.root)
    <2>1. tree = BranchTree(k, tip)
      BY <1>2
    <2> HIDE DEF k
    <2>2. tree.root = AncestorAt(tip, k)
      BY <2>1 DEF BranchTree
    <2> QED
      BY <2>2 DEF k
  <1>4. IsFinal(tip)
    BY DEF IsBranch
  <1>5. IsFinal(tree.root)
    <2>1. IsAncestor(tree.root, tip)
      BY <1>1, <1>3, AncestorIsBlock
    <2> QED
      BY <1>4, <2>1, AncestorOfAncestor DEF IsFinal
  <1> QED
    BY <1>1, <1>2, <1>3, <1>4, <1>5, AncestorHas DEF IsFinal

\* The roots of the statuses are final.
LEMMA RootsAreFinal ==
    ASSUME TypeOK, StatusInv, NEW st \in Statuses
    PROVE  /\ st \in Status
           /\ st.height = Number(st.tree.root)
           /\ st.tree.root \in Block
           /\ IsFinal(st.tree.root)
           /\ Number(st.tree.root) <= Number(finalized)
           /\ st.seq <= SentUpTo(st.tree.root)
  <1>1. st \in Status /\ st.tree.root \in Block /\ st.tree.nodes \subseteq Block
    BY StatusTypes
  <1>2. PICK tip \in st.tree.nodes : IsBranch(st.tree, tip)
    BY DEF StatusInv, StatusOK
  <1>3. finalized \in Block /\ tip \in Block
    BY <1>1, <1>2 DEF TypeOK
  <1>4. IsFinal(st.tree.root) /\ Number(st.tree.root) <= Number(finalized)
    BY <1>1, <1>2, <1>3, BranchFacts
  <1> QED
    BY <1>1, <1>4 DEF StatusInv, StatusOK

\* What the receiver takes for final is not above the finalized block.
LEMMA ReachedIsFinal ==
    ASSUME IInv, NEW n \in Nat, Reached(n)
    PROVE  n <= Number(finalized)
  <1>1. TypeOK /\ StatusInv /\ local.cache <= Number(finalized) /\ local.cache \in Nat
        /\ finalized \in Block
    BY DEF IInv, SettledInv, TypeOK
  <1>2. \A st \in Statuses : /\ Number(st.tree.root) \in Nat
                             /\ Number(st.tree.root) <= Number(finalized)
    BY <1>1, RootsAreFinal, GenesisIsBlock
  <1>3. /\ Number(build.tree.root) \in Nat
        /\ Number(build.tree.root) <= Number(finalized)
    <2>1. build.tree.root \in Block /\ build.parent \in Block
      BY <1>1 DEF TypeOK, Tree
    <2>2. IsBranch(build.tree, build.parent)
      BY DEF IInv, BuildInv
    <2> QED
      BY <1>1, <2>1, <2>2, BranchFacts, GenesisIsBlock
  <1>4. Number(finalized) \in Nat
    BY <1>1, GenesisIsBlock
  <1> QED
    BY <1>1, <1>2, <1>3, <1>4 DEF Reached

\* What is known of the finalized chain.
LEMMA FinalizedFacts ==
    ASSUME TypeOK, ChainInv
    PROVE  /\ finalized \in Block /\ chain \in Block
           /\ IsAncestor(finalized, chain)
           /\ Sound(finalized) /\ Ascends(finalized)
           /\ \A b \in Block : IsFinal(b) => Sound(b) /\ Ascends(b)
  <1>1. finalized \in Block /\ chain \in Block
    BY DEF TypeOK
  <1>2. Sound(finalized) /\ Ascends(finalized)
    BY <1>1, SoundAncestor, SentAscends DEF ChainInv, Sound
  <1>3. \A b \in Block : IsFinal(b) => Sound(b) /\ Ascends(b)
    BY <1>1, <1>2, SoundAncestor, SentAscends DEF Sound, IsFinal
  <1> QED
    BY <1>1, <1>2, <1>3 DEF ChainInv

-----------------------------------------------------------------------------
(* What a step leaves as it is.                                            *)

\* The finalized chain goes on.
Grows ==
    /\ finalized' \in Block
    /\ IsAncestor(finalized, finalized')
    /\ Ascends(finalized')

\* What was final and sound is so when the finalized chain has gone on.
LEMMA FinalStaysFinal ==
    ASSUME TypeOK, Grows
    PROVE  /\ \A b \in Block : IsFinal(b) => IsAncestor(b, finalized')
           /\ \A b \in Block : Sound(b) => SoundFor(b, finalized')
           /\ Number(finalized) <= Number(finalized')
           /\ SentUpTo(finalized) <= SentUpTo(finalized')
           /\ SentUpTo(finalized) \in Nat /\ SentUpTo(finalized') \in Nat
  <1>1. finalized \in Block /\ finalized' \in Block /\ IsAncestor(finalized, finalized')
    BY DEF TypeOK, Grows
  <1>2. \A b \in Block : IsFinal(b) => IsAncestor(b, finalized')
    BY <1>1, AncestorOfAncestor DEF IsFinal
  <1>3. \A b \in Block : Sound(b) => SoundFor(b, finalized')
    BY <1>1, SoundStays DEF Sound
  <1>4. Number(finalized) <= Number(finalized')
    BY <1>1, AncestorHas
  <1> QED
    BY <1>1, <1>2, <1>3, <1>4, SentAscends DEF Grows

\* The receiver does not move the node.
LEMMA NodeStays ==
    ASSUME TypeOK, ChainInv, UNCHANGED node
    PROVE  Grows /\ ChainInv'
  <1>1. finalized' = finalized /\ chain' = chain
    BY DEF node
  <1>2. ChainInv'
    BY <1>1 DEF ChainInv, Sound, SoundFor, Ascends
  <1>3. finalized \in Block /\ Ascends(finalized)
    BY FinalizedFacts
  <1>4. IsAncestor(finalized, finalized)
    BY <1>3, AncestorReflexive DEF Block
  <1> QED
    BY <1>1, <1>2, <1>3, <1>4 DEF Grows

\* The watcher and the loop keep their heads.
LEMMA WatchStays ==
    ASSUME TypeOK, Grows, WatchInv, UNCHANGED watch,
           loop'.head = loop.head, loop'.snap = loop.snap,
           loop'.pc \in {"full", "apply"} => loop.pc \in {"full", "apply"}
    PROVE  WatchInv'
  <1>1. watch.head \in Block /\ loop.head \in Block /\ loop.snap \in Block
    BY DEF TypeOK
  <1>2. SoundFor(watch.head, finalized') /\ SoundFor(loop.head, finalized')
        /\ SoundFor(loop.snap, finalized')
    BY <1>1, FinalStaysFinal DEF WatchInv
  <1> QED
    BY <1>2 DEF WatchInv, Sound

\* The watcher and the loop start at a final block.
LEMMA WatchStarts ==
    ASSUME TypeOK, Grows, NEW root \in Block, IsAncestor(root, finalized'),
           SoundFor(finalized', finalized'),
           watch' = WatchFrom(root), loop' = LoopFrom(root)
    PROVE  WatchInv'
  <1>1. SoundFor(root, finalized')
    BY SoundAncestor DEF Grows
  <1>2. watch'.head = Genesis /\ loop'.head = Genesis /\ loop'.pc = "recv"
        /\ loop'.snap = root
    BY DEF WatchFrom, LoopFrom, None
  <1>3. SoundFor(Genesis, finalized')
    BY GenesisIsBlock
  <1> QED
    BY <1>1, <1>2, <1>3 DEF WatchInv, Sound, None

\* No head is taken and no height taken for final.
LEMMA SettledStays ==
    ASSUME TypeOK, Grows, SettledInv,
           \A n \in DOMAIN heads' : n \in DOMAIN heads /\ heads'[n] = heads[n],
           watch'.head \in {watch.head, Genesis},
           loop'.head \in {loop.head, watch.head, Genesis},
           local'.cache \in Nat, local'.cache <= local.cache,
           IsAncestor(local'.hash, finalized'),
           \A n \in Nat : Reached(n)' => Reached(n)
    PROVE  SettledInv'
  <1>1. /\ watch.head \in Block /\ loop.head \in Block
        /\ \A n \in DOMAIN heads : heads[n] \in Block /\ n \in Nat
        /\ local.cache \in Nat /\ finalized \in Block
    BY DEF TypeOK
  <1>2. \A b \in Block : Number(b) \in Nat /\ (IsFinal(b) => IsAncestor(b, finalized'))
    BY GenesisIsBlock, FinalStaysFinal
  <1>3. ASSUME NEW n \in DOMAIN heads'
        PROVE  Number(heads'[n]) = n /\ (Reached(n)' => IsAncestor(heads'[n], finalized'))
    BY <1>1, <1>2 DEF SettledInv
  <1>4. \A b \in {watch.head, loop.head, Genesis} :
           Reached(Number(b))' => IsAncestor(b, finalized')
    <2>1. \A b \in {watch.head, loop.head, Genesis} :
             b \in Block /\ (Reached(Number(b)) => IsFinal(b))
      BY <1>1, GenesisIsBlock DEF SettledInv, IsFinal
    <2> QED
      <3>1. ASSUME NEW b \in {watch.head, loop.head, Genesis}, Reached(Number(b))'
            PROVE  IsAncestor(b, finalized')
        <4>1. Number(b) \in Nat
          BY <1>2, <2>1
        <4>2. Reached(Number(b))
          BY <3>1, <4>1
        <4> QED
          BY <1>2, <2>1, <4>2
      <3> QED
        BY <3>1
  <1>5. local'.cache <= Number(finalized')
    BY <1>1, <1>2, FinalStaysFinal, GenesisIsBlock DEF SettledInv, Grows
  <1>6. /\ Reached(Number(watch.head))' => IsFinal(watch.head)'
        /\ Reached(Number(loop.head))' => IsFinal(loop.head)'
    BY <1>4 DEF IsFinal
  <1> QED
    BY <1>3, <1>5, <1>6 DEF SettledInv, IsFinal

\* The loop takes no block and the cache of heads no head.
LEMMA LoopStays ==
    ASSUME TypeOK, Grows, LoopInv,
           loop'.calc = loop.calc, loop'.snap = loop.snap,
           \A n \in DOMAIN heads' : n \in DOMAIN heads /\ heads'[n] = heads[n],
           local'.cache = local.cache,
           Number(peer'.tree.root) \in Nat,
           Number(peer.tree.root) <= Number(peer'.tree.root)
    PROVE  LoopInv'
  <1>1. loop.calc.checkpoint \in Block /\ peer.tree.root \in Block
    BY DEF TypeOK, CalculatorType, Status, Tree
  <1>2. IsAncestor(loop.calc.checkpoint, finalized')
    BY <1>1, FinalStaysFinal DEF LoopInv
  <1>3. Number(loop.calc.checkpoint) \in Nat /\ Number(peer.tree.root) \in Nat
    BY <1>1, GenesisIsBlock
  <1> QED
    BY <1>2, <1>3 DEF LoopInv, IsFinal

\* The loop starts at a final block, the root of the peer's status.
LEMMA LoopStarts ==
    ASSUME NEW root \in Block, IsAncestor(root, finalized'),
           loop' = LoopFrom(root), peer'.tree.root = root, DOMAIN heads' \subseteq Nat
    PROVE  LoopInv' /\ WalkInv'
  <1>1. loop'.calc = Calculator(root, << >>) /\ loop'.snap = root /\ loop'.pc = "recv"
    BY DEF LoopFrom
  <1>2. loop'.calc.checkpoint = root /\ loop'.calc.feeds = << >>
    BY <1>1 DEF Calculator
  <1>3. Number(root) \in Nat /\ AncestorAt(root, Number(root)) = root
    BY GenesisIsBlock, AncestorAtSelf DEF Block, Number
  <1>4. Len(<< >>) = 0 /\ Number(root) - Number(root) = 0 /\ 1 .. 0 = {}
    BY <1>3
  <1>5. Follows(<< >>, root, Number(root), Number(root))
    BY <1>4 DEF Follows
  <1>6. StandsAt(loop'.calc, root, Number(root))
    BY <1>2, <1>3, <1>5 DEF StandsAt, Number
  <1>7. \A n \in DOMAIN heads' : ~(Number(root) < n /\ n <= Number(root))
    BY <1>3
  <1>8. Number(root) <= Number(peer'.tree.root)
    BY <1>3
  <1>9. WalkInv'
    BY <1>1 DEF WalkInv
  <1>10. LoopInv'
    BY <1>1, <1>2, <1>6, <1>7, <1>8 DEF LoopInv, IsFinal
  <1> QED
    BY <1>9, <1>10

\* A walk stays where it is.
LEMMA WalkStays ==
    ASSUME TypeOK, Grows, WalkInv, local'.hash = local.hash,
           loop'.pc = "query" =>
              /\ loop.pc = "query"
              /\ loop'.cursor = loop.cursor
              /\ loop'.target = loop.target
    PROVE  WalkInv'
  <1>1. loop.target \in Block
    BY DEF TypeOK
  <1>2. IsFinal(loop.target) => IsAncestor(loop.target, finalized')
    BY <1>1, FinalStaysFinal
  <1> QED
    BY <1>2 DEF WalkInv, IsFinal

\* A tree that is a branch stays one.
LEMMA BranchStays ==
    ASSUME TypeOK, Grows, NEW tree, NEW tip \in Block, IsBranch(tree, tip)
    PROVE  /\ IsAncestor(tip, finalized')
           /\ Number(tree.root) <= Number(tip)
           /\ tree = BranchTree(Number(tree.root), tip)
  <1>1. IsFinal(tip) => IsAncestor(tip, finalized')
    BY FinalStaysFinal
  <1> QED
    BY <1>1 DEF IsBranch

\* There is no new status.
LEMMA StatusStays ==
    ASSUME TypeOK, Grows, StatusInv,
           \A st \in Statuses' : st \in Statuses
    PROVE  StatusInv'
  <1> SUFFICES ASSUME NEW st \in Statuses'
               PROVE  StatusOK(st)'
    BY DEF StatusInv
  <1>1. st \in Statuses /\ StatusOK(st)
    BY DEF StatusInv
  <1>2. PICK tip \in st.tree.nodes : IsBranch(st.tree, tip)
    BY <1>1 DEF StatusOK
  <1>3. tip \in Block
    BY <1>1, <1>2, StatusTypes
  <1>4. IsBranch(st.tree, tip)'
    BY <1>2, <1>3, BranchStays DEF IsBranch, IsFinal
  <1> QED
    BY <1>1, <1>2, <1>4 DEF StatusOK

\* The link does not build, and what it builds on stays.
LEMMA BuildStays ==
    ASSUME TypeOK, Grows, BuildInv, UNCHANGED build,
           build.on => View'.height = View.height,
           build.on /\ Len(relayed) < MaxInFlight => Len(relayed') < MaxInFlight
    PROVE  BuildInv'
  <1>1. build.parent \in Block
    BY DEF TypeOK
  <1>2. IsBranch(build.tree, build.parent)'
    BY <1>1, BranchStays DEF BuildInv, IsBranch, IsFinal
  <1> QED
    BY <1>2 DEF BuildInv

\* Without a block update the tree is the genesis block alone.
LEMMA NoBuildIsBranch ==
    /\ NoBuild.tree = BranchTree(0, Genesis)
    /\ NoBuild.tree.root = Genesis /\ NoBuild.parent = Genesis /\ ~NoBuild.on
    /\ Number(NoBuild.tree.root) = 0
  <1>1. Genesis \in Block /\ Number(Genesis) = 0 /\ Len(Genesis) = 0
    BY GenesisIsBlock DEF Number
  <1>2. AncestorAt(Genesis, 0) = Genesis
    BY <1>1, AncestorAtSelf DEF Block
  <1>3. 0 .. 0 = {0}
    OBVIOUS
  <1>4. BranchTree(0, Genesis) = [root |-> Genesis, nodes |-> {AncestorAt(Genesis, n) : n \in {0}}]
    BY <1>1, <1>2, <1>3, Zenon DEF BranchTree
  <1>5. BranchTree(0, Genesis) = NewBlockTree(Genesis)
    BY <1>2, <1>4 DEF NewBlockTree
  <1>6. NewBlockTree(Genesis).root = Genesis
    BY DEF NewBlockTree
  <1>7. NoBuild.tree = NewBlockTree(Genesis) /\ NoBuild.parent = Genesis /\ ~NoBuild.on
    BY DEF NoBuild
  <1> QED
    BY <1>1, <1>5, <1>6, <1>7

\* The link gives up a block update.
LEMMA BuildStarts ==
    ASSUME finalized' \in Block, build' = NoBuild
    PROVE  BuildInv'
  <1>1. IsAncestor(Genesis, finalized')
    BY GenesisIsBlock
  <1>2. /\ build'.tree = BranchTree(0, Genesis) /\ build'.parent = Genesis
        /\ Number(build'.tree.root) = 0 /\ ~build'.on
    BY NoBuildIsBranch
  <1>3. IsBranch(build.tree, build.parent)'
    BY <1>1, <1>2, GenesisIsBlock DEF IsBranch, IsFinal
  <1> QED
    BY <1>2, <1>3 DEF BuildInv

\* The messages kept for the contract stay, but for those it has received.
LEMMA MsgsStay ==
    ASSUME TypeOK, Grows, MsgsInv,
           \A s \in DOMAIN msgs' : s \in DOMAIN msgs /\ msgs'[s] = msgs[s],
           \A s \in DOMAIN msgs : s \in DOMAIN msgs' \/ s <= peer'.seq,
           peer'.seq \in Nat, peer.seq <= peer'.seq,
           local'.hash = local.hash,
           loop'.pc = "query" =>
              /\ loop.pc = "query"
              /\ loop'.cursor = loop.cursor
              /\ loop'.target = loop.target
    PROVE  MsgsInv'
  <1>1. /\ \A s \in DOMAIN msgs : msgs[s] \in Block /\ s \in Nat
        /\ peer.seq \in Nat
    BY DEF TypeOK, Status
  <1>2. MessagesAreFinal'
    <2>1. ASSUME NEW s \in DOMAIN msgs'
          PROVE  IsAncestor(msgs'[s], finalized') /\ s \in MessagesIn(msgs'[s])
      <3>1. IsFinal(msgs[s]) /\ s \in MessagesIn(msgs[s]) /\ msgs[s] \in Block
        BY <1>1 DEF MsgsInv, MessagesAreFinal, IsFinal
      <3> QED
        BY <3>1, FinalStaysFinal
    <2> QED
      BY <2>1 DEF MessagesAreFinal
  <1>3. SentUpTo(finalized') <= CacheSize => SentUpTo(finalized) <= CacheSize
    BY FinalStaysFinal, ConstantsAssumption
  <1>4. \A s \in Nat : s > peer'.seq /\ s \in DOMAIN msgs => s \in DOMAIN msgs'
    BY <1>1
  <1>5. ASSUME SentUpTo(finalized') <= CacheSize
        PROVE  peer'.seq + 1 .. SentUpTo(local'.hash) \subseteq DOMAIN msgs'
    <2>1. peer.seq + 1 .. SentUpTo(local.hash) \subseteq DOMAIN msgs
      BY <1>3, <1>5 DEF MsgsInv, MessagesAreKept
    <2>2. ASSUME NEW s \in peer'.seq + 1 .. SentUpTo(local.hash)
          PROVE  s \in DOMAIN msgs'
      <3>1. s \in Nat /\ s > peer'.seq /\ s \in peer.seq + 1 .. SentUpTo(local.hash)
        BY <1>1
      <3> QED
        BY <1>4, <2>1, <3>1
    <2> QED
      BY <2>2
  <1>6. ASSUME SentUpTo(finalized') <= CacheSize, loop'.pc = "query",
               NEW s \in SentUpTo(loop'.cursor) + 1 .. SentUpTo(loop'.target),
               s > peer'.seq
        PROVE  s \in DOMAIN msgs'
    <2>1. s \in Int /\ s > peer.seq /\ s \in Nat
      BY <1>1, <1>6
    <2>2. s \in DOMAIN msgs
      BY <1>3, <1>6, <2>1 DEF MsgsInv
    <2> QED
      BY <1>4, <1>6, <2>1, <2>2
  <1>7. MessagesAreKept'
    BY <1>5 DEF MessagesAreKept
  <1> QED
    BY <1>2, <1>6, <1>7 DEF MsgsInv

\* The link and the statuses it has stay.
LEMMA LinkStays ==
    ASSUME IInv, Grows, UNCHANGED <<peer, relayed, build, panicked>>
    PROVE  /\ StatusInv' /\ OrderInv' /\ BuildInv' /\ NeverPanics'
           /\ local'.cache = local.cache => \A n \in Nat : Reached(n)' => Reached(n)
           /\ Number(peer'.tree.root) \in Nat
           /\ Number(peer.tree.root) <= Number(peer'.tree.root)
           /\ peer'.seq \in Nat /\ peer.seq <= peer'.seq
  <1>1. TypeOK /\ StatusInv /\ OrderInv /\ BuildInv /\ NeverPanics
    BY DEF IInv
  <1>2. Statuses' = Statuses /\ View' = View
    BY DEF Statuses, View
  <1>3. StatusInv'
    BY <1>1, <1>2, StatusStays
  <1>4. OrderInv'
    BY <1>1 DEF OrderInv, GoesOn
  <1>5. BuildInv'
    BY <1>1, <1>2, BuildStays
  <1>6. NeverPanics'
    BY <1>1 DEF NeverPanics
  <1>7. local'.cache = local.cache => \A n \in Nat : Reached(n)' => Reached(n)
    BY <1>2 DEF Reached
  <1>8. peer.tree.root \in Block /\ peer.seq \in Nat
    BY <1>1 DEF TypeOK, Status, Tree
  <1>9. Number(peer.tree.root) \in Nat
    BY <1>8, GenesisIsBlock
  <1> QED
    BY <1>3, <1>4, <1>5, <1>6, <1>7, <1>8, <1>9

-----------------------------------------------------------------------------
(* The node.                                                               *)

\* What the node does to its chain: a new block or another branch.
LEMMA NodeMoves ==
    ASSUME TypeOK, ChainInv, Mine \/ Reorg
    PROVE  /\ chain' \in Block /\ ChainInv' /\ Grows
  <1>1. chain \in Block /\ finalized \in Block /\ reorgs \in Nat
    BY ConstantsAssumption DEF TypeOK
  <1>2. IsFinal(finalized) /\ IsAncestor(finalized, chain)
    BY <1>1, AncestorReflexive DEF ChainInv, IsFinal, Block
  <1>3. CASE Mine
    <2> DEFINE N == Len(chain)
    <2>1. PICK vote \in BOOLEAN, seq \in SentUpTo(chain) .. MaxSeq :
            LET att == UpdateAttestation(AttestationOf(chain), N + 1, vote)
            IN  /\ chain' = Append(chain, [att |-> att, seq |-> seq, fork |-> reorgs])
                /\ finalized' = IF att.source > Number(finalized)
                                THEN AncestorAt(chain, att.source) ELSE finalized
      BY <1>3 DEF Mine
    <2> DEFINE att == UpdateAttestation(AttestationOf(chain), N + 1, vote)
               body == [att |-> att, seq |-> seq, fork |-> reorgs]
    <2>2. N \in Nat /\ N = Number(chain)
      BY <1>1, GenesisIsBlock DEF Number
    <2>3. Attested(Bodies) /\ SoundFor(chain, finalized)
      BY BodyFields DEF Attested, ChainInv, Sound
    <2>4. att \in Attestations /\ att.source <= att.target /\ att.target < N + 1
          /\ att.source \in 0 .. N
      BY <1>1, <2>3, SealedAttestation DEF Block
    <2>5. /\ chain' = Append(chain, body)
          /\ finalized' = IF body.att.source > Number(finalized)
                          THEN AncestorAt(chain, body.att.source) ELSE finalized
          /\ body.att = att
      BY <2>1
    <2> HIDE DEF att
    <2>9. SentUpTo(chain) \in Nat
      BY <1>1, <1>2, SentAscends DEF ChainInv
    <2>10. body \in Bodies
      BY <1>1, <2>4, <2>9, ConstantsAssumption DEF Bodies, Attestations
    <2>11. /\ chain' \in Block /\ Len(chain') = N + 1
           /\ \A n \in 1 .. N : chain'[n] = chain[n]
           /\ chain'[N + 1] = body
      <3> HIDE DEF body
      <3> QED
        BY <1>1, <2>5, <2>10, AppendProperties DEF Block
    <2>12. /\ finalized' \in Block /\ IsAncestor(finalized, finalized')
           /\ IsAncestor(finalized', chain') /\ SoundFor(chain', finalized')
      <3>1. body.att.source <= body.att.target /\ body.att.target < Len(chain) + 1
            /\ body.att.source \in 0 .. Len(chain)
        BY <2>4, <2>5
      <3> HIDE DEF body, N
      <3> QED
        BY <1>1, <1>2, <2>3, <2>5, <2>10, <3>1, SealFollows DEF Block
    <2> HIDE DEF N
    <2>15. Ascends(chain')
      <3>1. \A n \in 1 .. N : chain[n].seq \in Nat
        BY <1>1, ElementOfSeq, BodyFields DEF Block, N
      <3>2. \A n \in 1 .. N : chain[n].seq <= seq
        <4> SUFFICES ASSUME NEW n \in 1 .. N PROVE chain[n].seq <= seq
          OBVIOUS
        <4>1. N \in 1 .. N /\ n <= N /\ chain # Genesis
          BY <2>2, GenesisIsBlock
        <4>2. chain[n].seq <= chain[N].seq
          BY <4>1 DEF ChainInv, Ascends, N
        <4>3. SentUpTo(chain) = chain[N].seq
          BY <4>1 DEF SentUpTo, Body, N
        <4> QED
          BY <2>9, <3>1, <4>1, <4>2, <4>3
      <3>3. chain'[N + 1].seq = seq /\ seq \in Int
        BY <2>9, <2>11, ConstantsAssumption
      <3> SUFFICES ASSUME NEW i \in 1 .. N + 1, NEW j \in 1 .. N + 1, i <= j
                   PROVE  chain'[i].seq <= chain'[j].seq
        BY <2>11 DEF Ascends
      <3>4. CASE j = N + 1 /\ i = N + 1
        BY <3>3, <3>4
      <3>5. CASE j = N + 1 /\ i # N + 1
        <4>1. i \in 1 .. N
          BY <2>2, <3>5
        <4> QED
          BY <2>11, <3>2, <3>3, <3>5, <4>1
      <3>6. CASE j # N + 1
        <4>1. i \in 1 .. N /\ j \in 1 .. N
          BY <2>2, <3>6
        <4> QED
          BY <2>11, <4>1 DEF ChainInv, Ascends, N
      <3> QED
        BY <3>4, <3>5, <3>6
    <2>16. Ascends(finalized')
      BY <2>11, <2>12, <2>15, SentAscends
    <2> QED
      BY <2>11, <2>12, <2>15, <2>16 DEF ChainInv, Grows, Sound
  <1>4. CASE Reorg
    <2>1. PICK n \in Number(finalized) .. Len(chain) - 1 :
             chain' = AncestorAt(chain, n) /\ finalized' = finalized
      BY <1>4 DEF Reorg
    <2>2. n \in 0 .. Number(chain) /\ Number(finalized) <= n
      BY <1>1, GenesisIsBlock DEF Number
    <2>3. chain' \in Block /\ Number(chain') = n /\ IsAncestor(chain', chain)
      BY <1>1, <2>1, <2>2, AncestorIsBlock
    <2>4. IsAncestor(finalized', chain')
      BY <1>1, <1>2, <2>1, <2>2, <2>3, AncestorsAgree
    <2>5. SoundFor(chain', finalized') /\ Ascends(chain')
      BY <1>1, <2>1, <2>3, SoundAncestor, SentAscends DEF ChainInv, Sound
    <2>6. Ascends(finalized') /\ IsAncestor(finalized, finalized')
      BY <1>1, <1>2, <2>1, FinalizedFacts DEF IsFinal
    <2> QED
      BY <1>1, <2>1, <2>3, <2>4, <2>5, <2>6 DEF ChainInv, Grows, Sound
  <1> QED
    BY <1>3, <1>4

\* The node keeps the invariant.
LEMMA NodeKeeps ==
    ASSUME IInv, Mine \/ Reorg
    PROVE  IInv'
  <1>1. /\ TypeOK /\ FiniteInv /\ ChainInv /\ WatchInv /\ SettledInv /\ LoopInv
        /\ WalkInv /\ MsgsInv
    BY DEF IInv
  <1>2. chain' \in Block /\ ChainInv' /\ Grows
    BY <1>1, NodeMoves
  <1>3. /\ watch' = watch /\ loop' = loop /\ local' = local /\ peer' = peer
        /\ heads' = heads /\ msgs' = msgs /\ woken' = woken /\ told' = told
        /\ relayed' = relayed /\ build' = build /\ panicked' = panicked
        /\ faults' = faults
    BY DEF Mine, Reorg, ReceiverStays, link
  <1>4. TypeOK'
    <2>1. reorgs' \in 0 .. MaxReorgs
      <3>1. reorgs \in 0 .. MaxReorgs /\ MaxReorgs \in Nat
        BY <1>1, ConstantsAssumption DEF TypeOK
      <3>2. reorgs' = reorgs \/ (reorgs < MaxReorgs /\ reorgs' = reorgs + 1)
        BY DEF Mine, Reorg
      <3> QED
        BY <3>1, <3>2
    <2> QED
      BY <1>1, <1>2, <1>3, <2>1 DEF TypeOK, Grows
  <1>5. /\ StatusInv' /\ OrderInv' /\ BuildInv' /\ NeverPanics'
        /\ \A n \in Nat : Reached(n)' => Reached(n)
        /\ Number(peer'.tree.root) \in Nat
        /\ Number(peer.tree.root) <= Number(peer'.tree.root)
        /\ peer'.seq \in Nat /\ peer.seq <= peer'.seq
    BY <1>2, <1>3, LinkStays
  <1>6. WatchInv'
    BY <1>1, <1>2, <1>3, WatchStays
  <1>7. SettledInv'
    <2>1. local.cache \in Nat /\ local.hash \in Block
      BY <1>1 DEF TypeOK
    <2>2. IsAncestor(local'.hash, finalized')
      BY <1>1, <1>2, <1>3, <2>1, FinalStaysFinal DEF SettledInv
    <2> QED
      BY <1>1, <1>2, <1>3, <1>5, <2>1, <2>2, SettledStays
  <1>8. LoopInv'
    BY <1>1, <1>2, <1>3, <1>5, LoopStays
  <1>9. WalkInv'
    BY <1>1, <1>2, <1>3, WalkStays
  <1>10. MsgsInv'
    BY <1>1, <1>2, <1>3, <1>5, MsgsStay
  <1>11. FiniteInv'
    BY <1>1, <1>3 DEF FiniteInv
  <1> QED
    BY <1>2, <1>4, <1>5, <1>6, <1>7, <1>8, <1>9, <1>10, <1>11 DEF IInv

-----------------------------------------------------------------------------
(* The watcher, and the loop without its caches.                           *)

\* A fetched header is sound, and final if its height is.
LEMMA FetchKeeps ==
    ASSUME IInv, Fetch
    PROVE  IInv'
  <1>1. /\ TypeOK /\ FiniteInv /\ ChainInv /\ WatchInv /\ SettledInv /\ LoopInv
        /\ WalkInv /\ MsgsInv
    BY DEF IInv
  <1>2. ChainInv' /\ Grows
    BY <1>1, NodeStays DEF Fetch
  <1>3. /\ loop' = loop /\ local' = local /\ peer' = peer
        /\ heads' = heads /\ msgs' = msgs /\ relayed' = relayed
        /\ build' = build /\ panicked' = panicked
        /\ chain' = chain /\ finalized' = finalized
    BY DEF Fetch, node, link
  <1> DEFINE want == watch.want
             head == AncestorAt(chain, want)
  <1>12. /\ want \in Nat \ {0} /\ want \in 0 .. Number(chain)
         /\ watch' = [want |-> want + 1, head |-> head]
         /\ watch.head = None
    BY <1>1, GenesisIsBlock DEF Fetch, TypeOK, Number
  <1>13. /\ head \in Block /\ Number(head) = want /\ IsAncestor(head, chain)
         /\ Sound(head)
    <2>1. chain \in Block
      BY <1>1 DEF TypeOK
    <2>2. head \in Block /\ Number(head) = want /\ IsAncestor(head, chain)
      BY <1>12, <2>1, AncestorIsBlock
    <2> QED
      BY <1>1, <2>1, <2>2, SoundAncestor DEF ChainInv, Sound
  <1>4. TypeOK'
    <2>1. watch' \in [want : Nat \ {0}, head : Block]
      BY ONLY <1>12, <1>13
    <2>2. UNCHANGED <<chain, finalized, reorgs, faults, loop, local, peer, heads, msgs,
                      woken, panicked, told, relayed, build>>
      BY DEF Fetch, node, link
    <2> QED
      BY ONLY <1>1, <2>1, <2>2 DEF TypeOK
  <1>5. /\ StatusInv' /\ OrderInv' /\ BuildInv' /\ NeverPanics'
        /\ \A n \in Nat : Reached(n)' => Reached(n)
        /\ Number(peer'.tree.root) \in Nat
        /\ Number(peer.tree.root) <= Number(peer'.tree.root)
        /\ peer'.seq \in Nat /\ peer.seq <= peer'.seq
    BY <1>2, <1>3, LinkStays
  <1>6. WatchInv'
    <2>1. Sound(watch.head)' /\ Sound(loop.head)' /\ Sound(loop.snap)'
      BY <1>1, <1>3, <1>12, <1>13 DEF WatchInv, Sound
    <2>2. loop.pc \in {"full", "apply"} => Number(loop.head) < want /\ loop.head # None
      BY <1>1 DEF WatchInv
    <2>3. Number(loop.head) \in Nat
      BY <1>1, GenesisIsBlock DEF TypeOK
    <2> HIDE DEF head, want
    <2> QED
      BY <1>3, <1>12, <1>13, <2>1, <2>2, <2>3 DEF WatchInv
  <1>7. SettledInv'
    <2>1. Reached(want) => IsFinal(head)
      <3> SUFFICES ASSUME Reached(want) PROVE IsFinal(head)
        OBVIOUS
      <3>1. want <= Number(finalized)
        BY <1>12, ReachedIsFinal
      <3>2. finalized \in Block /\ chain \in Block /\ IsAncestor(finalized, chain)
        BY <1>1, FinalizedFacts
      <3> QED
        BY <1>13, <3>1, <3>2, AncestorsAgree DEF IsFinal
    <2>2. \A n \in Nat : n = Number(head) /\ Reached(n)' => IsFinal(head)
      BY <1>5, <1>13, <2>1
    <2>3. \A n \in Nat : n = Number(loop.head) /\ Reached(n)' => IsFinal(loop.head)
      BY <1>1, <1>5 DEF SettledInv
    <2>4. \A n \in DOMAIN heads : /\ n \in Nat /\ Number(heads[n]) = n
                                  /\ Reached(n)' => IsFinal(heads[n])
      BY <1>1, <1>5 DEF TypeOK, SettledInv
    <2>5. watch'.head = head /\ Number(head) \in Nat /\ Number(loop.head) \in Nat
      BY <1>1, <1>12, <1>13, GenesisIsBlock DEF TypeOK
    <2> HIDE DEF head, want
    <2>6. Reached(Number(watch.head))' => IsFinal(watch.head)'
      <3>1. ASSUME NEW n \in Nat, n = Number(watch'.head), Reached(n)'
            PROVE  IsAncestor(watch'.head, finalized')
        BY <1>3, <2>2, <2>5, <3>1 DEF IsFinal
      <3> QED
        BY <2>5, <3>1 DEF IsFinal
    <2>7. Reached(Number(loop.head))' => IsFinal(loop.head)'
      <3>1. ASSUME NEW n \in Nat, n = Number(loop'.head), Reached(n)'
            PROVE  IsAncestor(loop'.head, finalized')
        BY <1>3, <2>3, <3>1 DEF IsFinal
      <3> QED
        BY <1>3, <2>5, <3>1 DEF IsFinal
    <2> QED
      BY <1>1, <1>3, <2>4, <2>6, <2>7 DEF SettledInv, IsFinal
  <1>8. LoopInv'
    BY <1>1, <1>2, <1>3, <1>5, LoopStays
  <1>9. WalkInv'
    BY <1>1, <1>2, <1>3, WalkStays
  <1>10. MsgsInv'
    BY <1>1, <1>2, <1>3, <1>5, MsgsStay
  <1>11. FiniteInv'
    BY <1>1, <1>3 DEF FiniteInv
  <1> QED
    BY <1>2, <1>4, <1>5, <1>6, <1>7, <1>8, <1>9, <1>10, <1>11 DEF IInv

\* The loop takes the head from the watcher.
LEMMA ReceiveKeeps ==
    ASSUME IInv, Receive
    PROVE  IInv'
  <1>1. /\ TypeOK /\ FiniteInv /\ ChainInv /\ WatchInv /\ SettledInv /\ LoopInv
        /\ WalkInv /\ MsgsInv
    BY DEF IInv
  <1>2. ChainInv' /\ Grows
    BY <1>1, NodeStays DEF Receive
  <1>3. /\ local' = local /\ peer' = peer
        /\ heads' = heads /\ msgs' = msgs /\ relayed' = relayed
        /\ build' = build /\ panicked' = panicked /\ finalized' = finalized
        /\ loop.pc = "recv" /\ watch.head # None
    BY DEF Receive, node, link
  <1>12. /\ watch'.head = Genesis /\ watch'.want = watch.want
         /\ loop'.head = watch.head /\ loop'.pc \in {"full", "apply"}
         /\ loop'.calc = loop.calc /\ loop'.snap = loop.snap
    BY <1>1 DEF Receive, TypeOK, None
  <1>4. TypeOK'
    <2>1. /\ loop.fed \in 0 .. FeedLimit + 1 /\ FeedLimit \in Nat
      BY <1>1, ConstantsAssumption DEF TypeOK
    <2>2. IF loop.fed > FeedLimit THEN loop.fed \in 0 .. FeedLimit + 1
          ELSE loop.fed + 1 \in 0 .. FeedLimit + 1
      BY <2>1
    <2>3. watch' \in [want : Nat \ {0}, head : Block]
      BY <1>1, GenesisIsBlock DEF TypeOK, Receive, None
    <2>4. loop' \in [pc : {"recv", "full", "apply", "query", "notify"},
                     head : Block, snap : Block,
                     calc : CalculatorType, fed : 0 .. FeedLimit + 1,
                     target : Block, cursor : Block, seq : Nat]
      BY <1>1, <2>2 DEF TypeOK, Receive
    <2> QED
      BY <1>1, <2>3, <2>4 DEF TypeOK, Receive, node, link
  <1>5. /\ StatusInv' /\ OrderInv' /\ BuildInv' /\ NeverPanics'
        /\ \A n \in Nat : Reached(n)' => Reached(n)
        /\ Number(peer'.tree.root) \in Nat
        /\ Number(peer.tree.root) <= Number(peer'.tree.root)
        /\ peer'.seq \in Nat /\ peer.seq <= peer'.seq
    BY <1>2, <1>3, LinkStays
  <1>6. WatchInv'
    <2>1. watch.head \in Block /\ watch.want \in Nat
      BY <1>1 DEF TypeOK
    <2>2. Number(watch.head) < watch.want
      BY <1>1, <1>3, <2>1 DEF WatchInv
    <2>3. SoundFor(Genesis, finalized)
      BY GenesisIsBlock
    <2> QED
      BY <1>1, <1>3, <1>12, <2>2, <2>3 DEF WatchInv, Sound, None
  <1>7. SettledInv'
    <2>1. local.cache \in Nat
      BY <1>1 DEF TypeOK
    <2> QED
      BY <1>1, <1>2, <1>3, <1>5, <1>12, <2>1, SettledStays DEF SettledInv, IsFinal
  <1>8. LoopInv'
    BY <1>1, <1>2, <1>3, <1>5, <1>12, LoopStays
  <1>9. WalkInv'
    BY <1>12 DEF WalkInv
  <1>10. MsgsInv'
    BY <1>1, <1>2, <1>3, <1>5, <1>12, MsgsStay
  <1>11. FiniteInv'
    BY <1>1, <1>3 DEF FiniteInv
  <1> QED
    BY <1>2, <1>4, <1>5, <1>6, <1>7, <1>8, <1>9, <1>10, <1>11 DEF IInv

\* The loop wakes up, or the link has taken the status.
LEMMA ResumeKeeps ==
    ASSUME IInv, Resume \/ Notify
    PROVE  IInv'
  <1>1. /\ TypeOK /\ FiniteInv /\ ChainInv /\ WatchInv /\ SettledInv /\ LoopInv
        /\ WalkInv /\ MsgsInv
    BY DEF IInv
  <1>2. ChainInv' /\ Grows
    BY <1>1, NodeStays DEF Resume, Notify
  <1>3. /\ watch' = watch /\ local' = local /\ peer' = peer
        /\ heads' = heads /\ msgs' = msgs /\ relayed' = relayed
        /\ build' = build /\ panicked' = panicked /\ finalized' = finalized
    BY DEF Resume, Notify, node, link
  <1>12. /\ loop'.head = loop.head /\ loop'.calc = loop.calc /\ loop'.snap = loop.snap
         /\ \/ loop.pc = "full" /\ loop'.pc = "apply"
            \/ loop'.pc = "recv"
    BY <1>1 DEF Resume, Notify, TypeOK
  <1>4. TypeOK'
    <2>1. loop' \in [pc : {"recv", "full", "apply", "query", "notify"},
                     head : Block, snap : Block,
                     calc : CalculatorType, fed : 0 .. FeedLimit + 1,
                     target : Block, cursor : Block, seq : Nat]
      <3>1. loop \in [pc : {"recv", "full", "apply", "query", "notify"},
                      head : Block, snap : Block,
                      calc : CalculatorType, fed : 0 .. FeedLimit + 1,
                      target : Block, cursor : Block, seq : Nat]
        BY <1>1 DEF TypeOK
      <3>2. \/ loop' = [loop EXCEPT !.pc = "apply"]
            \/ loop' = [loop EXCEPT !.pc = "recv"]
        BY DEF Resume, Notify
      <3> QED
        BY ONLY <3>1, <3>2
    <2>2. told' \in [number : Nat, seq : Nat]
      <3>1. local.hash \in Block /\ local.seq \in Nat
        BY <1>1 DEF TypeOK
      <3>2. Number(local.hash) \in Nat
        BY <3>1, GenesisIsBlock
      <3>3. told' = told \/ told' = [number |-> Number(local.hash), seq |-> local.seq]
        BY DEF Resume, Notify, link
      <3> QED
        BY <1>1, <3>1, <3>2, <3>3 DEF TypeOK
    <2>3. /\ chain' = chain /\ reorgs' = reorgs /\ woken' = woken /\ faults' = faults
      BY DEF Resume, Notify, node
    <2> QED
      BY <1>1, <1>3, <2>1, <2>2, <2>3 DEF TypeOK
  <1>5. /\ StatusInv' /\ OrderInv' /\ BuildInv' /\ NeverPanics'
        /\ \A n \in Nat : Reached(n)' => Reached(n)
        /\ Number(peer'.tree.root) \in Nat
        /\ Number(peer.tree.root) <= Number(peer'.tree.root)
        /\ peer'.seq \in Nat /\ peer.seq <= peer'.seq
    BY <1>2, <1>3, LinkStays
  <1>6. WatchInv'
    BY <1>1, <1>2, <1>3, <1>12, WatchStays
  <1>7. SettledInv'
    <2>1. local.cache \in Nat
      BY <1>1 DEF TypeOK
    <2> QED
      BY <1>1, <1>2, <1>3, <1>5, <1>12, <2>1, SettledStays DEF SettledInv, IsFinal
  <1>8. LoopInv'
    BY <1>1, <1>2, <1>3, <1>5, <1>12, LoopStays
  <1>9. WalkInv'
    BY <1>12 DEF WalkInv
  <1>10. MsgsInv'
    BY <1>1, <1>2, <1>3, <1>5, <1>12, MsgsStay
  <1>11. FiniteInv'
    BY <1>1, <1>3 DEF FiniteInv
  <1> QED
    BY <1>2, <1>4, <1>5, <1>6, <1>7, <1>8, <1>9, <1>10, <1>11 DEF IInv

\* The loop is entered again from the peer's finalized block.
LEMMA ReenterKeeps ==
    ASSUME IInv, Inconsistent \/ QueryFails
    PROVE  IInv'
  <1>1. /\ TypeOK /\ FiniteInv /\ ChainInv /\ WatchInv /\ SettledInv /\ LoopInv
        /\ WalkInv /\ MsgsInv
    BY DEF IInv
  <1>2. ChainInv' /\ Grows
    BY <1>1, NodeStays DEF Inconsistent, QueryFails
  <1> DEFINE root == peer.tree.root
  <1>3. /\ local' = local /\ peer' = peer
        /\ heads' = heads /\ msgs' = msgs /\ relayed' = relayed
        /\ build' = build /\ panicked' = panicked /\ finalized' = finalized
        /\ watch' = WatchFrom(root) /\ loop' = LoopFrom(root)
    BY DEF Inconsistent, QueryFails, Reenter, node, link
  <1>12. /\ root \in Block /\ IsFinal(root) /\ Number(root) \in Nat
         /\ SoundFor(finalized, finalized) /\ finalized \in Block
    <2>1. peer \in Statuses /\ StatusInv
      BY DEF Statuses, IInv
    <2> QED
      BY <1>1, <2>1, RootsAreFinal, FinalizedFacts, GenesisIsBlock DEF Sound
  <1>4. TypeOK'
    <2>1. watch' \in [want : Nat \ {0}, head : Block]
      BY <1>3, <1>12, GenesisIsBlock DEF WatchFrom, None
    <2>2. loop' \in [pc : {"recv", "full", "apply", "query", "notify"},
                     head : Block, snap : Block,
                     calc : CalculatorType, fed : 0 .. FeedLimit + 1,
                     target : Block, cursor : Block, seq : Nat]
      <3>1. Calculator(root, << >>) \in CalculatorType
        BY <1>12, EmptySeq DEF Calculator, CalculatorType
      <3>2. 0 \in 0 .. FeedLimit + 1 /\ Genesis \in Block
        BY GenesisIsBlock, ConstantsAssumption
      <3> QED
        BY <1>3, <1>12, <3>1, <3>2 DEF LoopFrom, None
    <2>3. faults' \in 0 .. MaxFaults
      <3>1. faults \in 0 .. MaxFaults /\ MaxFaults \in Nat
        BY <1>1, ConstantsAssumption DEF TypeOK
      <3>2. faults' = faults \/ (faults < MaxFaults /\ faults' = faults + 1)
        BY DEF Inconsistent, QueryFails
      <3> QED
        BY <3>1, <3>2
    <2>4. chain' = chain /\ reorgs' = reorgs /\ woken' = woken /\ told' = told
      BY DEF Inconsistent, QueryFails, node, link
    <2> QED
      BY <1>1, <1>3, <2>1, <2>2, <2>3, <2>4 DEF TypeOK
  <1>5. /\ StatusInv' /\ OrderInv' /\ BuildInv' /\ NeverPanics'
        /\ \A n \in Nat : Reached(n)' => Reached(n)
        /\ Number(peer'.tree.root) \in Nat
        /\ Number(peer.tree.root) <= Number(peer'.tree.root)
        /\ peer'.seq \in Nat /\ peer.seq <= peer'.seq
    BY <1>2, <1>3, LinkStays
  <1>6. WatchInv'
    BY <1>1, <1>2, <1>3, <1>12, WatchStarts DEF IsFinal
  <1>7. SettledInv'
    <2>1. local.cache \in Nat
      BY <1>1 DEF TypeOK
    <2>2. watch'.head = Genesis /\ loop'.head = Genesis
      BY <1>3 DEF WatchFrom, LoopFrom, None
    <2> QED
      BY <1>1, <1>2, <1>3, <1>5, <2>1, <2>2, SettledStays DEF SettledInv, IsFinal
  <1>8. LoopInv' /\ WalkInv'
    <2>1. DOMAIN heads' \subseteq Nat
      BY <1>4 DEF TypeOK
    <2> QED
      BY <1>3, <1>12, <2>1, LoopStarts DEF IsFinal
  <1>9. WalkInv'
    BY <1>8
  <1>10. MsgsInv'
    <2>1. loop'.pc = "recv"
      BY <1>3 DEF LoopFrom
    <2> QED
      BY <1>1, <1>2, <1>3, <1>5, <2>1, MsgsStay
  <1>11. FiniteInv'
    BY <1>1, <1>3 DEF FiniteInv
  <1> QED
    BY <1>2, <1>4, <1>5, <1>6, <1>7, <1>8, <1>9, <1>10, <1>11 DEF IInv

\* The walk is over: the local status is at its target.
LEMMA UpdateStatusKeeps ==
    ASSUME IInv, UpdateStatus
    PROVE  IInv'
  <1>1. /\ TypeOK /\ FiniteInv /\ ChainInv /\ WatchInv /\ SettledInv /\ LoopInv
        /\ WalkInv /\ MsgsInv
    BY DEF IInv
  <1>2. ChainInv' /\ Grows
    BY <1>1, NodeStays DEF UpdateStatus
  <1>3. /\ watch' = watch /\ peer' = peer
        /\ heads' = heads /\ msgs' = msgs /\ relayed' = relayed
        /\ build' = build /\ panicked' = panicked /\ finalized' = finalized
        /\ loop.pc = "query" /\ loop.cursor = local.hash
    BY DEF UpdateStatus, Walked, node, link
  <1>12. /\ loop'.head = loop.head /\ loop'.calc = loop.calc /\ loop'.snap = loop.snap
         /\ loop'.pc \in {"recv", "notify"}
         /\ local'.hash = loop.target /\ local'.cache = local.cache
         /\ local.cache \in Nat /\ loop.target \in Block /\ local.hash \in Block
    BY <1>1 DEF UpdateStatus, TypeOK
  <1>4. TypeOK'
    <2>1. local' \in [hash : Block, seq : Nat, cache : Nat]
      BY <1>1 DEF TypeOK, UpdateStatus
    <2>2. 0 \in 0 .. FeedLimit + 1
      BY ConstantsAssumption
    <2>3. loop' \in [pc : {"recv", "full", "apply", "query", "notify"},
                     head : Block, snap : Block,
                     calc : CalculatorType, fed : 0 .. FeedLimit + 1,
                     target : Block, cursor : Block, seq : Nat]
      BY <1>1, <2>2 DEF TypeOK, UpdateStatus
    <2> QED
      BY <1>1, <2>1, <2>3 DEF TypeOK, UpdateStatus, node, link
  <1>5. /\ StatusInv' /\ OrderInv' /\ BuildInv' /\ NeverPanics'
        /\ \A n \in Nat : Reached(n)' => Reached(n)
        /\ Number(peer'.tree.root) \in Nat
        /\ Number(peer.tree.root) <= Number(peer'.tree.root)
        /\ peer'.seq \in Nat /\ peer.seq <= peer'.seq
    BY <1>2, <1>3, <1>12, LinkStays
  <1>6. WatchInv'
    BY <1>1, <1>2, <1>3, <1>12, WatchStays
  <1>7. SettledInv'
    <2>1. IsAncestor(local'.hash, finalized')
      BY <1>1, <1>3, <1>12 DEF WalkInv, IsFinal
    <2> QED
      BY <1>1, <1>2, <1>3, <1>5, <1>12, <2>1, SettledStays
  <1>8. LoopInv'
    BY <1>1, <1>2, <1>3, <1>5, <1>12, LoopStays
  <1>9. WalkInv'
    BY <1>12 DEF WalkInv
  <1>10. MsgsInv'
    <2>1. MessagesAreFinal'
      BY <1>1, <1>3 DEF MsgsInv, MessagesAreFinal
    <2>2. ASSUME SentUpTo(finalized) <= CacheSize
          PROVE  peer.seq + 1 .. SentUpTo(loop.target) \subseteq DOMAIN msgs
      <3> SUFFICES ASSUME NEW s \in peer.seq + 1 .. SentUpTo(loop.target)
                   PROVE  s \in DOMAIN msgs
        OBVIOUS
      <3>1. /\ peer.seq \in Nat /\ finalized \in Block
        BY <1>1 DEF TypeOK, Status
      <3>2. SentUpTo(local.hash) \in Nat /\ SentUpTo(loop.target) \in Nat
        BY <1>1, <1>3, <1>12, <3>1, FinalizedFacts, SentAscends DEF WalkInv, SettledInv, IsFinal
      <3>3. CASE s <= SentUpTo(local.hash)
        <4>1. s \in peer.seq + 1 .. SentUpTo(local.hash)
          BY <3>1, <3>2, <3>3
        <4> QED
          BY <1>1, <2>2, <4>1 DEF MsgsInv, MessagesAreKept
      <3>4. CASE ~(s <= SentUpTo(local.hash))
        <4>1. s \in SentUpTo(loop.cursor) + 1 .. SentUpTo(loop.target) /\ s > peer.seq
          BY <1>3, <3>1, <3>2, <3>4
        <4> QED
          BY <1>1, <1>3, <2>2, <4>1 DEF MsgsInv
      <3> QED
        BY <3>3, <3>4
    <2> QED
      BY <1>3, <1>12, <2>1, <2>2 DEF MsgsInv, MessagesAreKept
  <1>11. FiniteInv'
    BY <1>1, <1>3 DEF FiniteInv
  <1> QED
    BY <1>2, <1>4, <1>5, <1>6, <1>7, <1>8, <1>9, <1>10, <1>11 DEF IInv

-----------------------------------------------------------------------------
(* The loop and its caches.                                                *)

\* A head is cached and fed.  What it finalizes is below it on its branch, and
\* so are the heads in the cache that become final with it.
LEMMA ApplyKeeps ==
    ASSUME IInv, Apply
    PROVE  IInv'
  <1>1. /\ TypeOK /\ FiniteInv /\ ChainInv /\ WatchInv /\ SettledInv /\ LoopInv
        /\ WalkInv /\ MsgsInv
    BY DEF IInv
  <1>2. ChainInv' /\ Grows
    BY <1>1, NodeStays DEF Apply
  <1>3. /\ watch' = watch /\ peer' = peer /\ msgs' = msgs /\ relayed' = relayed
        /\ build' = build /\ panicked' = panicked
        /\ chain' = chain /\ finalized' = finalized
    BY DEF Apply, node, link
  <1> DEFINE b == loop.head
             k == Number(loop.calc.checkpoint)
             fed == Feed(loop.calc, b)
             number == Number(b)
             entries == [n \in {number} |-> b]
  <1>12. /\ finalized \in Block /\ b \in Block /\ loop.snap \in Block
         /\ watch.head \in Block /\ loop.calc \in CalculatorType
         /\ local.cache \in Nat /\ local.hash \in Block
         /\ loop.calc.checkpoint \in Block /\ k \in Nat
    <2>1. loop.calc.checkpoint \in Block
      BY <1>1 DEF TypeOK, CalculatorType
    <2> QED
      BY <1>1, <2>1, GenesisIsBlock DEF TypeOK
  <1>13. /\ loop.pc = "apply" /\ b # Genesis /\ Parent(b) = loop.snap
         /\ SoundFor(b, finalized)
         /\ StandsAt(loop.calc, loop.snap, k) /\ IsFinal(loop.calc.checkpoint)
    BY <1>1 DEF Apply, WatchInv, LoopInv, Sound, None
  <1>14. PICK s \in k .. number - 1 :
            /\ fed.finalities \in Seq(Block)
            /\ fed.calc \in CalculatorType
            /\ fed.calc.checkpoint = AncestorAt(b, s)
            /\ StandsAt(fed.calc, b, s)
            /\ AncestorAt(b, s) \in Block
            /\ Number(AncestorAt(b, s)) = s
            /\ IsFinal(AncestorAt(b, s))
            /\ fed.finalities = << >> <=> s = k
            /\ s # k => Last(fed.finalities) = AncestorAt(b, s)
    BY <1>12, <1>13, FeedOnBranch DEF IsFinal
  <1> DEFINE final == AncestorAt(b, s)
             target == Harvest(b, final)
             next == [loop EXCEPT !.snap = b, !.head = Genesis, !.calc = fed.calc,
                                  !.pc = "recv"]
  <1>22. \/ s = k /\ loop' = next /\ local' = local
         \/ /\ s # k /\ local' = [local EXCEPT !.cache = s]
            /\ \/ loop' = next
               \/ /\ ~(Number(target) <= Number(local.hash))
                  /\ loop' = [next EXCEPT !.pc = "query", !.seq = 0,
                                          !.target = target, !.cursor = target]
    <2>1. \/ fed.finalities = << >> /\ loop' = next /\ local' = local
          \/ /\ fed.finalities # << >>
             /\ local' = [local EXCEPT !.cache = Number(Last(fed.finalities))]
             /\ LET to == Harvest(b, Last(fed.finalities))
                IN  loop' = IF Number(to) <= Number(local.hash) THEN next
                            ELSE [next EXCEPT !.pc = "query", !.seq = 0,
                                              !.target = to, !.cursor = to]
      BY DEF Apply, None
    <2> HIDE DEF fed, next
    <2> QED
      BY <1>14, <2>1
  <1>23. target \in Block /\ IsFinal(target)
    BY <1>1, <1>12, <1>14, SoundAncestor, HarvestIsFinal, FinalizedFacts DEF IsFinal, Sound
  <1> HIDE DEF target
  <1>15. /\ loop'.snap = b /\ loop'.head = Genesis /\ loop'.calc = fed.calc
         /\ loop'.fed = loop.fed /\ loop'.pc \in {"recv", "query"}
         /\ local'.hash = local.hash /\ local'.seq = local.seq
         /\ \/ s = k /\ local'.cache = local.cache /\ loop'.pc = "recv"
            \/ s # k /\ local'.cache = s
         /\ loop'.pc = "query" => /\ loop'.target = target /\ loop'.cursor = target
                                  /\ ~(Number(target) <= Number(local.hash))
    <2> HIDE DEF fed, final
    <2>1. /\ loop \in [pc : {"recv", "full", "apply", "query", "notify"},
                       head : Block, snap : Block,
                       calc : CalculatorType, fed : 0 .. FeedLimit + 1,
                       target : Block, cursor : Block, seq : Nat]
          /\ local \in [hash : Block, seq : Nat, cache : Nat]
      BY <1>1 DEF TypeOK
    <2> QED
      BY ONLY <1>22, <2>1
  <1>16. heads' \in Put(heads, entries)
    BY DEF Apply
  <1>17. loop' \in [pc : {"recv", "full", "apply", "query", "notify"},
                    head : Block, snap : Block,
                    calc : CalculatorType, fed : 0 .. FeedLimit + 1,
                    target : Block, cursor : Block, seq : Nat]
    <2> DEFINE LoopType == [pc : {"recv", "full", "apply", "query", "notify"},
                            head : Block, snap : Block,
                            calc : CalculatorType, fed : 0 .. FeedLimit + 1,
                            target : Block, cursor : Block, seq : Nat]
    <2>1. Genesis \in Block /\ b \in Block /\ fed.calc \in CalculatorType
      BY <1>12, <1>14, GenesisIsBlock
    <2>2. loop \in LoopType
      BY <1>1 DEF TypeOK
    <2> DEFINE calc == fed.calc
               head == b
    <2>3. calc \in CalculatorType /\ head \in Block /\ next =
             [loop EXCEPT !.snap = head, !.head = Genesis, !.calc = calc, !.pc = "recv"]
      BY <2>1
    <2> HIDE DEF calc, head, next
    <2>4. next \in LoopType
      BY ONLY <2>1, <2>2, <2>3
    <2>5. [next EXCEPT !.pc = "query", !.seq = 0, !.target = target, !.cursor = target]
             \in LoopType
      BY ONLY <2>4, <1>23
    <2> QED
      BY <1>22, <2>4, <2>5
  <1>18. target \in Block /\ IsFinal(target)
    BY <1>23
  <1>19. /\ number \in Nat \ {0} /\ s \in Nat /\ s < number /\ k <= s
         /\ Number(loop.snap) = number - 1
         /\ \A n \in 0 .. number - 1 : /\ n \in 0 .. number
                                       /\ AncestorAt(loop.snap, n) = AncestorAt(b, n)
         /\ AncestorAt(b, number) = b
    <2>1. /\ Number(loop.snap) = number - 1 /\ IsAncestor(loop.snap, b)
          /\ number \in Nat \ {0}
      BY <1>12, <1>13, ParentIsBlock
    <2>2. AncestorAt(b, number) = b
      BY <1>12, AncestorAtSelf DEF Block, Number
    <2>3. \A n \in 0 .. number - 1 : /\ n \in 0 .. number
                                     /\ AncestorAt(loop.snap, n) = AncestorAt(b, n)
      BY <1>12, <2>1, AncestorHas
    <2> QED
      BY <1>12, <1>14, <2>1, <2>2, <2>3
  <1> HIDE DEF b, k, fed, number, final, target, entries
  <1>20. /\ IsCache(heads') /\ DOMAIN heads' \subseteq Nat
         /\ Cardinality(DOMAIN heads') <= CacheSize
         /\ \A n \in DOMAIN heads' : /\ n # number => n \in DOMAIN heads
                                     /\ heads'[n] = IF n = number THEN b ELSE heads[n]
    <2>1. IsCache(heads)
      BY <1>1 DEF IsCache, TypeOK, FiniteInv
    <2>2. number \in Nat /\ b \in Block /\ entries = [n \in {number} |-> b]
      BY <1>12, <1>19 DEF entries
    <2>3. /\ IsCache(heads') /\ Cardinality(DOMAIN heads') <= CacheSize
          /\ \A n \in DOMAIN heads' : /\ n # number => n \in DOMAIN heads
                                      /\ heads'[n] = IF n = number THEN b ELSE heads[n]
      BY ONLY <1>16, <2>1, <2>2, PutOne
    <2> QED
      BY <2>3 DEF IsCache
  <1>4. TypeOK'
    <2>1. local' \in [hash : Block, seq : Nat, cache : Nat]
      <3>1. local' = local \/ \E c : local' = [local EXCEPT !.cache = c]
        BY DEF Apply
      <3> QED
        BY <1>1, <1>12, <1>15, <1>19, <3>1 DEF TypeOK
    <2>2. /\ reorgs' = reorgs /\ woken' = woken /\ told' = told /\ faults' = faults
      BY DEF Apply, node, link
    <2> QED
      BY <1>1, <1>3, <1>17, <1>20, <2>1, <2>2 DEF TypeOK, IsCache
  <1>5. /\ StatusInv' /\ OrderInv' /\ BuildInv' /\ NeverPanics'
        /\ Number(peer'.tree.root) \in Nat
        /\ Number(peer.tree.root) <= Number(peer'.tree.root)
        /\ peer'.seq \in Nat /\ peer.seq <= peer'.seq
    BY <1>2, <1>3, LinkStays
  <1>6. WatchInv'
    <2>1. SoundFor(Genesis, finalized)
      BY GenesisIsBlock
    <2> QED
      BY <1>1, <1>3, <1>13, <1>15, <2>1 DEF WatchInv, Sound
  <1>21. \A n \in Nat : Reached(n)' => Reached(n) \/ (s # k /\ n <= s)
    <2>1. Statuses' = Statuses
      BY <1>3 DEF Statuses
    <2> QED
      BY <1>3, <1>15, <2>1 DEF Reached
  <1>7. SettledInv'
    <2>1. ASSUME NEW n \in DOMAIN heads'
          PROVE  Number(heads'[n]) = n /\ (Reached(n)' => IsFinal(heads'[n]))
      <3>1. CASE n = number
        <4>1. heads'[n] = b /\ Number(b) = n /\ ~(n <= s)
          BY <1>19, <1>20, <3>1 DEF number
        <4>2. Reached(n) => IsFinal(b)
          BY <1>1, <4>1 DEF SettledInv, b
        <4> QED
          BY <1>19, <1>21, <3>1, <4>1, <4>2
      <3>2. CASE n # number
        <4>1. n \in DOMAIN heads /\ heads'[n] = heads[n] /\ n \in Nat
          BY <1>20, <3>2
        <4>2. Number(heads[n]) = n /\ (Reached(n) => IsFinal(heads[n]))
          BY <1>1, <4>1 DEF SettledInv
        <4>3. ASSUME s # k, n <= s
              PROVE  IsFinal(heads[n])
          <5>1. CASE n <= k
            <6>1. Reached(n)
              <7>1. k <= local.cache \/ k <= Number(peer.tree.root)
                BY <1>1 DEF LoopInv, k
              <7>2. peer \in Statuses /\ Number(peer.tree.root) \in Nat
                BY <1>3, <1>5 DEF Statuses
              <7> QED
                BY <1>12, <4>1, <5>1, <7>1, <7>2 DEF Reached
            <6> QED
              BY <4>2, <6>1
          <5>2. CASE ~(n <= k)
            <6>1. k < n /\ n <= Number(loop.snap) /\ n \in 0 .. number - 1
              BY <1>12, <1>19, <4>1, <4>3, <5>2
            <6>2. heads[n] = AncestorAt(loop.snap, n)
              BY <1>1, <4>1, <6>1 DEF LoopInv, k
            <6>3. heads[n] = AncestorAt(b, n)
              BY <1>19, <6>1, <6>2
            <6>4. AncestorAt(b, n) \in Block /\ Number(AncestorAt(b, n)) = n
                  /\ IsAncestor(AncestorAt(b, n), b)
              BY <1>12, <1>19, <6>1, AncestorIsBlock DEF number
            <6>5. s \in 0 .. Number(b)
              BY <1>19 DEF number
            <6>6. IsAncestor(AncestorAt(b, s), b)
              BY <1>12, <6>5, AncestorIsBlock
            <6>7. IsAncestor(AncestorAt(b, n), AncestorAt(b, s))
              BY <1>12, <1>14, <4>3, <6>4, <6>6, AncestorsAgree
            <6> QED
              BY <1>12, <1>14, <6>3, <6>4, <6>7, AncestorOfAncestor DEF IsFinal
          <5> QED
            BY <5>1, <5>2
        <4> QED
          BY <1>21, <4>1, <4>2, <4>3
      <3> QED
        BY <3>1, <3>2
    <2>2. ASSUME NEW n \in Nat, n = Number(watch.head), Reached(n)'
          PROVE  IsFinal(watch.head)
      <3>1. CASE watch.head = Genesis
        BY <1>12, <3>1, GenesisIsBlock DEF IsFinal
      <3>2. CASE watch.head # Genesis
        <4>1. number < n
          BY <1>1, <1>13, <2>2, <3>2 DEF WatchInv, None, number, b
        <4>2. Reached(n)
          BY <1>19, <1>21, <2>2, <4>1
        <4> QED
          BY <1>1, <2>2, <4>2 DEF SettledInv
      <3> QED
        BY <3>1, <3>2
    <2>3. Reached(Number(watch.head))' => IsFinal(watch.head)'
      <3>1. ASSUME NEW n \in Nat, n = Number(watch'.head), Reached(n)'
            PROVE  IsAncestor(watch'.head, finalized')
        BY <1>3, <2>2, <3>1 DEF IsFinal
      <3>2. Number(watch'.head) \in Nat
        BY <1>3, <1>12, GenesisIsBlock
      <3> QED
        BY <3>1, <3>2 DEF IsFinal
    <2>4. IsFinal(loop.head)'
      BY <1>3, <1>12, <1>15, GenesisIsBlock DEF IsFinal
    <2>5. local'.cache <= Number(finalized')
      <3>1. s <= Number(finalized)
        BY <1>12, <1>14, AncestorHas DEF IsFinal
      <3> QED
        BY <1>1, <1>3, <1>15, <3>1 DEF SettledInv
    <2>6. IsFinal(local.hash)'
      BY <1>1, <1>3, <1>15 DEF SettledInv, IsFinal
    <2> QED
      BY <1>3, <2>1, <2>3, <2>4, <2>5, <2>6 DEF SettledInv, IsFinal
  <1>8. LoopInv'
    <2>1. /\ loop'.calc = fed.calc /\ loop'.snap = b
          /\ Number(loop'.calc.checkpoint) = s
      BY <1>14, <1>15 DEF fed, b
    <2>2. StandsAt(loop'.calc, loop'.snap, s)
      BY <1>14, <2>1 DEF fed, b
    <2>3. IsFinal(loop'.calc.checkpoint)
      BY <1>14, <2>1 DEF fed, b
    <2>4. s <= local'.cache \/ s <= Number(peer'.tree.root)
      <3>1. k <= local.cache \/ k <= Number(peer.tree.root)
        BY <1>1 DEF LoopInv, k
      <3> QED
        BY <1>3, <1>15, <1>19, <3>1
    <2>5. ASSUME NEW n \in DOMAIN heads', s < n, n <= number
          PROVE  heads'[n] = AncestorAt(b, n)
      <3>1. CASE n = number
        BY <1>19, <1>20, <3>1
      <3>2. CASE n # number
        <4>1. /\ n \in DOMAIN heads /\ heads'[n] = heads[n] /\ n \in 0 .. number - 1
              /\ k < n /\ n <= Number(loop.snap)
          BY <1>12, <1>19, <1>20, <2>5, <3>2
        <4>2. heads[n] = AncestorAt(loop.snap, n)
          BY <1>1, <4>1 DEF LoopInv, k
        <4> QED
          BY <1>19, <4>1, <4>2
      <3> QED
        BY <3>1, <3>2
    <2> QED
      BY <1>3, <2>1, <2>2, <2>3, <2>4, <2>5 DEF LoopInv, IsFinal, number
  <1>9. WalkInv'
    <2> SUFFICES ASSUME loop'.pc = "query"
                 PROVE  /\ IsAncestor(local.hash, target)
                        /\ IsAncestor(target, target)
                        /\ IsFinal(target)
      BY <1>3, <1>15 DEF WalkInv, IsFinal
    <2>1. ~(Number(target) <= Number(local.hash))
      BY <1>15
    <2>2. Number(target) \in Nat /\ Number(local.hash) \in Nat
      BY <1>12, <1>18, GenesisIsBlock
    <2>3. IsFinal(local.hash)
      BY <1>1 DEF SettledInv
    <2>4. IsAncestor(local.hash, target)
      BY <1>12, <1>18, <2>1, <2>2, <2>3, AncestorsAgree DEF IsFinal
    <2> QED
      BY <1>18, <2>4, AncestorReflexive DEF Block
  <1>10. MsgsInv'
    <2>1. SentUpTo(target) \in Nat
      BY <1>1, <1>12, <1>18, FinalizedFacts, SentAscends DEF IsFinal
    <2>2. SentUpTo(target) + 1 .. SentUpTo(target) = {}
      BY <2>1
    <2>3. loop'.pc = "query" => SentUpTo(loop'.cursor) + 1 .. SentUpTo(loop'.target) = {}
      BY <1>15, <2>2
    <2>4. MessagesAreFinal' /\ MessagesAreKept'
      BY <1>1, <1>3, <1>15 DEF MsgsInv, MessagesAreFinal, MessagesAreKept
    <2> QED
      BY <2>3, <2>4 DEF MsgsInv
  <1>11. FiniteInv'
    BY <1>1, <1>3, <1>20 DEF FiniteInv, IsCache
  <1> QED
    BY <1>2, <1>4, <1>5, <1>6, <1>7, <1>8, <1>9, <1>10, <1>11 DEF IInv

\* The messages of a final block are among those that the finalized chain has.
LEMMA MessagesOfFinal ==
    ASSUME TypeOK, ChainInv, NEW b \in Block, IsFinal(b)
    PROVE  /\ SentUpTo(b) \in Nat /\ SentUpTo(Parent(b)) \in Nat
           /\ SentUpTo(b) <= SentUpTo(finalized)
           /\ SentUpTo(finalized) \in Nat
           /\ MessagesIn(b) = SentUpTo(Parent(b)) + 1 .. SentUpTo(b)
           /\ MessagesIn(b) \subseteq 1 .. SentUpTo(finalized)
  <1>1. finalized \in Block /\ Ascends(finalized)
    BY FinalizedFacts
  <1>2. SentUpTo(b) \in Nat /\ SentUpTo(finalized) \in Nat /\ SentUpTo(b) <= SentUpTo(finalized)
    BY <1>1, SentAscends DEF IsFinal
  <1>3. SentUpTo(Parent(b)) \in Nat
    <2>1. CASE b = Genesis
      <3>1. Len(Genesis) = 0
        BY GenesisIsBlock DEF Number
      <3>2. Parent(Genesis) = Genesis
        BY <3>1 DEF Parent, Genesis
      <3> QED
        BY <2>1, <3>2 DEF SentUpTo
    <2>2. CASE b # Genesis
      <3>1. Parent(b) \in Block /\ IsAncestor(Parent(b), b)
        BY <2>2, ParentIsBlock
      <3> QED
        BY <1>1, <3>1, SentAscends DEF IsFinal
    <2> QED
      BY <2>1, <2>2
  <1>4. MessagesIn(b) = SentUpTo(Parent(b)) + 1 .. SentUpTo(b)
    BY DEF MessagesIn
  <1> QED
    BY <1>2, <1>3, <1>4

\* A final block is the canonical one at its number, so that asking the node by
\* number is asking for it.
LEMMA FinalIsCanonical ==
    ASSUME TypeOK, ChainInv, NEW b \in Block, IsFinal(b)
    PROVE  CanonicalAt(b) = b
  <1>1. chain \in Block /\ finalized \in Block /\ IsAncestor(finalized, chain)
    BY DEF TypeOK, ChainInv
  <1>2. IsAncestor(b, chain)
    BY <1>1, AncestorOfAncestor DEF IsFinal
  <1>3. b \in Seq(Bodies) /\ chain \in Seq(Bodies) /\ Len(b) <= Len(chain)
    BY <1>1, <1>2 DEF Block, IsAncestor
  <1>4. b = AncestorAt(chain, Len(b))
    BY <1>2, <1>3, WalkDecidesAncestry
  <1> QED
    BY <1>3, <1>4 DEF CanonicalAt, Number

\* A block of the walk: its messages are cached, none of the others is evicted
\* as long as the cache holds all messages there are.
LEMMA QueryBlockKeeps ==
    ASSUME IInv, QueryBlock
    PROVE  IInv'
  <1>1. /\ TypeOK /\ FiniteInv /\ ChainInv /\ WatchInv /\ SettledInv /\ LoopInv
        /\ WalkInv /\ MsgsInv
    BY DEF IInv
  <1>2. ChainInv' /\ Grows
    BY <1>1, NodeStays DEF QueryBlock
  <1> DEFINE b == loop.cursor
             found == MessagesIn(b)
             entries == [s \in found |-> b]
  <1>3. /\ watch' = watch /\ peer' = peer /\ heads' = heads /\ relayed' = relayed
        /\ build' = build /\ panicked' = panicked /\ finalized' = finalized
        /\ local' = local /\ loop.pc = "query" /\ b # local.hash
        /\ chain' = chain /\ reorgs' = reorgs /\ woken' = woken /\ told' = told
        /\ faults' = faults
    BY DEF QueryBlock, Walked, node, link
  <1>12. /\ finalized \in Block /\ b \in Block /\ loop.target \in Block
         /\ local.hash \in Block /\ peer.seq \in Nat /\ local.cache \in Nat
         /\ loop.seq \in Nat
    BY <1>1 DEF TypeOK, Status
  <1>13. IsAncestor(local.hash, b) /\ IsAncestor(b, loop.target) /\ IsFinal(loop.target)
    BY <1>1, <1>3 DEF WalkInv
  <1>14. IsFinal(b) /\ IsFinal(local.hash)
    BY <1>12, <1>13, AncestorOfAncestor DEF IsFinal
  <1>15. b # Genesis
    <2>1. Number(local.hash) <= Number(b) /\ Number(local.hash) \in Nat
      BY <1>12, <1>13, AncestorHas, GenesisIsBlock
    <2> QED
      BY <1>3, <1>12, <2>1, GenesisIsBlock
  <1>16. /\ Parent(b) \in Block /\ IsAncestor(Parent(b), b)
         /\ Number(Parent(b)) = Number(b) - 1 /\ Number(b) \in Nat
    BY <1>12, <1>15, ParentIsBlock
  <1>17. IsAncestor(local.hash, Parent(b))
    <2>1. Number(local.hash) <= Number(b) /\ Number(local.hash) \in Nat
      BY <1>12, <1>13, AncestorHas, GenesisIsBlock
    <2>2. Number(local.hash) # Number(b)
      BY <1>3, <1>12, <1>14, AncestorsAgree, <2>1 DEF IsFinal
    <2>3. IsFinal(Parent(b))
      BY <1>12, <1>14, <1>16, AncestorOfAncestor DEF IsFinal
    <2> QED
      BY <1>12, <1>14, <1>16, <2>1, <2>2, <2>3, AncestorsAgree DEF IsFinal
  <1>18. /\ SentUpTo(b) \in Nat /\ SentUpTo(Parent(b)) \in Nat
         /\ SentUpTo(finalized) \in Nat
         /\ found = SentUpTo(Parent(b)) + 1 .. SentUpTo(b)
         /\ found \subseteq 1 .. SentUpTo(finalized)
    BY <1>1, <1>12, <1>14, MessagesOfFinal
  <1>26. CanonicalAt(loop.cursor) = loop.cursor
    BY <1>1, <1>12, <1>14, FinalIsCanonical
  <1>19. /\ found = {} => msgs' = msgs
         /\ found # {} => msgs' \in Put(msgs, entries)
    BY <1>26 DEF QueryBlock
  <1>20. /\ loop' = [loop EXCEPT !.seq = IF found = {} THEN @ ELSE Max(found),
                                 !.cursor = Parent(@)]
    BY <1>26 DEF QueryBlock
  <1> HIDE DEF b, found
  <1>21. /\ loop'.pc = "query" /\ loop'.head = loop.head /\ loop'.snap = loop.snap
         /\ loop'.calc = loop.calc /\ loop'.target = loop.target
         /\ loop'.cursor = Parent(b)
    BY <1>1, <1>3, <1>20 DEF TypeOK, b
  <1>22. IsCache(msgs)
    BY <1>1 DEF TypeOK, FiniteInv, IsCache
  <1>23. /\ DOMAIN entries = found /\ \A s \in found : entries[s] = b
         /\ IsCache(entries)
    <2>1. IsFiniteSet(found) /\ found \subseteq Nat
      <3>1. SentUpTo(Parent(b)) + 1 \in Nat /\ SentUpTo(b) \in Nat
        BY ONLY <1>18
      <3>2. IsFiniteSet(SentUpTo(Parent(b)) + 1 .. SentUpTo(b))
        BY ONLY <3>1, FS_Interval
      <3> QED
        BY ONLY <1>18, <3>1, <3>2
    <2> QED
      BY <1>12, <2>1 DEF IsCache
  <1> HIDE DEF entries
  <1>24. /\ IsCache(msgs') /\ Cardinality(DOMAIN msgs') <= CacheSize
         /\ \A s \in DOMAIN msgs' :
               \/ s \in found /\ msgs'[s] = b
               \/ s \in DOMAIN msgs /\ msgs'[s] = msgs[s]
         /\ Cardinality(DOMAIN msgs \cup found) <= CacheSize =>
               DOMAIN msgs' = DOMAIN msgs \cup found
    <2>1. CASE found = {}
      <3>1. Cardinality(DOMAIN msgs) <= CacheSize
        BY <1>1 DEF TypeOK
      <3> QED
        BY <1>19, <1>22, <2>1, <3>1
    <2>2. CASE found # {}
      <3>1. msgs' \in Put(msgs, entries)
        BY <1>19, <2>2
      <3>2. /\ IsCache(msgs') /\ Cardinality(DOMAIN msgs') <= CacheSize
            /\ \A s \in DOMAIN msgs' :
                  /\ s \in DOMAIN entries \/ s \in DOMAIN msgs
                  /\ msgs'[s] = IF s \in DOMAIN entries THEN entries[s] ELSE msgs[s]
            /\ Cardinality(DOMAIN msgs \cup DOMAIN entries) <= CacheSize =>
                  DOMAIN msgs' = DOMAIN msgs \cup DOMAIN entries
        BY ONLY <1>22, <1>23, <3>1, PutInto
      <3> QED
        BY <1>23, <3>2
    <2> QED
      BY <2>1, <2>2
  <1>25. ASSUME SentUpTo(finalized) <= CacheSize
         PROVE  DOMAIN msgs' = DOMAIN msgs \cup found
    <2> DEFINE all == DOMAIN msgs \cup found
               seqs == 1 .. SentUpTo(finalized)
    <2>1. DOMAIN msgs \subseteq seqs
      <3> SUFFICES ASSUME NEW s \in DOMAIN msgs PROVE s \in seqs
        OBVIOUS
      <3>1. msgs[s] \in Block /\ IsFinal(msgs[s]) /\ s \in MessagesIn(msgs[s])
        BY <1>1, <1>22 DEF IsCache, MsgsInv, MessagesAreFinal, IsFinal
      <3> QED
        BY <1>1, <3>1, MessagesOfFinal
    <2>2. all \subseteq seqs
      BY <1>18, <2>1
    <2>3. IsFiniteSet(seqs) /\ Cardinality(seqs) = SentUpTo(finalized)
      <3>1. \A n \in Nat : IsFiniteSet(1 .. n) /\ Cardinality(1 .. n) = n
        BY FS_Interval
      <3> QED
        BY <1>18, <3>1
    <2> HIDE DEF all, seqs
    <2>4. Cardinality(all) \in Nat /\ Cardinality(all) <= Cardinality(seqs)
      BY <2>2, <2>3, FS_Subset, FS_CardinalityType
    <2>5. Cardinality(all) <= CacheSize
      BY <1>18, <1>25, <2>3, <2>4, ConstantsAssumption
    <2> QED
      BY <1>24, <2>5 DEF all
  <1>4. TypeOK'
    <2>1. ~(found = {}) => Max(found) \in Nat
      <3> SUFFICES ASSUME found # {} PROVE Max(found) \in Nat
        OBVIOUS
      <3> DEFINE m == SentUpTo(Parent(b)) + 1
                 n == SentUpTo(b)
      <3>1. m \in Nat /\ n \in Nat /\ found = m .. n
        BY <1>18
      <3> HIDE DEF m, n
      <3>2. Max(m .. n) = n
        BY <3>1, MaxOfInterval
      <3> QED
        BY <3>1, <3>2
    <2> DEFINE seq == IF found = {} THEN loop.seq ELSE Max(found)
               cursor == Parent(loop.cursor)
    <2>2. seq \in Nat /\ cursor \in Block
      BY <1>12, <1>16, <2>1 DEF b
    <2>3. loop' = [loop EXCEPT !.seq = seq, !.cursor = cursor]
      BY <1>20
    <2> HIDE DEF seq, cursor
    <2>4. loop' \in [pc : {"recv", "full", "apply", "query", "notify"},
                     head : Block, snap : Block,
                     calc : CalculatorType, fed : 0 .. FeedLimit + 1,
                     target : Block, cursor : Block, seq : Nat]
      BY <1>1, <2>2, <2>3 DEF TypeOK
    <2> QED
      BY <1>1, <1>3, <1>24, <2>4 DEF TypeOK, IsCache
  <1>5. /\ StatusInv' /\ OrderInv' /\ BuildInv' /\ NeverPanics'
        /\ \A n \in Nat : Reached(n)' => Reached(n)
        /\ Number(peer'.tree.root) \in Nat
        /\ Number(peer.tree.root) <= Number(peer'.tree.root)
        /\ peer'.seq \in Nat /\ peer.seq <= peer'.seq
    BY <1>2, <1>3, LinkStays
  <1>6. WatchInv'
    BY <1>1, <1>2, <1>3, <1>21, WatchStays
  <1>7. SettledInv'
    BY <1>1, <1>2, <1>3, <1>5, <1>12, <1>14, <1>21, SettledStays DEF IsFinal
  <1>8. LoopInv'
    BY <1>1, <1>2, <1>3, <1>5, <1>21, LoopStays
  <1>9. WalkInv'
    <2>1. IsAncestor(Parent(b), loop.target)
      BY <1>12, <1>13, <1>16, AncestorOfAncestor
    <2> QED
      BY <1>3, <1>13, <1>17, <1>21, <2>1 DEF WalkInv, IsFinal
  <1>10. MsgsInv'
    <2>1. MessagesAreFinal'
      BY <1>1, <1>3, <1>14, <1>24 DEF MsgsInv, MessagesAreFinal, IsFinal, found
    <2>2. MessagesAreKept'
      BY <1>1, <1>3, <1>25 DEF MsgsInv, MessagesAreKept
    <2>3. ASSUME SentUpTo(finalized) <= CacheSize,
                 NEW s \in SentUpTo(Parent(b)) + 1 .. SentUpTo(loop.target), s > peer.seq
          PROVE  s \in DOMAIN msgs'
      <3>1. SentUpTo(loop.target) \in Nat
        BY <1>1, <1>12, <1>13, MessagesOfFinal
      <3>2. CASE s <= SentUpTo(b)
        BY <1>18, <1>25, <2>3, <3>1, <3>2
      <3>3. CASE ~(s <= SentUpTo(b))
        <4>1. s \in SentUpTo(b) + 1 .. SentUpTo(loop.target)
          BY <1>18, <3>1, <3>3
        <4>2. s \in DOMAIN msgs
          BY <1>1, <1>3, <2>3, <4>1 DEF MsgsInv, b
        <4> QED
          BY <1>25, <2>3, <4>2
      <3> QED
        BY <3>2, <3>3
    <2> QED
      BY <1>3, <1>21, <2>1, <2>2, <2>3 DEF MsgsInv
  <1>11. FiniteInv'
    BY <1>1, <1>3, <1>24 DEF FiniteInv, IsCache
  <1> QED
    BY <1>2, <1>4, <1>5, <1>6, <1>7, <1>8, <1>9, <1>10, <1>11 DEF IInv
-----------------------------------------------------------------------------
(* The statuses of the contract.                                           *)

\* The first of a sequence and the rest of it.
LEMMA FirstAndRest ==
    ASSUME NEW S, NEW seq \in Seq(S), seq # << >>
    PROVE  /\ Len(seq) \in Nat \ {0}
           /\ Head(seq) = seq[1] /\ seq[1] \in S
           /\ Last(seq) = seq[Len(seq)]
           /\ Tail(seq) \in Seq(S) /\ Len(Tail(seq)) = Len(seq) - 1
           /\ DOMAIN seq = 1 .. Len(seq) /\ DOMAIN Tail(seq) = 1 .. Len(seq) - 1
           /\ \A i \in 1 .. Len(seq) - 1 : Tail(seq)[i] = seq[i + 1]
           /\ Tail(seq) = << >> => Len(seq) = 1
           /\ Tail(seq) # << >> => Last(Tail(seq)) = Last(seq)
  <1>1. Len(seq) \in Nat \ {0}
    BY EmptySeq, LenProperties
  <1>2. Head(seq) = seq[1] /\ seq[1] \in S
    BY <1>1, HeadTailProperties, ElementOfSeq
  <1>3. /\ Tail(seq) \in Seq(S) /\ Len(Tail(seq)) = Len(seq) - 1
        /\ \A i \in 1 .. Len(seq) - 1 : Tail(seq)[i] = seq[i + 1]
    BY <1>1, HeadTailProperties
  <1>4. Tail(seq) = << >> <=> Len(Tail(seq)) = 0
    BY <1>3, EmptySeq
  <1>5. Tail(seq) # << >> => Last(Tail(seq)) = Last(seq)
    <2> SUFFICES ASSUME Tail(seq) # << >> PROVE Last(Tail(seq)) = Last(seq)
      OBVIOUS
    <2>1. Len(seq) - 1 \in 1 .. Len(seq) - 1 /\ (Len(seq) - 1) + 1 = Len(seq)
      BY <1>1, <1>3, <1>4
    <2>2. Tail(seq)[Len(seq) - 1] = seq[Len(seq)]
      BY <1>3, <2>1
    <2> QED
      BY <1>3, <2>2 DEF Last
  <1> QED
    BY <1>1, <1>2, <1>3, <1>4, <1>5, LenProperties DEF Last

\* What the link builds on is the same when the oldest relay message is final,
\* which takes from the caches only what the contract has.
LEMMA FinalizedStatusKeeps ==
    ASSUME IInv, FinalizedStatus
    PROVE  IInv'
  <1>1. /\ TypeOK /\ FiniteInv /\ ChainInv /\ WatchInv /\ SettledInv /\ LoopInv
        /\ WalkInv /\ StatusInv /\ OrderInv /\ BuildInv /\ MsgsInv /\ NeverPanics
    BY DEF IInv
  <1>2. ChainInv' /\ Grows
    BY <1>1, NodeStays DEF FinalizedStatus
  <1>3. /\ watch' = watch /\ loop' = loop /\ local' = local /\ told' = told
        /\ build' = build /\ panicked' = panicked /\ faults' = faults
        /\ chain' = chain /\ finalized' = finalized /\ reorgs' = reorgs
        /\ relayed # << >> /\ relayed' = Tail(relayed) /\ peer' = Head(relayed)
        /\ heads' = Restrict(heads, DOMAIN heads \ (peer.height .. Head(relayed).height))
        /\ msgs' = Restrict(msgs, DOMAIN msgs \ (peer.seq .. Head(relayed).seq))
        /\ woken' \in BOOLEAN
    BY <1>1 DEF FinalizedStatus, Purge, node, TypeOK
  <1>12. /\ Len(relayed) \in Nat \ {0}
         /\ peer' = relayed[1] /\ relayed[1] \in Status
         /\ Last(relayed) = relayed[Len(relayed)]
         /\ relayed' \in Seq(Status) /\ Len(relayed') = Len(relayed) - 1
         /\ DOMAIN relayed = 1 .. Len(relayed) /\ DOMAIN relayed' = 1 .. Len(relayed) - 1
         /\ \A i \in 1 .. Len(relayed) - 1 : relayed'[i] = relayed[i + 1]
         /\ relayed' = << >> => Len(relayed) = 1
         /\ relayed' # << >> => Last(relayed') = Last(relayed)
    <2>1. relayed \in Seq(Status)
      BY <1>1 DEF TypeOK
    <2> QED
      BY ONLY <1>3, <2>1, FirstAndRest
  <1>13. View' = View
    BY <1>3, <1>12 DEF View
  <1>14. Statuses' \subseteq Statuses
    <2>1. relayed[1] \in Range(relayed)
      BY <1>12 DEF Range
    <2>2. \A i \in DOMAIN relayed' : i + 1 \in DOMAIN relayed /\ relayed'[i] = relayed[i + 1]
      BY <1>12
    <2>3. Range(relayed') \subseteq Range(relayed)
      BY <2>2 DEF Range
    <2> QED
      BY <1>12, <2>1, <2>3 DEF Statuses
  <1>15. /\ peer.height \in Nat /\ peer.seq \in Nat /\ peer'.height \in Nat /\ peer'.seq \in Nat
         /\ peer.height <= peer'.height /\ peer.seq <= peer'.seq
    <2>1. GoesOn(peer, relayed[1])
      BY <1>1, <1>12 DEF OrderInv
    <2> QED
      BY <1>1, <1>12, <2>1 DEF GoesOn, TypeOK, Status
  <1>16. /\ IsCache(heads') /\ Cardinality(DOMAIN heads') <= CacheSize
         /\ \A n \in DOMAIN heads' : n \in DOMAIN heads /\ heads'[n] = heads[n]
    <2>1. IsCache(heads) /\ Cardinality(DOMAIN heads) <= CacheSize
      BY <1>1 DEF IsCache, TypeOK, FiniteInv
    <2> DEFINE gone == peer.height .. Head(relayed).height
    <2>2. heads' = Restrict(heads, DOMAIN heads \ gone)
      BY <1>3
    <2> HIDE DEF gone
    <2>3. /\ IsCache(heads') /\ Cardinality(DOMAIN heads') <= CacheSize
          /\ DOMAIN heads' = DOMAIN heads \ gone
          /\ \A n \in DOMAIN heads' : heads'[n] = heads[n]
      BY ONLY <2>1, <2>2, TakenFrom
    <2> QED
      BY ONLY <2>3
  <1>17. /\ IsCache(msgs') /\ Cardinality(DOMAIN msgs') <= CacheSize
         /\ \A s \in DOMAIN msgs' : s \in DOMAIN msgs /\ msgs'[s] = msgs[s]
         /\ \A s \in DOMAIN msgs : s \in DOMAIN msgs' \/ s <= peer'.seq
    <2>1. IsCache(msgs) /\ Cardinality(DOMAIN msgs) <= CacheSize
      BY <1>1 DEF IsCache, TypeOK, FiniteInv
    <2> DEFINE gone == peer.seq .. Head(relayed).seq
    <2>2. msgs' = Restrict(msgs, DOMAIN msgs \ gone)
      BY <1>3
    <2>3. \A s \in gone : s <= peer'.seq
      BY <1>3, <1>15
    <2> HIDE DEF gone
    <2>4. /\ IsCache(msgs') /\ Cardinality(DOMAIN msgs') <= CacheSize
          /\ DOMAIN msgs' = DOMAIN msgs \ gone
          /\ \A s \in DOMAIN msgs' : msgs'[s] = msgs[s]
      BY ONLY <2>1, <2>2, TakenFrom
    <2> QED
      BY ONLY <2>3, <2>4
  <1>4. TypeOK'
    <2>1. Len(relayed') <= MaxInFlight
      <3>1. Len(relayed) <= MaxInFlight /\ MaxInFlight \in Nat
        BY <1>1, ConstantsAssumption DEF TypeOK
      <3> QED
        BY <1>12, <3>1
    <2> QED
      BY <1>1, <1>3, <1>12, <1>16, <1>17, <2>1 DEF TypeOK, IsCache
  <1>5. StatusInv' /\ BuildInv' /\ NeverPanics'
    <2>1. StatusInv'
      BY <1>1, <1>2, <1>14, StatusStays
    <2>2. Len(relayed) < MaxInFlight => Len(relayed') < MaxInFlight
      BY <1>12, ConstantsAssumption
    <2>3. BuildInv'
      BY <1>1, <1>2, <1>3, <1>13, <2>2, BuildStays
    <2> QED
      BY <1>1, <1>3, <2>1, <2>3 DEF NeverPanics
  <1>18. OrderInv'
    <2> SUFFICES ASSUME NEW i \in 1 .. Len(relayed')
                 PROVE  /\ GoesOn(peer', relayed'[i])
                        /\ \A j \in i .. Len(relayed') : GoesOn(relayed'[i], relayed'[j])
      BY DEF OrderInv
    <2>1. /\ i + 1 \in 1 .. Len(relayed) /\ i + 1 \in 2 .. Len(relayed)
          /\ relayed'[i] = relayed[i + 1] /\ 1 \in 1 .. Len(relayed)
      BY <1>12
    <2>2. GoesOn(peer', relayed'[i])
      BY <1>1, <1>12, <2>1 DEF OrderInv
    <2>3. ASSUME NEW j \in i .. Len(relayed')
          PROVE  GoesOn(relayed'[i], relayed'[j])
      <3>1. j + 1 \in i + 1 .. Len(relayed) /\ relayed'[j] = relayed[j + 1]
        BY <1>12
      <3> QED
        BY <1>1, <2>1, <3>1 DEF OrderInv
    <2> QED
      BY <2>2, <2>3
  <1>19. \A n \in Nat : Reached(n)' => Reached(n)
    BY <1>3, <1>14 DEF Reached
  <1>20. Number(peer'.tree.root) \in Nat /\ Number(peer.tree.root) <= Number(peer'.tree.root)
    <2>1. peer \in Statuses /\ peer' \in Statuses
      BY <1>14 DEF Statuses
    <2>2. peer.height = Number(peer.tree.root) /\ peer'.height = Number(peer'.tree.root)
      BY <1>1, <2>1 DEF StatusInv, StatusOK
    <2> QED
      BY <1>15, <2>2
  <1>6. WatchInv'
    BY <1>1, <1>2, <1>3, WatchStays
  <1>7. SettledInv'
    <2>1. local'.cache \in Nat /\ IsAncestor(local'.hash, finalized')
      BY <1>1, <1>3 DEF TypeOK, SettledInv, IsFinal
    <2>2. local'.cache <= local.cache
      BY <1>3, <2>1
    <2>3. watch'.head = watch.head /\ loop'.head = loop.head
      BY <1>3
    <2>4. \A n \in DOMAIN heads' : n \in DOMAIN heads /\ heads'[n] = heads[n]
      BY <1>16
    <2> QED
      BY ONLY <1>1, <1>2, <1>19, <2>1, <2>2, <2>3, <2>4, SettledStays
  <1>8. LoopInv'
    BY <1>1, <1>2, <1>3, <1>16, <1>20, LoopStays
  <1>9. WalkInv'
    BY <1>1, <1>2, <1>3, WalkStays
  <1>10. MsgsInv'
    BY <1>1, <1>2, <1>3, <1>15, <1>17, MsgsStay
  <1>11. FiniteInv'
    BY <1>16, <1>17 DEF FiniteInv, IsCache
  <1> QED
    BY <1>2, <1>4, <1>5, <1>6, <1>7, <1>8, <1>9, <1>10, <1>11, <1>18 DEF IInv
-----------------------------------------------------------------------------
(* The link.                                                               *)

\* The link leaves the loop and its caches alone, and takes no height for final
\* that the receiver has not taken.
LEMMA LinkKeeps ==
    ASSUME IInv,
           UNCHANGED <<node, watch, loop, local, peer, heads, msgs>>,
           TypeOK', StatusInv', OrderInv', BuildInv', NeverPanics',
           \A n \in Nat : Reached(n)' => Reached(n)
    PROVE  IInv'
  <1>1. /\ TypeOK /\ FiniteInv /\ ChainInv /\ WatchInv /\ SettledInv /\ LoopInv
        /\ WalkInv /\ MsgsInv
    BY DEF IInv
  <1>2. ChainInv' /\ Grows
    BY <1>1, NodeStays
  <1>3. /\ watch' = watch /\ loop' = loop /\ local' = local /\ peer' = peer
        /\ heads' = heads /\ msgs' = msgs /\ finalized' = finalized
    BY DEF node
  <1>4. /\ peer.tree.root \in Block /\ peer.seq \in Nat /\ local.cache \in Nat
        /\ Number(peer.tree.root) \in Nat
    BY <1>1, GenesisIsBlock DEF TypeOK, Status, Tree
  <1>6. WatchInv'
    BY <1>1, <1>2, <1>3, WatchStays
  <1>7. SettledInv'
    <2>1. local'.cache \in Nat /\ IsAncestor(local'.hash, finalized')
      BY <1>1, <1>3 DEF TypeOK, SettledInv, IsFinal
    <2>2. local'.cache <= local.cache
      BY <1>3, <2>1
    <2>3. watch'.head = watch.head /\ loop'.head = loop.head
      BY <1>3
    <2>4. \A n \in DOMAIN heads' : n \in DOMAIN heads /\ heads'[n] = heads[n]
      BY <1>3
    <2>5. \A n \in Nat : Reached(n)' => Reached(n)
      OBVIOUS
    <2> QED
      BY ONLY <1>1, <1>2, <2>1, <2>2, <2>3, <2>4, <2>5, SettledStays
  <1>8. LoopInv'
    BY <1>1, <1>2, <1>3, <1>4, LoopStays
  <1>9. WalkInv'
    BY <1>1, <1>2, <1>3, WalkStays
  <1>10. MsgsInv'
    BY <1>1, <1>2, <1>3, <1>4, MsgsStay
  <1>11. FiniteInv'
    BY <1>1, <1>3 DEF FiniteInv
  <1> QED
    BY <1>2, <1>6, <1>7, <1>8, <1>9, <1>10, <1>11 DEF IInv

\* A branch is a tree.
LEMMA BranchIsTree ==
    ASSUME NEW b \in Block, NEW k \in 0 .. Number(b)
    PROVE  /\ BranchTree(k, b) \in Tree
           /\ BranchTree(k, b).root = AncestorAt(b, k)
           /\ Number(BranchTree(k, b).root) = k
           /\ b \in BranchTree(k, b).nodes
           /\ \A a \in BranchTree(k, b).nodes : a \in Block /\ IsAncestor(a, b)
  <1>1. Number(b) \in Nat /\ k \in 0 .. Number(b)
    BY GenesisIsBlock
  <1>2. \A n \in k .. Number(b) :
           /\ AncestorAt(b, n) \in Block /\ IsAncestor(AncestorAt(b, n), b)
           /\ Number(AncestorAt(b, n)) = n
    <2>1. \A n \in k .. Number(b) : n \in 0 .. Number(b)
      BY <1>1
    <2> QED
      BY <2>1, AncestorIsBlock
  <1>3. k \in k .. Number(b) /\ Number(b) \in k .. Number(b)
    BY <1>1
  <1>4. AncestorAt(b, Number(b)) = b
    BY AncestorAtSelf DEF Block, Number
  <1>5. /\ BranchTree(k, b).root = AncestorAt(b, k)
        /\ BranchTree(k, b).nodes = {AncestorAt(b, n) : n \in k .. Number(b)}
    BY DEF BranchTree, Number
  <1>6. /\ {AncestorAt(b, n) : n \in k .. Number(b)} \subseteq Block
        /\ b \in {AncestorAt(b, n) : n \in k .. Number(b)}
        /\ \A a \in {AncestorAt(b, n) : n \in k .. Number(b)} : a \in Block /\ IsAncestor(a, b)
    BY <1>2, <1>3, <1>4
  <1>7. BranchTree(k, b) \in Tree
    BY <1>2, <1>3, <1>6 DEF BranchTree, Tree, Number
  <1> QED
    BY <1>2, <1>3, <1>5, <1>6, <1>7

\* The view of the link: a branch that ends in a final block.
LEMMA ViewFacts ==
    ASSUME TypeOK, StatusInv, NEW k, k = Number(View.tree.root)
    PROVE  /\ View \in Status /\ View \in Statuses
           /\ View.height = k /\ View.seq <= SentUpTo(View.tree.root)
           /\ View.tree.root \in Block /\ IsFinal(View.tree.root)
           /\ k \in Nat /\ View.height \in Nat /\ View.seq \in Nat
           /\ \E tip \in Block : /\ IsFinal(tip) /\ k \in 0 .. Number(tip)
                                 /\ View.tree = BranchTree(k, tip)
  <1>1. View \in Statuses /\ finalized \in Block
    BY StatusTypes DEF TypeOK
  <1>2. /\ View \in Status /\ View.height = k /\ View.tree.root \in Block
        /\ IsFinal(View.tree.root) /\ View.seq <= SentUpTo(View.tree.root)
    BY <1>1, RootsAreFinal
  <1>3. k \in Nat /\ View.height \in Nat /\ View.seq \in Nat
    BY <1>2, GenesisIsBlock DEF Status
  <1>4. PICK tip \in View.tree.nodes : IsBranch(View.tree, tip)
    BY <1>1 DEF StatusInv, StatusOK
  <1>5. tip \in Block
    BY <1>1, <1>4, StatusTypes
  <1>6. IsFinal(tip) /\ k \in 0 .. Number(tip) /\ View.tree = BranchTree(k, tip)
    BY <1>1, <1>2, <1>4, <1>5, BranchFacts
  <1> QED
    BY <1>1, <1>2, <1>3, <1>5, <1>6

\* A status that goes on from the view is added to those under way.
LEMMA StatusAdded ==
    ASSUME TypeOK, OrderInv, NEW st \in Status, GoesOn(View, st),
           peer' = peer, relayed' = Append(relayed, st), Len(relayed) < MaxInFlight
    PROVE  /\ relayed' \in Seq(Status) /\ Len(relayed') <= MaxInFlight
           /\ Statuses' = Statuses \cup {st}
           /\ OrderInv'
  <1>1. relayed \in Seq(Status) /\ peer \in Status /\ MaxInFlight \in Nat
    BY ConstantsAssumption DEF TypeOK
  <1> DEFINE N == Len(relayed)
  <1>2. /\ N \in Nat /\ relayed' \in Seq(Status) /\ Len(relayed') = N + 1
        /\ DOMAIN relayed = 1 .. N /\ DOMAIN relayed' = 1 .. N + 1
        /\ \A i \in 1 .. N : relayed'[i] = relayed[i]
        /\ relayed'[N + 1] = st
    BY <1>1, AppendProperties, LenProperties
  <1>3. relayed = << >> => N = 0
    BY <1>1, EmptySeq
  <1>4. relayed # << >> => N \in 1 .. N /\ View = relayed[N]
    BY <1>1, <1>2, EmptySeq DEF View, Last
  <1> HIDE DEF N
  <1>5. N + 1 <= MaxInFlight
    BY <1>1, <1>2 DEF N
  <1>6. Statuses' = Statuses \cup {st}
    <2>1. Range(relayed') = Range(relayed) \cup {st}
      <3>1. 1 .. N + 1 = (1 .. N) \cup {N + 1}
        BY <1>2
      <3> QED
        BY <1>2, <3>1 DEF Range
    <2> QED
      BY <2>1 DEF Statuses
  <1>7. /\ \A i \in 1 .. N : relayed[i] \in Status /\ GoesOn(relayed[i], st)
        /\ GoesOn(peer, st)
    <2>1. CASE relayed = << >>
      BY <1>2, <1>3, <2>1 DEF View
    <2>2. CASE relayed # << >>
      <3>1. \A i \in 1 .. N : relayed[i] \in Status
        BY <1>1, <1>2, ElementOfSeq DEF N
      <3>2. \A i \in 1 .. N : GoesOn(relayed[i], relayed[N]) /\ GoesOn(peer, relayed[i])
        BY <1>2 DEF OrderInv, N
      <3>3. /\ View \in Status /\ GoesOn(peer, View)
            /\ \A i \in 1 .. N : GoesOn(relayed[i], View)
        BY <1>4, <2>2, <3>1, <3>2
      <3> QED
        BY <1>1, <3>1, <3>3 DEF GoesOn, Status
    <2> QED
      BY <2>1, <2>2
  <1>8. OrderInv'
    <2> SUFFICES ASSUME NEW i \in 1 .. N + 1
                 PROVE  /\ GoesOn(peer', relayed'[i])
                        /\ \A j \in i .. N + 1 : GoesOn(relayed'[i], relayed'[j])
      BY <1>2 DEF OrderInv
    <2>1. GoesOn(st, st)
      BY DEF GoesOn, Status
    <2>2. CASE i = N + 1
      <3>1. \A j \in i .. N + 1 : j = N + 1
        BY <1>2, <2>2
      <3> QED
        BY <1>2, <1>7, <2>1, <2>2, <3>1
    <2>3. CASE i # N + 1
      <3>1. i \in 1 .. N
        BY <1>2, <2>3
      <3>2. ASSUME NEW j \in i .. N + 1
            PROVE  GoesOn(relayed'[i], relayed'[j])
        <4>1. CASE j = N + 1
          BY <1>2, <1>7, <3>1, <4>1
        <4>2. CASE j # N + 1
          <5>1. j \in i .. N /\ j \in 1 .. N
            BY <1>2, <3>1, <4>2
          <5> QED
            BY <1>2, <3>1, <5>1 DEF OrderInv, N
        <4> QED
          BY <4>1, <4>2
      <3>3. GoesOn(peer', relayed'[i])
        BY <1>2, <3>1 DEF OrderInv, N
      <3> QED
        BY <3>2, <3>3
    <2> QED
      BY <2>2, <2>3
  <1> QED
    BY <1>2, <1>5, <1>6, <1>8

\* The update begins at the end of the only branch of the tree.
LEMMA BuildBeginKeeps ==
    ASSUME IInv, BuildBegin
    PROVE  IInv'
  <1>1. TypeOK /\ StatusInv /\ OrderInv /\ BuildInv /\ ChainInv /\ NeverPanics
    BY DEF IInv
  <1>2. /\ UNCHANGED <<node, watch, loop, local, peer, heads, msgs>>
        /\ relayed' = relayed /\ panicked' = panicked /\ woken' = woken
        /\ told' = told /\ faults' = faults
    BY DEF BuildBegin, Building
  <1> DEFINE k == Number(View.tree.root)
  <1>3. Grows /\ finalized' = finalized
    BY <1>1, <1>2, NodeStays DEF node
  <1>4. PICK tip \in Block : /\ View \in Statuses /\ View.height = k
                             /\ k \in Nat /\ IsFinal(tip) /\ k \in 0 .. Number(tip)
                             /\ View.tree = BranchTree(k, tip)
                             /\ View.tree.root \in Block
    BY <1>1, ViewFacts
  <1> DEFINE canonical == Branch(View.tree, tip)
             calc == Calculator(View.tree.root, canonical)
             number == NextNumber(View, canonical)
  <1>5. build' = [on |-> TRUE, tree |-> View.tree, parent |-> tip, calc |-> calc,
                  number |-> number, count |-> 0, finalities |-> 0, exists |-> FALSE]
    <2>1. Tips(BranchTree(k, tip)) = {tip}
      BY <1>4, TipsOfBranch DEF Block, Number
    <2>2. Tips(View.tree) = {tip}
      BY <1>4, <2>1
    <2> HIDE DEF k
    <2>3. \E t \in {tip} : build' =
             [on |-> TRUE, tree |-> View.tree, parent |-> t,
              calc |-> Calculator(View.tree.root, Branch(View.tree, t)),
              number |-> NextNumber(View, Branch(View.tree, t)),
              count |-> 0, finalities |-> 0, exists |-> FALSE]
      BY <2>2 DEF BuildBegin
    <2> QED
      BY <2>3
  <1>6. /\ View.tree.root = AncestorAt(tip, k) /\ View.tree \in Tree
    <2>1. /\ BranchTree(k, tip).root = AncestorAt(tip, k) /\ BranchTree(k, tip) \in Tree
      BY <1>4, BranchIsTree
    <2> QED
      BY <1>4, <2>1
  <1>7. canonical \in Seq(Block) /\ Follows(canonical, tip, k, Number(tip))
    <2>1. LET feeds == Branch(BranchTree(k, tip), tip)
          IN  feeds \in Seq(Seq(Bodies)) /\ Follows(feeds, tip, k, Len(tip))
      BY <1>4, BranchFollows DEF Block, Number
    <2> QED
      BY <1>4, <2>1 DEF Block, Number
  <1>8. number = Number(tip) + 1 /\ number \in Nat
    <2>1. Len(canonical) = Number(tip) - k
      BY <1>7 DEF Follows
    <2>2. Number(tip) \in Nat
      BY GenesisIsBlock
    <2> QED
      BY <1>4, <2>1, <2>2 DEF NextNumber
  <1> HIDE DEF canonical, number
  <1>9. /\ calc \in CalculatorType /\ calc.checkpoint = View.tree.root
        /\ StandsAt(calc, tip, k)
    BY <1>4, <1>6, <1>7 DEF CalculatorType, Calculator, StandsAt, Number
  <1> HIDE DEF calc
  <1>10. /\ build'.on /\ build'.tree = View.tree /\ build'.parent = tip
         /\ build'.calc = calc /\ build'.number = number /\ build'.finalities = 0
         /\ build' \in [on : BOOLEAN, tree : Tree, parent : Block,
                        calc : CalculatorType, number : Nat, count : Nat,
                        finalities : Nat, exists : BOOLEAN]
    BY <1>4, <1>5, <1>6, <1>8, <1>9
  <1>11. TypeOK'
    BY <1>1, <1>2, <1>10 DEF TypeOK, node
  <1>12. Statuses' = Statuses /\ View' = View
    BY <1>2 DEF Statuses, View
  <1>13. StatusInv'
    BY <1>1, <1>3, <1>12, StatusStays
  <1>14. OrderInv'
    BY <1>1, <1>2 DEF OrderInv, GoesOn
  <1>15. BuildInv'
    <2>1. IsBranch(build.tree, build.parent)'
      <3>1. IsAncestor(tip, finalized') /\ k <= Number(tip)
        BY <1>3, <1>4 DEF IsFinal
      <3>2. View.tree = BranchTree(Number(View.tree.root), tip)
        BY <1>4
      <3> QED
        BY <1>10, <3>1, <3>2 DEF IsBranch, IsFinal
    <2>2. /\ build'.calc.checkpoint = build'.tree.root
          /\ StandsAt(build'.calc, build'.parent, Number(build'.tree.root))
          /\ build'.number = Number(build'.parent) + 1
          /\ Number(build'.tree.root) = View'.height + build'.finalities
      BY <1>4, <1>8, <1>9, <1>10, <1>12
    <2>3. Len(relayed') < MaxInFlight
      BY <1>2 DEF BuildBegin
    <2> QED
      BY <2>1, <2>2, <2>3 DEF BuildInv
  <1>16. \A n \in Nat : Reached(n)' => Reached(n)
    BY <1>2, <1>4, <1>10, <1>12 DEF Reached
  <1>17. NeverPanics'
    BY <1>1, <1>2 DEF NeverPanics
  <1> QED
    BY <1>2, <1>11, <1>13, <1>14, <1>15, <1>16, <1>17, LinkKeeps
\* The next header is final, since the cache says so of its height, and hence a
\* child of the last one.  The root moves on as the calculator says.
LEMMA BuildHeadKeeps ==
    ASSUME IInv, BuildHead
    PROVE  IInv'
  <1>1. /\ TypeOK /\ StatusInv /\ OrderInv /\ BuildInv /\ ChainInv /\ SettledInv
        /\ NeverPanics
    BY DEF IInv
  <1>2. /\ UNCHANGED <<node, watch, loop, local, peer, heads, msgs>>
        /\ relayed' = relayed /\ woken' = woken /\ told' = told /\ faults' = faults
        /\ build.on /\ build.number <= local.cache /\ build.number \in DOMAIN heads
    BY DEF BuildHead, Building
  <1>3. Grows /\ finalized' = finalized
    BY <1>1, <1>2, NodeStays DEF node
  <1> DEFINE b == heads[build.number]
             k == Number(build.tree.root)
             fed == Feed(build.calc, b)
             added == Add(build.tree, b)
  <1>4. /\ b \in Block /\ Number(b) = build.number /\ finalized \in Block
        /\ build.parent \in Block /\ build.tree \in Tree /\ build.calc \in CalculatorType
        /\ build.number \in Nat /\ build.count \in Nat /\ build.finalities \in Nat
        /\ local.cache \in Nat /\ build.tree.root \in Block
    BY <1>1, <1>2 DEF TypeOK, SettledInv, Tree
  <1>5. /\ IsBranch(build.tree, build.parent)
        /\ build.calc.checkpoint = build.tree.root
        /\ StandsAt(build.calc, build.parent, k)
        /\ build.number = Number(build.parent) + 1
        /\ k = View.height + build.finalities
        /\ Len(relayed') < MaxInFlight
    BY <1>1, <1>2 DEF BuildInv
  <1>6. /\ k \in 0 .. Number(build.parent)
        /\ build.tree.root = AncestorAt(build.parent, k)
        /\ build.tree = BranchTree(k, build.parent)
        /\ IsFinal(build.tree.root) /\ IsFinal(build.parent)
    BY <1>4, <1>5, BranchFacts
  <1>7. IsFinal(b)
    BY <1>1, <1>2, <1>4 DEF Reached, SettledInv
  <1>8. /\ b # Genesis /\ Parent(b) = build.parent
        /\ Number(b) \in Nat \ {0} /\ Number(build.parent) = Number(b) - 1
    <2>1. Number(build.parent) \in Nat /\ Number(b) = Number(build.parent) + 1
      BY <1>4, <1>5, GenesisIsBlock
    <2>2. b # Genesis
      BY <2>1, GenesisIsBlock
    <2>3. /\ Parent(b) \in Block /\ Number(Parent(b)) = Number(b) - 1
          /\ IsAncestor(Parent(b), b)
      BY <1>4, <2>2, ParentIsBlock
    <2>4. IsFinal(Parent(b))
      BY <1>4, <1>7, <2>3, AncestorOfAncestor DEF IsFinal
    <2>5. Parent(b) = build.parent
      BY <1>4, <1>6, <2>1, <2>3, <2>4, AncestorsAgree DEF IsFinal
    <2> QED
      BY <2>1, <2>2, <2>5
  <1>9. CanAdd(build.tree, b) /\ added = BranchTree(k, b)
    <2>1. Len(b) > 0 /\ k \in 0 .. Len(b) - 1 /\ b \in Seq(Bodies)
      BY <1>4, <1>6, <1>8 DEF Number, Block
    <2>2. CanAdd(BranchTree(k, Parent(b)), b) /\ Add(BranchTree(k, Parent(b)), b) = BranchTree(k, b)
      BY <2>1, AddToBranch
    <2> HIDE DEF k, b
    <2>3. build.tree = BranchTree(k, Parent(b))
      BY <1>6, <1>8
    <2> QED
      BY <2>2, <2>3
  <1>10. PICK s \in k .. Number(b) - 1 :
            /\ fed.finalities \in Seq(Block)
            /\ Len(fed.finalities) = s - k
            /\ fed.calc \in CalculatorType
            /\ fed.calc.checkpoint = AncestorAt(b, s)
            /\ StandsAt(fed.calc, b, s)
            /\ AncestorAt(b, s) \in Block
            /\ Number(AncestorAt(b, s)) = s
            /\ IsFinal(AncestorAt(b, s))
            /\ fed.finalities = << >> <=> s = k
            /\ s # k => Last(fed.finalities) = AncestorAt(b, s)
    <2>1. SoundFor(b, finalized)
      BY <1>1, <1>4, <1>7, FinalizedFacts DEF Sound
    <2>2. k \in Nat /\ StandsAt(build.calc, Parent(b), k)
          /\ IsAncestor(build.calc.checkpoint, finalized)
      BY <1>5, <1>6, <1>8 DEF IsFinal
    <2> HIDE DEF k, b
    <2> QED
      BY <1>4, <1>8, <2>1, <2>2, FeedOnBranch DEF IsFinal
  <1> DEFINE tree == IF fed.finalities = << >> THEN added
                     ELSE Prune(added, Last(fed.finalities))
             exists == \E i \in DOMAIN fed.finalities :
                          MessagesIn(CanonicalAt(fed.finalities[i])) # {}
             finalities == build.finalities + CountFinalities(fed.finalities)
  <1>11. /\ panicked' = panicked
         /\ build' = [build EXCEPT
                        !.number = @ + 1, !.count = @ + 1, !.parent = b,
                        !.calc = fed.calc, !.finalities = finalities,
                        !.tree = tree, !.exists = exists]
    BY <1>8, <1>9 DEF BuildHead
  <1>12. tree = BranchTree(s, b) /\ s \in 0 .. Number(b)
    <2>1. k \in 0 .. Number(b) /\ s \in 0 .. Number(b)
          /\ (s # k => s \in k + 1 .. Number(b))
      BY <1>6, <1>8
    <2> HIDE DEF k, b, fed, added
    <2>2. CASE s = k
      BY <1>9, <1>10, <2>1, <2>2
    <2>3. CASE s # k
      <3>1. Prune(BranchTree(k, b), AncestorAt(b, s)) = BranchTree(s, b)
        BY <1>4, <2>1, <2>3, PruneBranch DEF Block, Number
      <3> QED
        BY <1>9, <1>10, <2>1, <2>3, <3>1
    <2> QED
      BY <2>2, <2>3
  <1>13. finalities = build.finalities + (s - k) /\ finalities \in Nat
    <2>1. CountFinalities(fed.finalities) = s - k
      BY <1>10 DEF CountFinalities
    <2> QED
      BY <1>4, <1>6, <1>10, <2>1
  <1>14. exists \in BOOLEAN
    OBVIOUS
  <1>15. BranchTree(s, b) \in Tree /\ BranchTree(s, b).root = AncestorAt(b, s)
    BY <1>4, <1>12, BranchIsTree
  <1> DEFINE number == Number(b)
             calc == fed.calc
  <1>16. number \in Nat /\ calc \in CalculatorType
    BY <1>8, <1>10
  <1> HIDE DEF b, k, fed, added, tree, exists, finalities, number, calc
  <1>17. /\ build'.on /\ build'.tree = BranchTree(s, b) /\ build'.parent = b
         /\ build'.calc = calc /\ build'.number = number + 1
         /\ build'.finalities = finalities
         /\ build' \in [on : BOOLEAN, tree : Tree, parent : Block,
                        calc : CalculatorType, number : Nat, count : Nat,
                        finalities : Nat, exists : BOOLEAN]
    <2>1. build \in [on : BOOLEAN, tree : Tree, parent : Block,
                     calc : CalculatorType, number : Nat, count : Nat,
                     finalities : Nat, exists : BOOLEAN]
      BY <1>1 DEF TypeOK
    <2>2. build' = [build EXCEPT
                      !.number = @ + 1, !.count = @ + 1, !.parent = b,
                      !.calc = calc, !.finalities = finalities,
                      !.tree = tree, !.exists = exists]
      BY <1>11 DEF calc
    <2>3. tree \in Tree /\ b \in Block /\ build.number = number /\ build.on
      BY <1>2, <1>4, <1>12, <1>15 DEF number
    <2>4. /\ build'.on = build.on /\ build'.tree = tree /\ build'.parent = b
          /\ build'.calc = calc /\ build'.number = build.number + 1
          /\ build'.finalities = finalities
      BY ONLY <2>1, <2>2
    <2>5. build' \in [on : BOOLEAN, tree : Tree, parent : Block,
                      calc : CalculatorType, number : Nat, count : Nat,
                      finalities : Nat, exists : BOOLEAN]
      <3> DEFINE Flag == BOOLEAN
                 next == build.number + 1
                 more == build.count + 1
      <3>1. /\ build \in [on : Flag, tree : Tree, parent : Block,
                          calc : CalculatorType, number : Nat, count : Nat,
                          finalities : Nat, exists : Flag]
            /\ exists \in Flag
        BY <1>14, <2>1
      <3>2. next \in Nat /\ more \in Nat
        BY <1>4
      <3>3. build' = [build EXCEPT
                        !.number = next, !.count = more, !.parent = b,
                        !.calc = calc, !.finalities = finalities,
                        !.tree = tree, !.exists = exists]
        BY <2>2
      <3> HIDE DEF Flag, next, more
      <3>4. build' \in [on : Flag, tree : Tree, parent : Block,
                        calc : CalculatorType, number : Nat, count : Nat,
                        finalities : Nat, exists : Flag]
        BY ONLY <1>13, <1>16, <2>3, <3>1, <3>2, <3>3
      <3> QED
        BY <3>4 DEF Flag
    <2> QED
      BY <1>12, <2>3, <2>4, <2>5
  <1>18. TypeOK'
    BY <1>1, <1>2, <1>11, <1>17 DEF TypeOK, node
  <1>19. Statuses' = Statuses /\ View' = View
    BY <1>2 DEF Statuses, View
  <1>20. StatusInv'
    BY <1>1, <1>3, <1>19, StatusStays
  <1>21. OrderInv'
    BY <1>1, <1>2 DEF OrderInv, GoesOn
  <1>22. Number(build'.tree.root) = s
    BY <1>10, <1>15, <1>17
  <1>23. BuildInv'
    <2>1. IsBranch(build.tree, build.parent)'
      <3>1. s <= Number(b)
        BY <1>8, <1>12 DEF b
      <3>2. build'.tree = BranchTree(Number(build'.tree.root), b)
        BY <1>17, <1>22
      <3> QED
        BY <1>3, <1>7, <1>17, <1>22, <3>1, <3>2 DEF IsBranch, IsFinal
    <2>2. /\ build'.calc.checkpoint = build'.tree.root
          /\ StandsAt(build'.calc, build'.parent, s)
          /\ build'.number = Number(build'.parent) + 1
      BY <1>10, <1>15, <1>17 DEF calc, number
    <2>3. s = View'.height + build'.finalities
      <3>1. View.height \in Nat /\ k \in Nat /\ build.finalities \in Nat /\ s \in Nat
        BY <1>1, <1>4, <1>6, <1>12, StatusTypes DEF Status
      <3> QED
        BY <1>5, <1>13, <1>17, <1>19, <3>1 DEF k
    <2> QED
      BY <1>5, <1>22, <2>1, <2>2, <2>3 DEF BuildInv
  <1>24. \A n \in Nat : Reached(n)' => Reached(n)
    <2>1. s < build.number /\ s <= local.cache
      BY <1>2, <1>4, <1>8, <1>12
    <2>2. \A n \in Nat : n <= Number(build'.tree.root) => n <= local.cache
      BY <1>4, <1>12, <1>22, <2>1
    <2> QED
      BY <1>2, <1>19, <2>2 DEF Reached
  <1>25. NeverPanics'
    BY <1>1, <1>11 DEF NeverPanics
  <1> QED
    BY <1>2, <1>18, <1>20, <1>21, <1>23, <1>24, <1>25, LinkKeeps
\* The link as it is when it does not build.
LEMMA NoBuildIsTyped ==
    NoBuild \in [on : BOOLEAN, tree : Tree, parent : Block,
                 calc : CalculatorType, number : Nat, count : Nat,
                 finalities : Nat, exists : BOOLEAN]
  <1>1. Genesis \in Block /\ << >> \in Seq(Block)
    BY GenesisIsBlock, EmptySeq
  <1>2. NewBlockTree(Genesis) \in Tree
    BY <1>1 DEF NewBlockTree, Tree
  <1>3. Calculator(Genesis, << >>) \in CalculatorType
    BY <1>1 DEF Calculator, CalculatorType
  <1> QED
    BY <1>1, <1>2, <1>3 DEF NoBuild

\* A query for messages fails, and with it the update.
LEMMA BuildFailsKeeps ==
    ASSUME IInv, BuildFails
    PROVE  IInv'
  <1>1. TypeOK /\ StatusInv /\ OrderInv /\ ChainInv /\ NeverPanics
    BY DEF IInv
  <1>2. /\ UNCHANGED <<node, watch, loop, local, peer, heads, msgs>>
        /\ peer' = peer /\ finalized' = finalized /\ relayed' = relayed
        /\ woken' = woken /\ told' = told /\ panicked' = panicked
        /\ build' = NoBuild /\ faults < MaxFaults /\ faults' = faults + 1
    BY DEF BuildFails, node
  <1>3. Grows
    BY <1>1, <1>2, NodeStays
  <1>4. Statuses' = Statuses
    BY <1>2 DEF Statuses
  <1>5. TypeOK'
    <2>1. build' \in [on : BOOLEAN, tree : Tree, parent : Block,
                      calc : CalculatorType, number : Nat, count : Nat,
                      finalities : Nat, exists : BOOLEAN]
      BY <1>2, NoBuildIsTyped
    <2>2. faults' \in 0 .. MaxFaults
      <3>1. faults \in 0 .. MaxFaults /\ MaxFaults \in Nat
        BY <1>1, ConstantsAssumption DEF TypeOK
      <3> QED
        BY <1>2, <3>1
    <2> QED
      BY <1>1, <1>2, <2>1, <2>2 DEF TypeOK, node
  <1>6. StatusInv'
    BY <1>1, <1>3, <1>4, StatusStays
  <1>7. OrderInv'
    BY <1>1, <1>2 DEF OrderInv, GoesOn
  <1>8. BuildInv'
    BY <1>2, <1>3, BuildStarts DEF Grows
  <1>9. \A n \in Nat : Reached(n)' => Reached(n)
    <2>1. \A x \in Statuses' \cup {build'} : x \in Statuses \/ x.tree.root = Genesis
      BY <1>2, <1>4, NoBuildIsBranch
    <2>2. \A n \in Nat : n <= Number(Genesis) => n <= local.cache
      BY <1>1, GenesisIsBlock DEF TypeOK
    <2> QED
      BY <1>2, <2>1, <2>2 DEF Reached
  <1>10. NeverPanics'
    BY <1>1, <1>2 DEF NeverPanics
  <1> QED
    BY <1>2, <1>5, <1>6, <1>7, <1>8, <1>9, <1>10, LinkKeeps

\* The update ends: what the contract decodes is the tree the link had.
LEMMA BuildEndKeeps ==
    ASSUME IInv, BuildEnd
    PROVE  IInv'
  <1>1. TypeOK /\ StatusInv /\ OrderInv /\ BuildInv /\ ChainInv /\ NeverPanics
    BY DEF IInv
  <1>2. /\ UNCHANGED <<node, watch, loop, local, peer, heads, msgs>>
        /\ peer' = peer /\ finalized' = finalized
        /\ woken' = woken /\ told' = told /\ faults' = faults /\ panicked' = panicked
        /\ build.on /\ build' = NoBuild
    BY DEF BuildEnd, Building, node
  <1>3. Grows
    BY <1>1, <1>2, NodeStays
  <1> DEFINE k == Number(build.tree.root)
             height == View.height + build.finalities
             st == [height |-> height, tree |-> build.tree, seq |-> View.seq]
  <1>4. /\ finalized \in Block /\ build.parent \in Block /\ build.tree \in Tree
        /\ build.tree.root \in Block /\ build.finalities \in Nat
    BY <1>1 DEF TypeOK, Tree
  <1>5. /\ IsBranch(build.tree, build.parent) /\ k = height
        /\ Len(relayed) < MaxInFlight
    BY <1>1, <1>2 DEF BuildInv
  <1>6. /\ k \in 0 .. Number(build.parent)
        /\ build.tree = BranchTree(k, build.parent)
        /\ IsFinal(build.tree.root) /\ IsFinal(build.parent)
    BY <1>4, <1>5, BranchFacts
  <1>7. Decode(Encode(build.tree)) = build.tree /\ build.parent \in build.tree.nodes
    <2>1. build.parent \in Seq(Bodies) /\ k \in 0 .. Len(build.parent)
      BY <1>4, <1>6 DEF Block, Number
    <2>2. Decode(Encode(BranchTree(k, build.parent))) = BranchTree(k, build.parent)
      BY <2>1, DecodeOfEncode
    <2>3. build.parent \in BranchTree(k, build.parent).nodes
      BY <1>4, <1>6, BranchIsTree
    <2> HIDE DEF k
    <2> QED
      BY <1>6, <2>2, <2>3
  <1>8. /\ View \in Status /\ View.seq <= SentUpTo(View.tree.root)
        /\ View.tree.root \in Block /\ IsFinal(View.tree.root)
        /\ View.height = Number(View.tree.root)
        /\ View.height \in Nat /\ View.seq \in Nat
    BY <1>1, ViewFacts
  <1>9. height \in Nat /\ View.height <= height /\ k \in Nat
    BY <1>4, <1>5, <1>8
  <1>10. relayed' = relayed \/ relayed' = Append(relayed, st)
    BY <1>7 DEF BuildEnd
  <1> HIDE DEF k, height
  <1>11. /\ st \in Status /\ GoesOn(View, st)
         /\ st.height = height /\ st.tree = build.tree /\ st.seq = View.seq
    BY <1>4, <1>8, <1>9 DEF Status, GoesOn
  <1>12. StatusOK(st)
    <2>1. IsAncestor(View.tree.root, build.tree.root)
      BY <1>4, <1>5, <1>6, <1>8, <1>9, AncestorsAgree DEF IsFinal, k
    <2>2. Ascends(build.tree.root)
      BY <1>1, <1>4, <1>6, FinalizedFacts
    <2>3. /\ SentUpTo(View.tree.root) \in Nat /\ SentUpTo(build.tree.root) \in Nat
          /\ SentUpTo(View.tree.root) <= SentUpTo(build.tree.root)
      BY <1>4, <1>8, <2>1, <2>2, SentAscends
    <2>4. st.seq <= SentUpTo(st.tree.root)
      BY <1>8, <1>11, <2>3
    <2> QED
      BY <1>5, <1>7, <1>11, <2>4 DEF StatusOK, k
  <1> HIDE DEF st
  <1>13. /\ relayed' \in Seq(Status) /\ Len(relayed') <= MaxInFlight
         /\ Statuses' \subseteq Statuses \cup {st}
         /\ OrderInv'
    <2>1. CASE relayed' = relayed
      <3>1. OrderInv' /\ Statuses' = Statuses
        BY <1>1, <1>2, <2>1 DEF OrderInv, GoesOn, Statuses
      <3> QED
        BY <1>1, <2>1, <3>1 DEF TypeOK
    <2>2. CASE relayed' = Append(relayed, st)
      BY <1>1, <1>2, <1>5, <1>11, <2>2, StatusAdded
    <2> QED
      BY <1>10, <2>1, <2>2
  <1>14. TypeOK'
    <2>1. build' \in [on : BOOLEAN, tree : Tree, parent : Block,
                      calc : CalculatorType, number : Nat, count : Nat,
                      finalities : Nat, exists : BOOLEAN]
      BY <1>2, NoBuildIsTyped
    <2> QED
      BY <1>1, <1>2, <1>13, <2>1 DEF TypeOK, node
  <1>15. StatusInv'
    <2> SUFFICES ASSUME NEW x \in Statuses'
                 PROVE  StatusOK(x)'
      BY DEF StatusInv
    <2>1. StatusOK(x)
      BY <1>1, <1>12, <1>13 DEF StatusInv
    <2> QED
      BY <1>2, <2>1 DEF StatusOK, IsBranch, IsFinal
  <1>16. BuildInv'
    BY <1>2, <1>4, BuildStarts
  <1>17. \A n \in Nat : Reached(n)' => Reached(n)
    <2>1. \A x \in Statuses' \cup {build'} :
             \/ x \in Statuses
             \/ x.tree = build.tree
             \/ x.tree.root = Genesis
      BY <1>2, <1>11, <1>13, NoBuildIsBranch
    <2>2. \A n \in Nat : n <= Number(Genesis) => n <= local.cache
      BY <1>1, GenesisIsBlock DEF TypeOK
    <2> QED
      BY <1>2, <2>1, <2>2 DEF Reached
  <1>18. NeverPanics'
    BY <1>1, <1>2 DEF NeverPanics
  <1> QED
    BY <1>2, <1>14, <1>15, <1>13, <1>16, <1>17, <1>18, LinkKeeps
\* Messages of a block not above the root of the view are known to the contract
\* as final, since the block is on the branch of the root.
LEMMA BuildMessageProofKeeps ==
    ASSUME IInv, BuildMessageProof
    PROVE  IInv'
  <1>1. /\ TypeOK /\ StatusInv /\ OrderInv /\ BuildInv /\ ChainInv /\ NeverPanics
        /\ FiniteInv /\ MsgsInv
    BY DEF IInv
  <1>2. /\ UNCHANGED <<node, watch, loop, local, peer, heads, msgs>>
        /\ peer' = peer /\ finalized' = finalized /\ build' = build
        /\ woken' = woken /\ told' = told /\ faults' = faults /\ panicked' = panicked
        /\ ~build.on /\ Len(relayed) < MaxInFlight
    BY DEF BuildMessageProof, Building, node
  <1>3. Grows
    BY <1>1, <1>2, NodeStays
  <1>4. PICK upto \in View.seq + 1 .. MaxSeq :
           Provable(upto) /\ relayed' = Append(relayed, [View EXCEPT !.seq = upto])
    BY DEF BuildMessageProof
  <1>5. /\ View \in Status /\ View \in Statuses /\ View.seq <= SentUpTo(View.tree.root)
        /\ View.tree.root \in Block /\ IsFinal(View.tree.root)
        /\ View.height = Number(View.tree.root)
        /\ View.height \in Nat /\ View.seq \in Nat
    BY <1>1, ViewFacts
  <1>6. upto \in Nat /\ upto > View.seq
    BY <1>5, ConstantsAssumption
  <1> DEFINE st == [View EXCEPT !.seq = upto]
             b == msgs[upto]
  <1>7. /\ st \in Status /\ GoesOn(View, st)
        /\ st.height = View.height /\ st.tree = View.tree /\ st.seq = upto
    BY <1>5, <1>6 DEF Status, GoesOn
  <1>8. upto \in DOMAIN msgs /\ Number(b) <= View.height
    <2>1. upto \in View.seq + 1 .. upto
      BY <1>5, <1>6
    <2> QED
      BY <1>4, <2>1 DEF Provable
  <1>9. b \in Block /\ IsFinal(b) /\ upto \in MessagesIn(b)
    BY <1>1, <1>8 DEF TypeOK, MsgsInv, MessagesAreFinal, IsFinal
  <1>10. upto <= SentUpTo(b)
    BY <1>1, <1>6, <1>9, MessagesOfFinal
  <1> HIDE DEF b
  <1>11. SentUpTo(b) <= SentUpTo(View.tree.root) /\ SentUpTo(b) \in Nat
         /\ SentUpTo(View.tree.root) \in Nat
    <2>1. finalized \in Block
      BY <1>1 DEF TypeOK
    <2>2. Number(b) <= Number(View.tree.root)
      BY <1>5, <1>8 DEF b
    <2>3. IsAncestor(b, View.tree.root)
      BY <1>5, <1>9, <2>1, <2>2, AncestorsAgree DEF IsFinal
    <2>4. Ascends(View.tree.root)
      BY <1>1, <1>5, FinalizedFacts
    <2> QED
      BY <1>5, <1>9, <2>3, <2>4, SentAscends
  <1> HIDE DEF st
  <1>12. StatusOK(st)
    <2>1. StatusOK(View)
      BY <1>1, <1>5 DEF StatusInv
    <2>2. st.seq <= SentUpTo(st.tree.root)
      BY <1>6, <1>7, <1>10, <1>11
    <2> QED
      BY <1>7, <2>1, <2>2 DEF StatusOK
  <1>13. /\ relayed' \in Seq(Status) /\ Len(relayed') <= MaxInFlight
         /\ Statuses' = Statuses \cup {st}
         /\ OrderInv'
    <2>1. relayed' = Append(relayed, st)
      BY <1>4 DEF st
    <2> QED
      BY <1>1, <1>2, <1>7, <2>1, StatusAdded
  <1>14. TypeOK'
    BY <1>1, <1>2, <1>13 DEF TypeOK, node
  <1>15. StatusInv'
    <2> SUFFICES ASSUME NEW x \in Statuses'
                 PROVE  StatusOK(x)'
      BY DEF StatusInv
    <2>1. StatusOK(x)
      BY <1>1, <1>12, <1>13 DEF StatusInv
    <2> QED
      BY <1>2, <2>1 DEF StatusOK, IsBranch, IsFinal
  <1>16. BuildInv'
    BY <1>1, <1>2, <1>3, BuildStays
  <1>17. \A n \in Nat : Reached(n)' => Reached(n)
    <2>1. \A x \in Statuses' \cup {build'} : \E y \in Statuses \cup {build} : x.tree = y.tree
      BY <1>2, <1>5, <1>7, <1>13
    <2> QED
      BY <1>2, <2>1 DEF Reached
  <1>18. NeverPanics'
    BY <1>1, <1>2 DEF NeverPanics
  <1> QED
    BY <1>2, <1>13, <1>14, <1>15, <1>16, <1>17, <1>18, LinkKeeps

\* A relay message is dropped: the link is back at the status of the peer.
LEMMA DropKeeps ==
    ASSUME IInv, Drop
    PROVE  IInv'
  <1>1. TypeOK /\ StatusInv /\ ChainInv /\ NeverPanics
    BY DEF IInv
  <1>2. /\ UNCHANGED <<node, watch, loop, local, peer, heads, msgs>>
        /\ peer' = peer /\ finalized' = finalized /\ relayed' = << >> /\ build' = NoBuild
        /\ woken' = woken /\ told' = told /\ panicked' = panicked
        /\ faults < MaxFaults /\ faults' = faults + 1
    BY DEF Drop, node
  <1>3. Grows
    BY <1>1, <1>2, NodeStays
  <1>4. /\ << >> \in Seq(Status) /\ Len(<< >>) = 0 /\ Range(<< >>) = {}
    BY EmptySeq DEF Range
  <1>5. Statuses' = {peer}
    BY <1>2, <1>4 DEF Statuses
  <1>6. TypeOK'
    <2>1. build' \in [on : BOOLEAN, tree : Tree, parent : Block,
                      calc : CalculatorType, number : Nat, count : Nat,
                      finalities : Nat, exists : BOOLEAN]
      BY <1>2, NoBuildIsTyped
    <2>2. faults' \in 0 .. MaxFaults /\ 0 <= MaxInFlight
      <3>1. faults \in 0 .. MaxFaults /\ MaxFaults \in Nat /\ MaxInFlight \in Nat
        BY <1>1, ConstantsAssumption DEF TypeOK
      <3> QED
        BY <1>2, <3>1
    <2> QED
      BY <1>1, <1>2, <1>4, <2>1, <2>2 DEF TypeOK, node
  <1>7. StatusInv'
    BY <1>1, <1>3, <1>5, StatusStays DEF Statuses
  <1>8. OrderInv'
    <2>1. 1 .. Len(relayed') = {}
      BY <1>2, <1>4
    <2> QED
      BY <2>1 DEF OrderInv
  <1>9. BuildInv'
    BY <1>2, <1>3, BuildStarts DEF Grows
  <1>10. \A n \in Nat : Reached(n)' => Reached(n)
    <2>1. \A x \in Statuses' \cup {build'} : x \in Statuses \/ x.tree.root = Genesis
      BY <1>2, <1>5, NoBuildIsBranch DEF Statuses
    <2>2. \A n \in Nat : n <= Number(Genesis) => n <= local.cache
      BY <1>1, GenesisIsBlock DEF TypeOK
    <2> QED
      BY <1>2, <2>1, <2>2 DEF Reached
  <1>11. NeverPanics'
    BY <1>1, <1>2 DEF NeverPanics
  <1> QED
    BY <1>2, <1>6, <1>7, <1>8, <1>9, <1>10, <1>11, LinkKeeps

-----------------------------------------------------------------------------
(* The receiver starts.                                                    *)

\* The block in which a message was sent: the first that counts it.
LEMMA MissingMessage ==
    ASSUME NEW root \in Block, NEW s \in Nat \ {0}, s <= SentUpTo(root),
           SentUpTo(root) \in Nat,
           NEW m, m = Min({n \in 1 .. Len(root) : root[n].seq >= s})
    PROVE  /\ AncestorAt(root, m) \in Block
           /\ IsAncestor(AncestorAt(root, m), root)
           /\ s \in MessagesIn(AncestorAt(root, m))
  <1> DEFINE T == {n \in 1 .. Len(root) : root[n].seq >= s}
             b == AncestorAt(root, m)
  <1>1. root # Genesis
    BY DEF SentUpTo
  <1>2. Len(root) \in 1 .. Len(root) /\ SentUpTo(root) = root[Len(root)].seq
    BY <1>1, GenesisIsBlock DEF SentUpTo, Body, Number
  <1>3. \A n \in 1 .. Len(root) : root[n].seq \in Nat
    BY ElementOfSeq, BodyFields DEF Block
  <1>4. Len(root) \in T
    BY <1>2
  <1>5. T \in SUBSET Nat /\ T # {}
    BY <1>4
  <1>6. m \in T /\ \A n \in T : m <= n
    <2>1. m = CHOOSE x \in T : \A y \in T : x <= y
      BY DEF Min
    <2> HIDE DEF T
    <2>2. \E x \in T : \A y \in T : x <= y
      BY <1>5, LeastNatural
    <2> QED
      BY <2>1, <2>2
  <1>7. m \in 1 .. Len(root) /\ root[m].seq >= s /\ m \in 0 .. Len(root) /\ m - 1 \in 0 .. Len(root)
        /\ m \in Nat \ {0}
    BY <1>6
  <1>8. /\ b \in Block /\ Len(b) = m /\ IsAncestor(b, root)
        /\ \A i \in 1 .. m : b[i] = root[i]
    BY <1>7, AncestorAtIsAncestor DEF Block
  <1>9. b # Genesis /\ SentUpTo(b) = root[m].seq
    <2>1. b # Genesis
      BY <1>7, <1>8, GenesisIsBlock DEF Number
    <2>2. b[Len(b)] = root[m]
      BY <1>7, <1>8
    <2> HIDE DEF b
    <2> QED
      BY <2>1, <2>2 DEF SentUpTo, Body
  <1> HIDE DEF b
  <1>10. /\ Parent(b) \in Block /\ Len(Parent(b)) = m - 1 /\ IsAncestor(Parent(b), b)
    BY <1>8, <1>9, ParentIsBlock DEF Number
  <1>11. SentUpTo(Parent(b)) \in Nat /\ SentUpTo(Parent(b)) < s
    <2>1. CASE m = 1
      <3>1. Parent(b) = Genesis
        BY <1>10, <2>1, GenesisIsBlock DEF Number
      <3> QED
        BY <3>1 DEF SentUpTo
    <2>2. CASE m # 1
      <3>1. m - 1 \in 1 .. Len(root) /\ m - 1 \in 1 .. m /\ m - 1 < m
        BY <1>7, <2>2
      <3>2. Parent(b) # Genesis
        BY <1>10, <3>1, GenesisIsBlock DEF Number
      <3>3. Parent(b)[m - 1] = root[m - 1]
        BY <1>8, <1>10, <3>1 DEF IsAncestor
      <3>4. SentUpTo(Parent(b)) = root[m - 1].seq
        BY <1>10, <3>2, <3>3 DEF SentUpTo, Body
      <3>5. ~(m <= m - 1)
        BY <1>7
      <3>6. m - 1 \notin T
        BY <1>6, <3>5
      <3> QED
        BY <1>3, <3>1, <3>4, <3>6
    <2> QED
      BY <2>1, <2>2
  <1>12. s \in SentUpTo(Parent(b)) + 1 .. SentUpTo(b)
    BY <1>3, <1>7, <1>9, <1>11
  <1> QED
    BY <1>8, <1>12 DEF MessagesIn, b
\* The empty cache.
LEMMA EmptyIsCache ==
    ASSUME NEW cache, cache = << >>
    PROVE  /\ IsCache(cache) /\ DOMAIN cache = {}
           /\ Cardinality(DOMAIN cache) = 0 /\ Cardinality(DOMAIN cache) <= CacheSize
  <1>1. DOMAIN cache = {} /\ cache \in [{} -> Block]
    OBVIOUS
  <1>2. Cardinality({}) = 0 /\ IsFiniteSet({})
    BY FS_EmptySet
  <1> QED
    BY <1>1, <1>2, ConstantsAssumption DEF IsCache

\* The process starts again at the root that the contract has, with the
\* messages up to there which the contract lacks.
LEMMA RestartKeeps ==
    ASSUME IInv, Restart
    PROVE  IInv'
  <1>1. /\ TypeOK /\ StatusInv /\ ChainInv /\ NeverPanics
    BY DEF IInv
  <1>2. ChainInv' /\ Grows
    BY <1>1, NodeStays DEF Restart
  <1>3. PICK status \in Statuses :
           LET root == status.tree.root
               missing == status.seq + 1 .. SentUpTo(root)
               sequence == IF missing = {} THEN status.seq ELSE SentUpTo(root)
           IN  /\ peer' = status
               /\ watch' = WatchFrom(root)
               /\ loop' = LoopFrom(root)
               /\ local' = [hash |-> root, seq |-> sequence, cache |-> 0]
               /\ msgs' \in Put(<< >>, [s \in missing |->
                     AncestorAt(root, Min({n \in 1 .. Len(root) : root[n].seq >= s}))])
               /\ told' = [number |-> Number(root), seq |-> sequence]
    BY DEF Restart, Statuses
  <1> DEFINE root == status.tree.root
             missing == status.seq + 1 .. SentUpTo(root)
             sequence == IF missing = {} THEN status.seq ELSE SentUpTo(root)
             entries == [s \in missing |->
                AncestorAt(root, Min({n \in 1 .. Len(root) : root[n].seq >= s}))]
  <1>4. /\ heads' = << >> /\ woken' = FALSE /\ relayed' = << >> /\ build' = NoBuild
        /\ panicked' = panicked /\ finalized' = finalized /\ chain' = chain
        /\ reorgs' = reorgs /\ faults < MaxFaults /\ faults' = faults + 1
    BY DEF Restart, node
  <1>5. /\ peer' = status /\ watch' = WatchFrom(root) /\ loop' = LoopFrom(root)
        /\ local' = [hash |-> root, seq |-> sequence, cache |-> 0]
        /\ msgs' \in Put(<< >>, entries)
        /\ told' = [number |-> Number(root), seq |-> sequence]
    BY <1>3
  <1>6. /\ status \in Status /\ root \in Block /\ IsFinal(root) /\ finalized \in Block
        /\ status.seq \in Nat /\ status.tree.root = root
    BY <1>1, RootsAreFinal DEF Status, TypeOK
  <1>7. /\ SentUpTo(root) \in Nat /\ SentUpTo(finalized) \in Nat
        /\ SentUpTo(root) <= SentUpTo(finalized) /\ Number(root) \in Nat
    BY <1>1, <1>6, MessagesOfFinal, GenesisIsBlock
  <1>8. /\ sequence \in Nat /\ missing \subseteq 1 .. SentUpTo(finalized)
        /\ IsFiniteSet(missing)
    <2>1. sequence \in Nat /\ missing \subseteq 1 .. SentUpTo(finalized)
      BY <1>6, <1>7
    <2>2. \A m, n \in Nat : IsFiniteSet(m .. n)
      BY FS_Interval
    <2>3. status.seq + 1 \in Nat
      BY <1>6
    <2> QED
      BY <1>7, <2>1, <2>2, <2>3
  <1>9. DOMAIN entries = missing /\ entries \in [missing -> Block]
        /\ \A s \in missing : /\ entries[s] \in Block /\ IsAncestor(entries[s], root)
                              /\ s \in MessagesIn(entries[s])
    <2>1. ASSUME NEW s \in missing
          PROVE  /\ entries[s] \in Block /\ IsAncestor(entries[s], root)
                 /\ s \in MessagesIn(entries[s])
      <3>1. s \in Nat \ {0} /\ s <= SentUpTo(root)
        BY <1>6, <1>7
      <3> DEFINE m == Min({n \in 1 .. Len(root) : root[n].seq >= s})
      <3>2. entries[s] = AncestorAt(root, m)
        OBVIOUS
      <3>3. m = Min({n \in 1 .. Len(root) : root[n].seq >= s})
        OBVIOUS
      <3> HIDE DEF m, entries, root
      <3> QED
        BY <1>6, <1>7, <3>1, <3>2, <3>3, MissingMessage
    <2> DEFINE Sent(s) == AncestorAt(root, Min({n \in 1 .. Len(root) : root[n].seq >= s}))
    <2>2. entries = [s \in missing |-> Sent(s)] /\ \A s \in missing : entries[s] = Sent(s)
      OBVIOUS
    <2> HIDE DEF missing, entries, Sent
    <2>3. entries \in [missing -> Block] /\ DOMAIN entries = missing
      BY <2>1, <2>2
    <2> QED
      BY <2>1, <2>3
  <1> HIDE DEF root, missing, sequence, entries
  <1>10. IsCache(entries)
    BY <1>7, <1>8, <1>9 DEF IsCache
  <1>11. /\ IsCache(msgs') /\ Cardinality(DOMAIN msgs') <= CacheSize
         /\ \A s \in DOMAIN msgs' : s \in missing /\ msgs'[s] = entries[s]
         /\ Cardinality(missing) <= CacheSize => DOMAIN msgs' = missing
    <2> DEFINE empty == << >>
    <2>1. IsCache(empty) /\ DOMAIN empty = {} /\ msgs' \in Put(empty, entries)
      BY <1>5, EmptyIsCache
    <2> HIDE DEF empty
    <2>2. /\ IsCache(msgs') /\ Cardinality(DOMAIN msgs') <= CacheSize
          /\ \A s \in DOMAIN msgs' :
                /\ s \in DOMAIN entries \/ s \in DOMAIN empty
                /\ msgs'[s] = IF s \in DOMAIN entries THEN entries[s] ELSE empty[s]
          /\ Cardinality(DOMAIN empty \cup DOMAIN entries) <= CacheSize =>
                DOMAIN msgs' = DOMAIN empty \cup DOMAIN entries
      BY ONLY <1>10, <2>1, PutInto
    <2>3. DOMAIN empty \cup DOMAIN entries = missing
      BY <1>9, <2>1
    <2> QED
      BY <1>9, <2>1, <2>2, <2>3
  <1>12. /\ << >> \in Seq(Status) /\ Len(<< >>) = 0 /\ Range(<< >>) = {}
    BY EmptySeq DEF Range
  <1>13. Statuses' = {status}
    BY <1>4, <1>5, <1>12 DEF Statuses
  <1>14. IsCache(heads') /\ DOMAIN heads' = {} /\ Cardinality(DOMAIN heads') <= CacheSize
    BY <1>4, EmptyIsCache
  <1>15. TypeOK'
    <2>1. build' \in [on : BOOLEAN, tree : Tree, parent : Block,
                      calc : CalculatorType, number : Nat, count : Nat,
                      finalities : Nat, exists : BOOLEAN]
      BY <1>4, NoBuildIsTyped
    <2>2. faults' \in 0 .. MaxFaults /\ 0 <= MaxInFlight
      <3>1. faults \in 0 .. MaxFaults /\ MaxFaults \in Nat /\ MaxInFlight \in Nat
        BY <1>1, ConstantsAssumption DEF TypeOK
      <3> QED
        BY <1>4, <3>1
    <2>3. watch' \in [want : Nat \ {0}, head : Block]
      BY <1>5, <1>7, GenesisIsBlock DEF WatchFrom, None
    <2>4. loop' \in [pc : {"recv", "full", "apply", "query", "notify"},
                     head : Block, snap : Block,
                     calc : CalculatorType, fed : 0 .. FeedLimit + 1,
                     target : Block, cursor : Block, seq : Nat]
      <3>1. Calculator(root, << >>) \in CalculatorType
        BY <1>6, EmptySeq DEF Calculator, CalculatorType
      <3>2. 0 \in 0 .. FeedLimit + 1 /\ Genesis \in Block
        BY GenesisIsBlock, ConstantsAssumption
      <3> QED
        BY <1>5, <1>6, <3>1, <3>2 DEF LoopFrom, None
    <2>5. /\ local' \in [hash : Block, seq : Nat, cache : Nat]
          /\ told' \in [number : Nat, seq : Nat]
      BY <1>5, <1>6, <1>7, <1>8
    <2> QED
      BY <1>1, <1>4, <1>5, <1>6, <1>11, <1>12, <1>14, <2>1, <2>2, <2>3, <2>4, <2>5
         DEF TypeOK, IsCache
  <1>16. StatusInv'
    BY <1>1, <1>2, <1>13, StatusStays
  <1>17. OrderInv'
    <2>1. 1 .. Len(relayed') = {}
      BY <1>4, <1>12
    <2> QED
      BY <2>1 DEF OrderInv
  <1>18. BuildInv' /\ NeverPanics'
    BY <1>1, <1>2, <1>4, BuildStarts DEF Grows, NeverPanics
  <1>19. IsAncestor(root, finalized')
    BY <1>4, <1>6 DEF IsFinal
  <1>20. WatchInv'
    <2>1. SoundFor(finalized', finalized')
      BY <1>1, <1>4, FinalizedFacts DEF Sound
    <2> QED
      BY <1>1, <1>2, <1>5, <1>6, <1>19, <2>1, WatchStarts
  <1>21. LoopInv' /\ WalkInv'
    <2>1. peer'.tree.root = root /\ DOMAIN heads' \subseteq Nat
      BY <1>5, <1>14 DEF root
    <2> QED
      BY <1>5, <1>6, <1>19, <2>1, LoopStarts
  <1>22. SettledInv'
    <2>1. /\ watch'.head = Genesis /\ loop'.head = Genesis
          /\ local'.hash = root /\ local'.cache = 0
      BY <1>5 DEF WatchFrom, LoopFrom, None
    <2>2. IsAncestor(Genesis, finalized') /\ 0 <= Number(finalized')
      BY <1>4, <1>6, GenesisIsBlock
    <2> QED
      BY <1>14, <1>19, <2>1, <2>2 DEF SettledInv, IsFinal
  <1>23. MsgsInv'
    <2>1. MessagesAreFinal'
      <3> SUFFICES ASSUME NEW s \in DOMAIN msgs'
                   PROVE  IsAncestor(msgs'[s], finalized') /\ s \in MessagesIn(msgs'[s])
        BY DEF MessagesAreFinal
      <3>1. /\ msgs'[s] \in Block /\ IsAncestor(msgs'[s], root)
            /\ s \in MessagesIn(msgs'[s])
        BY <1>9, <1>11
      <3> QED
        BY <1>4, <1>6, <1>19, <3>1, AncestorOfAncestor
    <2>2. MessagesAreKept'
      <3> SUFFICES ASSUME SentUpTo(finalized) <= CacheSize
                   PROVE  missing \subseteq DOMAIN msgs'
        BY <1>4, <1>5 DEF MessagesAreKept, missing
      <3> DEFINE seqs == 1 .. SentUpTo(finalized)
      <3>1. IsFiniteSet(seqs) /\ Cardinality(seqs) = SentUpTo(finalized)
        <4>1. \A n \in Nat : IsFiniteSet(1 .. n) /\ Cardinality(1 .. n) = n
          BY FS_Interval
        <4> QED
          BY <1>7, <4>1
      <3>2. missing \subseteq seqs
        BY <1>8
      <3> HIDE DEF seqs
      <3>3. Cardinality(missing) \in Nat /\ Cardinality(missing) <= Cardinality(seqs)
        BY <3>1, <3>2, FS_Subset, FS_CardinalityType
      <3>4. Cardinality(missing) <= CacheSize
        BY <1>7, <3>1, <3>3, ConstantsAssumption
      <3> QED
        BY <1>11, <3>4
    <2>3. loop'.pc = "recv"
      BY <1>5 DEF LoopFrom
    <2> QED
      BY <2>1, <2>2, <2>3 DEF MsgsInv
  <1>24. FiniteInv'
    BY <1>11, <1>14 DEF FiniteInv, IsCache
  <1> QED
    BY <1>2, <1>15, <1>16, <1>17, <1>18, <1>20, <1>21, <1>22, <1>23, <1>24 DEF IInv
-----------------------------------------------------------------------------
(* The invariant, and what follows from it.                                *)

\* As the receiver and the node begin.
LEMMA InitHolds ==
    ASSUME Init
    PROVE  IInv
  <1>1. /\ Genesis \in Block /\ Number(Genesis) = 0 /\ Len(Genesis) = 0
        /\ \A b \in Block : IsAncestor(Genesis, b)
        /\ \A f : SoundFor(Genesis, f)
    BY GenesisIsBlock DEF Number
  <1>2. /\ chain = Genesis /\ finalized = Genesis /\ reorgs = 0
        /\ watch = WatchFrom(Genesis) /\ loop = LoopFrom(Genesis)
        /\ local = [hash |-> Genesis, seq |-> 0, cache |-> 0]
        /\ peer = [height |-> 0, tree |-> NewBlockTree(Genesis), seq |-> 0]
        /\ heads = << >> /\ msgs = << >> /\ woken = FALSE
        /\ told = [number |-> 0, seq |-> 0] /\ relayed = << >> /\ build = NoBuild
        /\ panicked = FALSE /\ faults = 0
    BY DEF Init
  <1>3. /\ IsCache(heads) /\ DOMAIN heads = {} /\ Cardinality(DOMAIN heads) <= CacheSize
        /\ IsCache(msgs) /\ DOMAIN msgs = {} /\ Cardinality(DOMAIN msgs) <= CacheSize
    BY <1>2, EmptyIsCache
  <1>4. /\ << >> \in Seq(Status) /\ Len(<< >>) = 0 /\ Range(<< >>) = {}
        /\ 1 .. Len(<< >>) = {}
    BY EmptySeq DEF Range
  <1>5. /\ NoBuild.tree = BranchTree(0, Genesis) /\ NoBuild.parent = Genesis /\ ~NoBuild.on
        /\ NoBuild.tree.root = Genesis /\ NoBuild.tree = NewBlockTree(Genesis)
    BY NoBuildIsBranch DEF NoBuild
  <1>6. /\ peer.tree = BranchTree(0, Genesis) /\ peer.tree.root = Genesis
        /\ peer.height = 0 /\ peer.seq = 0
    BY <1>2, <1>5
  <1>7. Statuses = {peer}
    BY <1>2, <1>4 DEF Statuses
  <1>8. /\ watch.head = Genesis /\ loop.head = Genesis /\ loop.snap = Genesis
        /\ loop.pc = "recv" /\ loop.calc = Calculator(Genesis, << >>)
        /\ local.hash = Genesis /\ local.cache = 0
    BY <1>2 DEF WatchFrom, LoopFrom, None
  <1>9. TypeOK
    <2>1. build \in [on : BOOLEAN, tree : Tree, parent : Block,
                     calc : CalculatorType, number : Nat, count : Nat,
                     finalities : Nat, exists : BOOLEAN]
      BY <1>2, NoBuildIsTyped
    <2>2. watch \in [want : Nat \ {0}, head : Block]
      BY <1>1, <1>2 DEF WatchFrom, None
    <2>3. Calculator(Genesis, << >>) \in CalculatorType
      BY <1>1, EmptySeq DEF Calculator, CalculatorType
    <2>4. loop \in [pc : {"recv", "full", "apply", "query", "notify"},
                    head : Block, snap : Block,
                    calc : CalculatorType, fed : 0 .. FeedLimit + 1,
                    target : Block, cursor : Block, seq : Nat]
      <3>1. 0 \in 0 .. FeedLimit + 1
        BY ConstantsAssumption
      <3> QED
        BY <1>1, <1>2, <2>3, <3>1 DEF LoopFrom, None
    <2>5. NewBlockTree(Genesis) \in Tree
      BY <1>1 DEF NewBlockTree, Tree
    <2>6. peer \in Status
      BY <1>2, <2>5 DEF Status
    <2>7. reorgs \in 0 .. MaxReorgs /\ faults \in 0 .. MaxFaults /\ 0 <= MaxInFlight
      BY <1>2, ConstantsAssumption
    <2>8. local \in [hash : Block, seq : Nat, cache : Nat] /\ told \in [number : Nat, seq : Nat]
      BY <1>1, <1>2
    <2> QED
      BY <1>1, <1>2, <1>3, <1>4, <2>1, <2>2, <2>4, <2>6, <2>7, <2>8 DEF TypeOK, IsCache
  <1>10. FiniteInv
    BY <1>3 DEF FiniteInv, IsCache
  <1>11. ChainInv
    <2>1. Ascends(Genesis)
      BY <1>1 DEF Ascends
    <2> QED
      BY <1>1, <1>2, <2>1 DEF ChainInv, Sound
  <1>12. WatchInv
    BY <1>1, <1>2, <1>8 DEF WatchInv, Sound, None
  <1>13. SettledInv
    BY <1>1, <1>2, <1>3, <1>8 DEF SettledInv, IsFinal
  <1>14. LoopInv
    <2>1. /\ loop.calc.checkpoint = Genesis /\ loop.calc.feeds = << >>
      BY <1>8 DEF Calculator
    <2>2. AncestorAt(Genesis, 0) = Genesis
      BY <1>1, AncestorAtSelf DEF Block
    <2>3. StandsAt(loop.calc, Genesis, 0)
      BY <1>1, <1>4, <2>1, <2>2 DEF StandsAt, Follows
    <2> QED
      BY <1>1, <1>2, <1>3, <1>8, <2>1, <2>3 DEF LoopInv, IsFinal
  <1>15. WalkInv
    BY <1>8 DEF WalkInv
  <1>16. Genesis \in BranchTree(0, Genesis).nodes /\ IsFinal(Genesis)
    <2>1. 0 \in 0 .. Number(Genesis)
      BY <1>1
    <2> QED
      BY <1>1, <1>2, <2>1, BranchIsTree DEF IsFinal
  <1>17. StatusInv
    <2>1. IsBranch(peer.tree, Genesis)
      BY <1>1, <1>6, <1>16 DEF IsBranch
    <2>2. SentUpTo(Genesis) = 0
      BY DEF SentUpTo
    <2>3. StatusOK(peer)
      BY <1>1, <1>6, <1>16, <2>1, <2>2 DEF StatusOK
    <2> QED
      BY <1>7, <2>3 DEF StatusInv
  <1>18. OrderInv
    BY <1>2, <1>4 DEF OrderInv
  <1>19. BuildInv
    BY <1>1, <1>2, <1>5, <1>16 DEF BuildInv, IsBranch
  <1>20. MsgsInv
    <2>1. SentUpTo(Genesis) = 0
      BY DEF SentUpTo
    <2>2. peer.seq + 1 .. SentUpTo(local.hash) = {}
      BY <1>6, <1>8, <2>1
    <2> QED
      BY <1>3, <1>8, <2>2 DEF MsgsInv, MessagesAreFinal, MessagesAreKept
  <1>21. NeverPanics
    BY <1>2 DEF NeverPanics
  <1> QED
    BY <1>9, <1>10, <1>11, <1>12, <1>13, <1>14, <1>15, <1>17, <1>18, <1>19, <1>20, <1>21
       DEF IInv

\* A step of any of the threads, a fault or a restart keeps the invariant.
LEMMA NextKeeps ==
    ASSUME IInv, [Next]_vars
    PROVE  IInv'
  <1>1. CASE Node
    BY <1>1, NodeKeeps DEF Node
  <1>2. CASE Fetch
    BY <1>2, FetchKeeps
  <1>3. CASE Loop
    BY <1>3, ReceiveKeeps, ResumeKeeps, ReenterKeeps, ApplyKeeps, QueryBlockKeeps,
       UpdateStatusKeeps DEF Loop
  <1>4. CASE FinalizedStatus
    BY <1>4, FinalizedStatusKeeps
  <1>5. CASE Link
    BY <1>5, BuildBeginKeeps, BuildHeadKeeps, BuildEndKeeps, BuildMessageProofKeeps
       DEF Link
  <1>6. CASE BuildFails \/ Drop \/ Restart
    BY <1>6, BuildFailsKeeps, DropKeeps, RestartKeeps
  <1>7. CASE UNCHANGED vars
    <2>1. /\ UNCHANGED <<node, watch, loop, local, peer, heads, msgs>>
          /\ woken' = woken /\ told' = told /\ relayed' = relayed /\ build' = build
          /\ panicked' = panicked /\ faults' = faults
      BY <1>7 DEF vars, node
    <2>2. TypeOK /\ StatusInv /\ OrderInv /\ BuildInv /\ ChainInv /\ NeverPanics
      BY DEF IInv
    <2>3. Grows
      BY <2>1, <2>2, NodeStays
    <2>4. /\ StatusInv' /\ OrderInv' /\ BuildInv' /\ NeverPanics'
          /\ \A n \in Nat : Reached(n)' => Reached(n)
      BY <2>1, <2>3, LinkStays
    <2>5. TypeOK'
      BY <2>1, <2>2 DEF TypeOK, node
    <2> QED
      BY <2>1, <2>4, <2>5, LinkKeeps
  <1> QED
    BY <1>1, <1>2, <1>3, <1>4, <1>5, <1>6, <1>7 DEF Next

\* In every state of the receiver, whatever the node does to its chain and in
\* whatever order the threads run, fail and restart, the invariant holds.
THEOREM Invariance == Safe => []IInv
  <1>1. Init => IInv
    BY InitHolds
  <1>2. IInv /\ [Next]_vars => IInv'
    BY NextKeeps
  <1> QED
    BY <1>1, <1>2, PTL DEF Safe

\* The variables keep their types: caches never outgrow their size, no more relay
\* messages are under way than may be, no counter passes its bound.
THEOREM TypeCorrect == Safe => []TypeOK
  <1>1. IInv => TypeOK
    BY DEF IInv
  <1> QED
    BY <1>1, Invariance, PTL

\* The cache of heads up to the block that the receiver calls the latest
\* finalized one is on the finalized chain, although headers are fetched by
\* number while the node may still reorganise (receiver.go, loop and feed).
THEOREM CacheFinal == Safe => []CacheIsFinal
  <1>1. ASSUME IInv
        PROVE  CacheIsFinal
    BY <1>1 DEF IInv, SettledInv, Reached, CacheIsFinal, IsFinal
  <1> QED
    BY <1>1, Invariance, PTL

\* BuildBlockUpdate does not panic (receiver.go:481 and 495): each header it
\* reads from the cache is the child of the last one and fits the tree.
THEOREM NoPanic == Safe => []NeverPanics
  <1>1. IInv => NeverPanics
    BY DEF IInv
  <1> QED
    BY <1>1, Invariance, PTL

\* The height of every status, which counts finalities, is the number of the root
\* of its tree, which pruning gives it.
THEOREM HeightsAgree == Safe => []HeightIsRoot
  <1>1. ASSUME IInv
        PROVE  HeightIsRoot
    BY <1>1 DEF IInv, StatusInv, StatusOK, HeightIsRoot
  <1> QED
    BY <1>1, Invariance, PTL

\* In every tree, that of the contract, of the statuses under way and of the
\* update in progress, the root is final and all nodes are on one branch.
THEOREM TreesAreBranches == Safe => []TreeIsBranch
  <1>1. ASSUME IInv
        PROVE  TreeIsBranch
    <2>1. finalized \in Block /\ build.tree.root \in Block /\ build.parent \in Block
      BY <1>1 DEF IInv, TypeOK, Tree
    <2>2. ASSUME NEW tree, tree.root \in Block, NEW tip \in Block, IsBranch(tree, tip)
          PROVE  /\ IsAncestor(tree.root, finalized)
                 /\ tree.root \in tree.nodes
                 /\ \A a, b \in tree.nodes : IsAncestor(tree.root, a)
                                            /\ (IsAncestor(a, b) \/ IsAncestor(b, a))
      <3> DEFINE k == Number(tree.root)
      <3>1. /\ k \in 0 .. Number(tip) /\ tree = BranchTree(k, tip) /\ IsFinal(tree.root)
            /\ tree.root = AncestorAt(tip, k)
        BY <2>1, <2>2, BranchFacts
      <3> HIDE DEF k
      <3>2. tree.nodes = {AncestorAt(tip, n) : n \in k .. Number(tip)}
        BY <3>1 DEF BranchTree, Number
      <3>3. k \in Nat /\ Number(tip) \in Nat
        BY <2>2, GenesisIsBlock DEF k
      <3>4. \A n \in k .. Number(tip) : n \in 0 .. Number(tip)
        BY <3>3
      <3>5. \A n \in k .. Number(tip) :
               /\ AncestorAt(tip, n) \in Block /\ Number(AncestorAt(tip, n)) = n
               /\ IsAncestor(AncestorAt(tip, n), tip)
        BY <3>4, AncestorIsBlock
      <3>6. \A m, n \in k .. Number(tip) :
               m <= n => IsAncestor(AncestorAt(tip, m), AncestorAt(tip, n))
        BY <3>5, AncestorsAgree
      <3>7. k \in k .. Number(tip)
        BY <3>1, <3>3
      <3>8. \A m, n \in k .. Number(tip) : k <= m /\ (m <= n \/ n <= m)
        BY <3>3
      <3> QED
        BY <3>1, <3>2, <3>6, <3>7, <3>8 DEF IsFinal
    <2>3. ASSUME NEW st \in Statuses \cup {build}
          PROVE  /\ IsAncestor(st.tree.root, finalized)
                 /\ st.tree.root \in st.tree.nodes
                 /\ \A a, b \in st.tree.nodes : IsAncestor(st.tree.root, a)
                                               /\ (IsAncestor(a, b) \/ IsAncestor(b, a))
      <3>1. st.tree.root \in Block /\ \E tip \in Block : IsBranch(st.tree, tip)
        <4>1. CASE st \in Statuses
          BY <1>1, <4>1, StatusTypes DEF IInv, StatusInv, StatusOK
        <4>2. CASE st = build
          BY <1>1, <2>1, <4>2 DEF IInv, BuildInv
        <4> QED
          BY <4>1, <4>2
      <3> QED
        BY <2>2, <3>1
    <2> QED
      BY <2>3 DEF TreeIsBranch
  <1> QED
    BY <1>1, Invariance, PTL

\* No status counts a message whose block its root does not have below it.
THEOREM ProofsFinal == Safe => []ProofsAreFinal
  <1>1. ASSUME IInv
        PROVE  ProofsAreFinal
    BY <1>1 DEF IInv, StatusInv, StatusOK, ProofsAreFinal
  <1> QED
    BY <1>1, Invariance, PTL

\* Each message in the cache is one that the finalized chain has, in the block
\* under which it is cached.
THEOREM MessagesFinal == Safe => []MessagesAreFinal
  <1>1. IInv => MessagesAreFinal
    BY DEF IInv, MsgsInv
  <1> QED
    BY <1>1, Invariance, PTL

\* No message that the contract lacks is lost from the cache by a walk, a purge, a
\* failed query or a restart, as long as the cache holds all messages there are.
THEOREM MessagesKept == Safe => []MessagesAreKept
  <1>1. IInv => MessagesAreKept
    BY DEF IInv, MsgsInv
  <1> QED
    BY <1>1, Invariance, PTL
=============================================================================
