---------------------------- MODULE SenderProofs ----------------------------
(***************************************************************************)
(* Theorems about the loop of the sender, for any epoch, chain, forks and  *)
(* failures.                                                               *)
(*                                                                         *)
(* The finality the loop starts from is an epoch block that may not be     *)
(* final, and may be replaced.  What it tells the transactor is final all  *)
(* the same: it is the source of an attestation, above that block, in a    *)
(* header the node once had on its chain, and what any chain of the node   *)
(* has attested is on the finalized one (Sound).                           *)
(***************************************************************************)
EXTENDS Sender, BranchProofs

IsFinal(b) == IsAncestor(b, finalized)

Sound(b) == SoundFor(b, finalized)

ChainInv == IsAncestor(finalized, chain) /\ Sound(chain)

\* The blocks that watcher and loop hold were on a chain of the node, and a
\* header under way is not that of genesis.
HeadInv ==
    /\ Sound(sub.head) /\ Sound(loop.head) /\ Sound(loop.snap) /\ Sound(finality)
    /\ sub.pc # "ended" => sub.want > 0
    /\ sub.pc = "hand" => sub.head # Genesis
    /\ loop.pc = "apply" => loop.head # Genesis

\* The calculator stands at the last block, and its checkpoint is the finality
\* but for the moment in which a new one is on its way to the transactor.
LoopInv ==
    /\ StandsAt(loop.calc, loop.snap, Number(loop.calc.checkpoint))
    /\ IF loop.pc = "notify"
       THEN /\ loop.final = loop.calc.checkpoint
            /\ IsFinal(loop.final)
            /\ Number(finality) < Number(loop.final)
       ELSE finality = loop.calc.checkpoint

\* The transactor was last told of the finality, if it was told of any.
ToldInv ==
    /\ FinalitiesAscend
    /\ loop.pc \in {"start", "prepare"} => notified = << >>
    /\ notified # << >> => finality = notified[Len(notified)]

IInv == TypeOK /\ ChainInv /\ HeadInv /\ LoopInv /\ ToldInv

-----------------------------------------------------------------------------
(* Blocks of the sender.                                                   *)

\* Every body has an attestation.
LEMMA BodiesAttested == Attested(Bodies)
  BY DEF Attested, Attestations, Bodies

\* The genesis block, from which all others descend.
LEMMA GenesisIsBlock ==
    /\ Genesis \in Block /\ Number(Genesis) = 0
    /\ \A b \in Block : IsAncestor(Genesis, b) /\ Number(b) \in Nat
    /\ \A b \in Block : Number(b) = 0 <=> b = Genesis
    /\ \A f : SoundFor(Genesis, f)
  <1>1. /\ Genesis \in Seq(Bodies) /\ Number(Genesis) = 0
        /\ \A b \in Seq(Bodies) : IsAncestor(Genesis, b) /\ Number(b) \in Nat
        /\ \A b \in Seq(Bodies) : Number(b) = 0 <=> b = Genesis
        /\ \A f : SoundFor(Genesis, f)
    BY ONLY GenesisOf, Zenon
  <1>2. Block = Seq(Bodies)
    BY DEF Block
  <1> QED
    BY ONLY <1>1, <1>2, Zenon

\* The ancestor of a sound block at a height is sound.
LEMMA SoundAncestor ==
    ASSUME NEW b \in Block, NEW n \in 0 .. Number(b), NEW final, SoundFor(b, final)
    PROVE  /\ AncestorAt(b, n) \in Block
           /\ Number(AncestorAt(b, n)) = n
           /\ SoundFor(AncestorAt(b, n), final)
  <1>1. /\ AncestorAt(b, n) \in Block /\ Number(AncestorAt(b, n)) = n
        /\ IsAncestor(AncestorAt(b, n), b)
    BY AncestorOf DEF Block
  <1> QED
    BY <1>1, BodiesAttested, SoundBelow DEF Block

\* What is final on the finalized chain is sound.
LEMMA FinalIsSound ==
    ASSUME NEW a \in Block, NEW b \in Block, NEW final, SoundFor(b, final),
           IsAncestor(a, b)
    PROVE  SoundFor(a, final)
  BY BodiesAttested, SoundBelow DEF Block

-----------------------------------------------------------------------------
(* The node.                                                               *)

\* What was final and sound is so when the finalized chain has gone on.
LEMMA FinalStaysFinal ==
    ASSUME finalized \in Block, finalized' \in Block, IsAncestor(finalized, finalized')
    PROVE  /\ \A b \in Block : IsFinal(b) => IsAncestor(b, finalized')
           /\ \A b \in Block : Sound(b) => SoundFor(b, finalized')
  <1>1. \A b \in Block : IsFinal(b) => IsAncestor(b, finalized')
    BY AncestorTransitive DEF IsFinal, Block
  <1>2. \A b \in Block : Sound(b) => SoundFor(b, finalized')
    BY BodiesAttested, SoundOnwards DEF Sound, Block
  <1> QED
    BY <1>1, <1>2

\* Other steps than those of the node leave its chain alone.
LEMMA NodeStays ==
    ASSUME ChainInv, UNCHANGED node
    PROVE  /\ chain' = chain /\ finalized' = finalized /\ reorgs' = reorgs
           /\ ChainInv'
           /\ \A b : Sound(b) => SoundFor(b, finalized')
  <1>1. chain' = chain /\ finalized' = finalized /\ reorgs' = reorgs
    BY DEF node
  <1> QED
    BY <1>1 DEF ChainInv, Sound

\* A block is sealed, or the head is abandoned for a rival branch.
LEMMA NodeMoves ==
    ASSUME TypeOK, ChainInv, Node
    PROVE  /\ chain' \in Block /\ finalized' \in Block
           /\ IsAncestor(finalized, finalized')
           /\ ChainInv'
  <1>1. /\ chain \in Block /\ finalized \in Block /\ reorgs \in Nat
        /\ IsAncestor(finalized, chain) /\ SoundFor(chain, finalized)
    BY ConstantsAssumption DEF TypeOK, ChainInv, Sound
  <1>2. Attested(Bodies)
    BY BodiesAttested
  <1>3. CASE Mine
    <2> DEFINE Att(vote) == UpdateAttestation(AttestationOf(chain), Len(chain) + 1, vote)
    <2>1. PICK vote \in BOOLEAN :
             /\ chain' = Append(chain, [att |-> Att(vote), fork |-> reorgs])
             /\ finalized' = IF Att(vote).source > Number(finalized)
                             THEN AncestorAt(chain, Att(vote).source) ELSE finalized
      BY <1>3 DEF Mine
    <2> DEFINE body == [att |-> Att(vote), fork |-> reorgs]
    <2>2. /\ Att(vote) \in Attestations
          /\ Att(vote).source <= Att(vote).target
          /\ Att(vote).target < Len(chain) + 1
          /\ Att(vote).source \in 0 .. Len(chain)
      BY <1>1, <1>2, SealedAttestation DEF Block
    <2>3. body.att = Att(vote) /\ body.fork = reorgs
      OBVIOUS
    <2>4. /\ chain' = Append(chain, body)
          /\ finalized' = IF body.att.source > Number(finalized)
                          THEN AncestorAt(chain, body.att.source) ELSE finalized
      BY <2>1, <2>3
    <2>5. body \in Bodies
      BY <1>1, <2>2 DEF Bodies, Attestations
    <2>6. /\ body.att.source <= body.att.target
          /\ body.att.target < Len(chain) + 1
          /\ body.att.source \in 0 .. Len(chain)
      BY <2>2, <2>3
    <2> HIDE DEF body, Att
    <2>7. /\ chain' \in Block /\ finalized' \in Block
          /\ IsAncestor(finalized, finalized') /\ IsAncestor(finalized', chain')
          /\ SoundFor(chain', finalized')
      BY <1>1, <1>2, <2>4, <2>5, <2>6, SealFollows DEF Block
    <2> QED
      BY <2>7 DEF ChainInv, Sound
  <1>4. CASE Reorg
    <2>1. PICK n \in Number(finalized) .. Len(chain) - 1 :
             chain' = AncestorAt(chain, n) /\ finalized' = finalized
      BY <1>4 DEF Reorg
    <2>2. /\ AncestorAt(chain, n) \in Block
          /\ IsAncestor(finalized, AncestorAt(chain, n))
          /\ SoundFor(AncestorAt(chain, n), finalized)
      BY <1>1, <1>2, CutFollows DEF Block
    <2>3. IsAncestor(finalized, finalized)
      BY <1>1, AncestorReflexive DEF Block
    <2> QED
      BY <1>1, <2>1, <2>2, <2>3 DEF ChainInv, Sound
  <1> QED
    BY <1>3, <1>4 DEF Node

\* The node keeps the invariant: no fork is fresh enough to undo what the loop
\* holds.
LEMMA NodeKeeps ==
    ASSUME IInv, Node
    PROVE  IInv'
  <1>1. TypeOK /\ ChainInv /\ HeadInv /\ LoopInv /\ ToldInv
    BY DEF IInv
  <1>2. /\ chain' \in Block /\ finalized' \in Block
        /\ IsAncestor(finalized, finalized') /\ ChainInv'
    BY <1>1, NodeMoves
  <1>3. /\ sub' = sub /\ strays' = strays /\ faults' = faults /\ loop' = loop
        /\ finality' = finality /\ notified' = notified
    BY DEF Node, Mine, Reorg, SenderStays, watch
  <1>4. reorgs' \in 0 .. MaxReorgs
    <2>1. reorgs \in 0 .. MaxReorgs /\ MaxReorgs \in Nat
      BY <1>1, ConstantsAssumption DEF TypeOK
    <2>2. reorgs' = reorgs \/ (reorgs < MaxReorgs /\ reorgs' = reorgs + 1)
      BY DEF Node, Mine, Reorg
    <2> QED
      BY <2>1, <2>2
  <1>5. TypeOK'
    BY <1>1, <1>2, <1>3, <1>4 DEF TypeOK
  <1>6. /\ \A b \in Block : IsFinal(b) => IsAncestor(b, finalized')
        /\ \A b \in Block : Sound(b) => SoundFor(b, finalized')
    BY <1>1, <1>2, FinalStaysFinal DEF TypeOK
  <1>7. /\ sub.head \in Block /\ loop.head \in Block /\ loop.snap \in Block
        /\ finality \in Block /\ loop.final \in Block /\ notified \in Seq(Block)
    BY <1>1 DEF TypeOK, Producer
  <1>8. HeadInv'
    BY <1>1, <1>3, <1>6, <1>7 DEF HeadInv, Sound
  <1>9. LoopInv'
    BY <1>1, <1>3, <1>6, <1>7 DEF LoopInv, IsFinal
  <1>10. ToldInv'
    <2>1. \A i \in DOMAIN notified : notified[i] \in Block
      BY <1>7
    <2>2. FinalitiesAscend'
      BY <1>1, <1>3, <1>6, <2>1 DEF ToldInv, FinalitiesAscend, IsFinal
    <2> QED
      BY <1>1, <1>3, <2>2 DEF ToldInv
  <1> QED
    BY <1>2, <1>5, <1>8, <1>9, <1>10 DEF IInv

-----------------------------------------------------------------------------
(* The goroutines of the subscriptions.                                    *)

\* What a goroutine holds: a header that was on the node's chain, and a number
\* to ask for above that of genesis.
HoldsSound(p) ==
    /\ Sound(p.head)
    /\ p.pc # "ended" => p.want > 0
    /\ p.pc = "hand" => p.head # Genesis

\* A step of a goroutine.
LEMMA ProducerSteps ==
    ASSUME TypeOK, ChainInv, NEW p \in Producer,
           NEW q \in Produce(p, chain) \cup Fails(p)
    PROVE  /\ q \in Producer
           /\ q.unsubed = p.unsubed
           /\ p.unsubed => q.pc # "report"
           /\ HoldsSound(p) => HoldsSound(q)
  <1>1. /\ p.want \in Nat /\ p.head \in Block /\ p.unsubed \in BOOLEAN
        /\ p.pc \in {"test", "query", "hand", "fail", "report", "ended"}
    BY DEF Producer
  <1>2. CASE q.head = p.head /\ q.want = p.want
             /\ \E pc \in {"test", "query", "fail", "report", "ended"} :
                   q = [p EXCEPT !.pc = pc] /\ (p.unsubed => pc # "report")
             /\ p.pc # "ended"
    BY <1>1, <1>2 DEF HoldsSound, Producer
  <1>3. CASE q \in TestQuit(p)
    <2>1. p.pc = "test" /\ q = [p EXCEPT !.pc = IF p.unsubed THEN "ended" ELSE "query"]
      BY <1>3 DEF TestQuit
    <2>2. \E pc \in {"ended", "query"} : q = [p EXCEPT !.pc = pc]
      BY <2>1
    <2> QED
      BY <1>1, <1>2, <2>1, <2>2 DEF Producer
  <1>4. CASE q \in Answered(p, chain)
    <2>1. p.pc = "query"
      BY <1>4 DEF Answered
    <2>2. CASE p.want > Len(chain)
      <3>1. q = [p EXCEPT !.pc = "test"]
        BY <1>4, <2>1, <2>2 DEF Answered
      <3> QED
        BY <1>1, <1>2, <2>1, <3>1 DEF Producer
    <2>3. CASE ~(p.want > Len(chain))
      <3> DEFINE head == AncestorAt(chain, p.want)
      <3>1. q = [p EXCEPT !.pc = "hand", !.want = @ + 1, !.head = head]
        BY <1>4, <2>1, <2>3 DEF Answered
      <3>2. chain \in Block /\ Number(chain) = Len(chain) /\ Len(chain) \in Nat
        BY GenesisIsBlock DEF TypeOK, Number
      <3>3. p.want \in 0 .. Number(chain)
        BY <1>1, <2>3, <3>2
      <3>4. head \in Block /\ Number(head) = p.want /\ Sound(head)
        BY <3>2, <3>3, SoundAncestor DEF ChainInv, Sound
      <3>5. p.want > 0 => head # Genesis
        BY <3>4, GenesisIsBlock
      <3> DEFINE next == p.want + 1
      <3>6. next \in Nat /\ next > 0 /\ q = [p EXCEPT !.pc = "hand", !.want = next, !.head = head]
        BY <1>1, <3>1
      <3> HIDE DEF head, next
      <3>7. /\ q.pc = "hand" /\ q.want = next /\ q.head = head
            /\ q.unsubed = p.unsubed /\ q \in Producer
        BY <1>1, <3>4, <3>6 DEF Producer
      <3> QED
        BY <1>1, <2>1, <3>4, <3>5, <3>6, <3>7 DEF HoldsSound
    <2> QED
      BY <2>2, <2>3
  <1>5. CASE q \in Report(p)
    <2>1. p.pc = "fail" /\ q = [p EXCEPT !.pc = IF p.unsubed THEN "ended" ELSE "report"]
      BY <1>5 DEF Report
    <2>2. \E pc \in {"ended", "report"} :
             q = [p EXCEPT !.pc = pc] /\ (p.unsubed => pc # "report")
      BY <2>1
    <2> QED
      BY <1>1, <1>2, <2>1, <2>2 DEF Producer
  <1>6. CASE q \in Fails(p)
    <2>1. p.pc = "query" /\ q = [p EXCEPT !.pc = "fail"]
      BY <1>6 DEF Fails
    <2> QED
      BY <1>1, <1>2, <2>1 DEF Producer
  <1> QED
    BY <1>3, <1>4, <1>5, <1>6 DEF Produce

Strays == {p \in Producer : p.unsubed /\ p.pc # "report"}

\* A goroutine left behind stays one that was told to quit.
LEMMA StrayStays ==
    ASSUME TypeOK, ChainInv, NEW p \in strays, NEW q \in Produce(p, chain) \cup Fails(p),
           StrayBecomes(p, q)
    PROVE  strays' \subseteq Strays
  <1>1. strays \subseteq Strays /\ p \in Producer /\ p.unsubed
    BY DEF TypeOK, Strays
  <1>2. q \in Strays
    BY <1>1, ProducerSteps DEF Strays
  <1> QED
    BY <1>1, <1>2 DEF StrayBecomes

\* The watchers take a step, or a query of theirs fails.
LEMMA WatchKeeps ==
    ASSUME IInv, Watch \/ WatchStray \/ WatchFails
    PROVE  IInv'
  <1>1. TypeOK /\ ChainInv /\ HeadInv /\ LoopInv /\ ToldInv
    BY DEF IInv
  <1>2. /\ UNCHANGED node /\ loop' = loop /\ finality' = finality /\ notified' = notified
    BY DEF Watch, WatchStray, WatchFails
  <1>3. /\ chain' = chain /\ finalized' = finalized /\ reorgs' = reorgs /\ ChainInv'
        /\ \A b : Sound(b) => SoundFor(b, finalized')
    BY <1>1, <1>2, NodeStays
  <1>4. sub \in Producer /\ HoldsSound(sub)
    BY <1>1 DEF TypeOK, HeadInv, HoldsSound
  <1>5. /\ sub' \in Producer /\ HoldsSound(sub')
        /\ strays' \subseteq Strays
        /\ faults' \in 0 .. MaxFaults
    <2>1. strays \subseteq Strays /\ faults \in 0 .. MaxFaults /\ MaxFaults \in Nat
      BY <1>1, ConstantsAssumption DEF TypeOK, Strays
    <2>2. CASE Watch
      BY <1>1, <1>4, <2>1, <2>2, ProducerSteps DEF Watch
    <2>3. CASE WatchStray
      BY <1>1, <1>4, <2>1, <2>3, StrayStays DEF WatchStray
    <2>4. CASE WatchFails
      <3>1. faults' \in 0 .. MaxFaults
        BY <2>1, <2>4 DEF WatchFails
      <3>2. CASE \E p \in Fails(sub) : sub' = p /\ UNCHANGED strays
        BY <1>1, <1>4, <2>1, <3>1, <3>2, ProducerSteps
      <3>3. CASE \E p \in strays : \E q \in Fails(p) :
                    StrayBecomes(p, q) /\ UNCHANGED sub
        BY <1>1, <1>4, <3>1, <3>3, StrayStays
      <3> QED
        BY <2>4, <3>2, <3>3 DEF WatchFails
    <2> QED
      BY <2>2, <2>3, <2>4
  <1>6. TypeOK'
    BY <1>1, <1>2, <1>3, <1>5 DEF TypeOK, Strays
  <1>7. HeadInv'
    BY <1>1, <1>2, <1>3, <1>5 DEF HeadInv, HoldsSound, Sound
  <1>8. LoopInv'
    BY <1>1, <1>2, <1>3 DEF LoopInv, IsFinal
  <1>9. ToldInv'
    BY <1>1, <1>2, <1>3 DEF ToldInv, FinalitiesAscend
  <1> QED
    BY <1>3, <1>6, <1>7, <1>8, <1>9 DEF IInv

-----------------------------------------------------------------------------
(* The loop.                                                               *)

LoopType ==
    [pc : {"start", "prepare", "recv", "apply", "notify",
           "inconsistent", "error", "dead"},
     latest : Nat, head : Block, snap : Block,
     calc : [checkpoint : Block, feeds : Seq(Block)], final : Block]

\* What the steps of the loop that neither feed nor notify have to show.
LEMMA LoopKeeps ==
    ASSUME IInv, UNCHANGED node, notified' = notified,
           sub' \in Producer, HoldsSound(sub'), strays' \subseteq Strays,
           faults' \in 0 .. MaxFaults,
           loop' \in LoopType, finality' \in Block,
           Sound(loop'.head), Sound(loop'.snap), Sound(finality'),
           loop'.pc = "apply" => loop'.head # Genesis,
           StandsAt(loop'.calc, loop'.snap, Number(loop'.calc.checkpoint)),
           loop'.pc # "notify",
           finality' = loop'.calc.checkpoint,
           loop'.pc \in {"start", "prepare"} => notified = << >>,
           notified # << >> => finality' = finality
    PROVE  IInv'
  <1>1. TypeOK /\ ChainInv /\ HeadInv /\ LoopInv /\ ToldInv
    BY DEF IInv
  <1>2. /\ chain' = chain /\ finalized' = finalized /\ reorgs' = reorgs /\ ChainInv'
    BY <1>1, NodeStays
  <1>3. TypeOK'
    BY <1>1, <1>2 DEF TypeOK, Strays, LoopType
  <1>4. HeadInv'
    BY <1>2 DEF HeadInv, HoldsSound, Sound
  <1>5. LoopInv'
    BY DEF LoopInv
  <1>6. ToldInv'
    BY <1>1, <1>2 DEF ToldInv, FinalitiesAscend
  <1> QED
    BY <1>2, <1>3, <1>4, <1>5, <1>6 DEF IInv

\* The loop is entered with a sound block as the finality.
LEMMA EnterFacts ==
    ASSUME NEW b \in Block, Sound(b)
    PROVE  LET entered == EnterLoop(b)
           IN  /\ entered \in LoopType /\ entered.pc = "recv"
               /\ Sound(entered.head) /\ entered.snap = b
               /\ entered.calc.checkpoint = b
               /\ StandsAt(entered.calc, b, Number(b))
  <1>1. Genesis \in Block /\ Sound(Genesis) /\ Number(b) \in Nat
    BY GenesisIsBlock DEF Sound
  <1>2. << >> \in Seq(Block) /\ Len(<< >>) = 0
    BY EmptySeq
  <1>3. AncestorAt(b, Number(b)) = b
    BY AncestorAtSelf DEF Number, Block
  <1>4. StandsAt(Calculator(b, << >>), b, Number(b))
    <2>1. Number(b) = Len(b)
      BY DEF Number
    <2> QED
      BY <1>1, <1>2, <1>3, <2>1 DEF StandsAt, Calculator, Follows
  <1> QED
    BY <1>1, <1>2, <1>4 DEF EnterLoop, LoopType, Calculator

\* prepare: the number of the latest header, then the epoch block below it.
LEMMA PrepareKeeps ==
    ASSUME IInv, Latest \/ Prepare
    PROVE  IInv'
  <1>1. TypeOK /\ ChainInv /\ HeadInv /\ LoopInv /\ ToldInv
    BY DEF IInv
  <1>2. /\ sub \in Producer /\ HoldsSound(sub) /\ strays \subseteq Strays
        /\ faults \in 0 .. MaxFaults /\ loop \in LoopType /\ finality \in Block
        /\ chain \in Block /\ Sound(chain)
    BY <1>1 DEF TypeOK, HeadInv, HoldsSound, Strays, LoopType, ChainInv
  <1>3. Number(chain) = Len(chain) /\ Len(chain) \in Nat
    BY <1>2, GenesisIsBlock DEF Number
  <1>4. CASE Latest
    <2>1. /\ loop.pc = "start" /\ loop' = [loop EXCEPT !.pc = "prepare", !.latest = Len(chain)]
          /\ UNCHANGED node /\ sub' = sub /\ strays' = strays /\ faults' = faults
          /\ finality' = finality /\ notified' = notified
      BY <1>4 DEF Latest, watch
    <2>2. /\ loop' \in LoopType /\ loop'.pc = "prepare" /\ loop'.head = loop.head
          /\ loop'.snap = loop.snap /\ loop'.calc = loop.calc
      BY <1>2, <1>3, <2>1 DEF LoopType
    <2>3. /\ Sound(loop.head) /\ Sound(loop.snap) /\ Sound(finality)
          /\ StandsAt(loop.calc, loop.snap, Number(loop.calc.checkpoint))
          /\ finality = loop.calc.checkpoint /\ notified = << >>
      BY <1>1, <2>1 DEF HeadInv, LoopInv, ToldInv
    <2> QED
      BY <1>2, <2>1, <2>2, <2>3, LoopKeeps
  <1>5. CASE Prepare
    <2> DEFINE n == EpochBlock(loop.latest)
               base == AncestorAt(chain, n)
    <2>1. /\ loop.pc = "prepare" /\ UNCHANGED node /\ strays' = strays
          /\ faults' = faults /\ notified' = notified /\ notified = << >>
      BY <1>1, <1>5 DEF Prepare, ToldInv
    <2>2. CASE n <= Len(chain) /\ HasVote(base)
      <3>1. finality' = base /\ loop' = EnterLoop(base) /\ sub' = NewSubscription(n + 1)
        BY <1>5, <2>2 DEF Prepare
      <3>2. n \in 0 .. Number(chain)
        <4>1. loop.latest \in Nat /\ Epoch \in Nat \ {0}
          BY <1>2, ConstantsAssumption DEF LoopType
        <4>2. n \in Nat
          BY <4>1 DEF EpochBlock
        <4> QED
          BY <1>3, <2>2, <4>2
      <3> HIDE DEF n
      <3>3. base \in Block /\ Sound(base)
        BY <1>2, <3>2, SoundAncestor DEF Sound
      <3> HIDE DEF base
      <3>4. /\ loop' \in LoopType /\ loop'.pc = "recv"
            /\ Sound(loop'.head) /\ loop'.snap = base
            /\ loop'.calc.checkpoint = base
            /\ StandsAt(loop'.calc, base, Number(base))
        BY <3>1, <3>3, EnterFacts
      <3>5. sub' \in Producer /\ HoldsSound(sub')
        <4>1. n + 1 \in Nat /\ n + 1 > 0
          BY <1>3, <3>2
        <4>2. Genesis \in Block /\ Sound(Genesis)
          BY GenesisIsBlock DEF Sound
        <4> QED
          BY <3>1, <4>1, <4>2 DEF NewSubscription, Producer, HoldsSound
      <3> QED
        BY <1>2, <2>1, <3>1, <3>3, <3>4, <3>5, LoopKeeps
    <2>3. CASE ~(n <= Len(chain) /\ HasVote(base))
      <3>1. loop' = [loop EXCEPT !.pc = "dead"] /\ finality' = finality /\ sub' = sub
        BY <1>5, <2>3 DEF Prepare
      <3>2. /\ loop' \in LoopType /\ loop'.pc = "dead" /\ loop'.head = loop.head
            /\ loop'.snap = loop.snap /\ loop'.calc = loop.calc
        BY <1>2, <3>1 DEF LoopType
      <3>3. /\ Sound(loop.head) /\ Sound(loop.snap) /\ Sound(finality)
            /\ StandsAt(loop.calc, loop.snap, Number(loop.calc.checkpoint))
            /\ finality = loop.calc.checkpoint
        BY <1>1, <2>1 DEF HeadInv, LoopInv
      <3> QED
        BY <1>2, <2>1, <3>1, <3>2, <3>3, LoopKeeps
    <2> QED
      BY <2>2, <2>3
  <1> QED
    BY <1>4, <1>5

\* The loop takes a header or an error, and fails or ends.
LEMMA ReceiveKeeps ==
    ASSUME IInv, Receive \/ WatcherError \/ ApplyFails
    PROVE  IInv'
  <1>1. TypeOK /\ ChainInv /\ HeadInv /\ LoopInv /\ ToldInv
    BY DEF IInv
  <1>2. /\ sub \in Producer /\ HoldsSound(sub) /\ strays \subseteq Strays
        /\ faults \in 0 .. MaxFaults /\ loop \in LoopType /\ finality \in Block
    BY <1>1 DEF TypeOK, HeadInv, HoldsSound, Strays, LoopType
  <1>3. /\ UNCHANGED node /\ strays' = strays /\ finality' = finality /\ notified' = notified
        /\ loop.pc \in {"recv", "apply"}
    BY DEF Receive, WatcherError, ApplyFails, watch
  <1>4. /\ Sound(loop.head) /\ Sound(loop.snap) /\ Sound(finality)
        /\ StandsAt(loop.calc, loop.snap, Number(loop.calc.checkpoint))
        /\ finality = loop.calc.checkpoint
    BY <1>1, <1>3 DEF HeadInv, LoopInv
  <1>5. /\ sub' \in Producer /\ HoldsSound(sub') /\ faults' \in 0 .. MaxFaults
        /\ loop' \in LoopType /\ loop'.snap = loop.snap /\ loop'.calc = loop.calc
        /\ loop'.pc \in {"apply", "dead", "inconsistent", "error"}
        /\ Sound(loop'.head) /\ (loop'.pc = "apply" => loop'.head # Genesis)
    <2>1. CASE Receive
      <3>1. /\ sub.pc = "hand" /\ sub' = [sub EXCEPT !.pc = "test", !.head = Genesis]
            /\ loop' = [loop EXCEPT !.pc = "apply", !.head = sub.head]
            /\ faults' = faults
        BY <2>1 DEF Receive, Take
      <3>2. Genesis \in Block /\ Sound(Genesis)
        BY GenesisIsBlock DEF Sound
      <3>3. sub.head \in Block /\ Sound(sub.head) /\ sub.head # Genesis /\ sub.want > 0
        BY <1>2, <3>1 DEF HoldsSound, Producer
      <3>4. sub' \in Producer /\ HoldsSound(sub')
        BY <1>2, <3>1, <3>2, <3>3 DEF HoldsSound, Producer
      <3>5. /\ loop' \in LoopType /\ loop'.snap = loop.snap /\ loop'.calc = loop.calc
            /\ loop'.pc = "apply" /\ loop'.head = sub.head
        BY <1>2, <3>1, <3>3 DEF LoopType
      <3> QED
        BY <1>2, <3>1, <3>3, <3>4, <3>5
    <2>2. CASE WatcherError
      <3>1. /\ sub' = [sub EXCEPT !.pc = "ended", !.unsubed = TRUE]
            /\ loop' = [loop EXCEPT !.pc = "dead"] /\ faults' = faults
        BY <2>2 DEF WatcherError, Hear
      <3>2. sub' \in Producer /\ HoldsSound(sub')
        BY <1>2, <3>1 DEF HoldsSound, Producer
      <3>3. /\ loop' \in LoopType /\ loop'.snap = loop.snap /\ loop'.calc = loop.calc
            /\ loop'.pc = "dead" /\ loop'.head = loop.head
        BY <1>2, <3>1 DEF LoopType
      <3> QED
        BY <1>2, <1>4, <3>1, <3>2, <3>3
    <2>3. CASE ApplyFails
      <3>1. PICK pc \in {"inconsistent", "error"} :
               sub' = sub /\ loop' = [loop EXCEPT !.pc = pc]
        BY <2>3 DEF ApplyFails, watch
      <3>2. faults' \in 0 .. MaxFaults
        <4>1. faults \in 0 .. MaxFaults /\ MaxFaults \in Nat
          BY <1>2, ConstantsAssumption
        <4>2. faults' = faults \/ (faults < MaxFaults /\ faults' = faults + 1)
          BY <2>3 DEF ApplyFails
        <4> QED
          BY <4>1, <4>2
      <3>3. /\ loop' \in LoopType /\ loop'.snap = loop.snap /\ loop'.calc = loop.calc
            /\ loop'.pc = pc /\ loop'.head = loop.head
        BY <1>2, <3>1 DEF LoopType
      <3> QED
        BY <1>2, <1>4, <3>1, <3>2, <3>3
    <2> QED
      BY <2>1, <2>2, <2>3
  <1> QED
    BY <1>2, <1>3, <1>4, <1>5, LoopKeeps

\* The loop leaves its subscription: it is entered again at the finality, or
\* it ends.
LEMMA LeaveKeeps ==
    ASSUME IInv, Recover \/ GiveUp
    PROVE  IInv'
  <1>1. TypeOK /\ ChainInv /\ HeadInv /\ LoopInv /\ ToldInv
    BY DEF IInv
  <1>2. /\ sub \in Producer /\ HoldsSound(sub) /\ strays \subseteq Strays
        /\ faults \in 0 .. MaxFaults /\ loop \in LoopType /\ finality \in Block
    BY <1>1 DEF TypeOK, HeadInv, HoldsSound, Strays, LoopType
  <1>3. /\ UNCHANGED node /\ faults' = faults /\ finality' = finality /\ notified' = notified
        /\ loop.pc \in {"inconsistent", "error"} /\ CanUnsubscribe
    BY DEF Recover, GiveUp
  <1>4. /\ Sound(loop.head) /\ Sound(loop.snap) /\ Sound(finality)
        /\ StandsAt(loop.calc, loop.snap, Number(loop.calc.checkpoint))
        /\ finality = loop.calc.checkpoint
    BY <1>1, <1>3 DEF HeadInv, LoopInv
  <1>5. Genesis \in Block /\ Sound(Genesis) /\ Number(finality) \in Nat
    BY <1>2, GenesisIsBlock DEF Sound
  <1>6. [sub EXCEPT !.unsubed = TRUE] \in Strays
    BY <1>2, <1>3 DEF Strays, Producer, CanUnsubscribe
  <1>7. CASE Recover
    <2>1. loop' = EnterLoop(finality) /\ LeaveFor(NewSubscription(Number(finality) + 1))
      BY <1>7 DEF Recover
    <2>2. strays' \subseteq Strays /\ sub' = NewSubscription(Number(finality) + 1)
      BY <1>2, <1>6, <2>1 DEF LeaveFor
    <2>3. sub' \in Producer /\ HoldsSound(sub')
      <3>1. Number(finality) + 1 \in Nat /\ Number(finality) + 1 > 0
        BY <1>5
      <3> QED
        BY <1>5, <2>2, <3>1 DEF NewSubscription, Producer, HoldsSound
    <2>4. /\ loop' \in LoopType /\ loop'.pc = "recv"
          /\ Sound(loop'.head) /\ loop'.snap = finality
          /\ loop'.calc.checkpoint = finality
          /\ StandsAt(loop'.calc, finality, Number(finality))
      BY <1>2, <1>4, <2>1, EnterFacts
    <2> QED
      BY <1>2, <1>3, <1>4, <2>2, <2>3, <2>4, LoopKeeps
  <1>8. CASE GiveUp
    <2>1. loop' = [loop EXCEPT !.pc = "dead"] /\ LeaveFor(NoSubscription)
      BY <1>8 DEF GiveUp
    <2>2. strays' \subseteq Strays /\ sub' = NoSubscription
      BY <1>2, <1>6, <2>1 DEF LeaveFor
    <2>3. sub' \in Producer /\ HoldsSound(sub')
      BY <1>5, <2>2 DEF NoSubscription, NewSubscription, Producer, HoldsSound
    <2>4. /\ loop' \in LoopType /\ loop'.pc = "dead" /\ loop'.head = loop.head
          /\ loop'.snap = loop.snap /\ loop'.calc = loop.calc
      BY <1>2, <2>1 DEF LoopType
    <2> QED
      BY <1>2, <1>3, <1>4, <2>2, <2>3, <2>4, LoopKeeps
  <1> QED
    BY <1>7, <1>8

\* feed, on a header that extends the last block: the checkpoint stays, or it
\* moves up to a final block, the one the transactor will be told of.
LEMMA ApplyKeeps ==
    ASSUME IInv, Apply
    PROVE  IInv'
  <1>1. TypeOK /\ ChainInv /\ HeadInv /\ LoopInv /\ ToldInv
    BY DEF IInv
  <1>2. /\ loop \in LoopType /\ finality \in Block /\ finalized \in Block
        /\ loop.head \in Block /\ loop.snap \in Block /\ loop.calc.checkpoint \in Block
    BY <1>1 DEF TypeOK, LoopType
  <1> DEFINE b == loop.head
             k == Number(loop.calc.checkpoint)
             fed == Feed(loop.calc, b)
  <1>3. /\ UNCHANGED node /\ sub' = sub /\ strays' = strays /\ faults' = faults
        /\ finality' = finality /\ notified' = notified
        /\ loop.pc = "apply" /\ Parent(b) = loop.snap
        /\ loop' = IF fed.finalities = << >>
                   THEN [loop EXCEPT !.snap = b, !.head = Genesis,
                                     !.calc = fed.calc, !.pc = "recv"]
                   ELSE [loop EXCEPT !.snap = b, !.head = Genesis,
                                     !.calc = fed.calc, !.pc = "notify",
                                     !.final = fed.finalities[Len(fed.finalities)]]
    BY DEF Apply, watch
  <1>4. /\ chain' = chain /\ finalized' = finalized /\ reorgs' = reorgs /\ ChainInv'
        /\ \A a : Sound(a) => SoundFor(a, finalized')
    BY <1>1, <1>3, NodeStays
  <1>5. /\ Sound(b) /\ b # Genesis /\ finality = loop.calc.checkpoint
        /\ StandsAt(loop.calc, Parent(b), k)
    BY <1>1, <1>3 DEF HeadInv, LoopInv
  <1>6. PICK s \in k .. Number(b) - 1 :
           /\ fed.finalities \in Seq(Block)
           /\ fed.calc \in CalculatorOf(Bodies)
           /\ fed.calc.checkpoint = AncestorAt(b, s)
           /\ StandsAt(fed.calc, b, s)
           /\ AncestorAt(b, s) \in Block
           /\ Number(AncestorAt(b, s)) = s
           /\ s # k => IsAncestor(AncestorAt(b, s), finalized)
           /\ fed.finalities = << >> <=> s = k
           /\ s # k => Last(fed.finalities) = AncestorAt(b, s)
    <2>1. /\ b \in Seq(Bodies) /\ finalized \in Seq(Bodies) /\ k \in Nat
          /\ loop.calc \in CalculatorOf(Bodies)
      BY <1>2, GenesisIsBlock DEF Block, LoopType, CalculatorOf
    <2>2. SoundFor(b, finalized) /\ b # Genesis /\ StandsAt(loop.calc, Parent(b), k)
      BY <1>5 DEF Sound
    <2>3. Attested(Bodies)
      BY BodiesAttested
    <2> HIDE DEF b, k
    <2>4. LET f == Feed(loop.calc, b)
          IN  \E s \in k .. Number(b) - 1 :
                 /\ f.finalities \in Seq(Seq(Bodies))
                 /\ Len(f.finalities) = s - k
                 /\ Follows(f.finalities, b, k, s)
                 /\ f.calc \in CalculatorOf(Bodies)
                 /\ f.calc.checkpoint = AncestorAt(b, s)
                 /\ StandsAt(f.calc, b, s)
                 /\ AncestorAt(b, s) \in Seq(Bodies)
                 /\ Number(AncestorAt(b, s)) = s
                 /\ s # k => IsAncestor(AncestorAt(b, s), finalized)
                 /\ f.finalities = << >> <=> s = k
                 /\ s # k => Last(f.finalities) = AncestorAt(b, s)
      BY ONLY <2>1, <2>2, <2>3, FeedFollows, SMTT(30)
    <2> QED
      BY <2>4 DEF Block
  <1>7. s = k => AncestorAt(b, s) = loop.calc.checkpoint
    <2>1. /\ Parent(b) \in Block /\ IsAncestor(Parent(b), b)
          /\ k \in 0 .. Number(Parent(b))
          /\ loop.calc.checkpoint = AncestorAt(Parent(b), k)
      BY <1>2, <1>5, ParentOf DEF StandsAt, Number, Block
    <2>2. AncestorAt(b, k) = AncestorAt(Parent(b), k)
      BY <1>2, <2>1, AncestorShares DEF Block
    <2> QED
      BY <2>1, <2>2
  <1>8. Genesis \in Block /\ Sound(Genesis) /\ k \in Nat
    BY <1>2, GenesisIsBlock DEF Sound
  <1>9. fed.calc \in [checkpoint : Block, feeds : Seq(Block)]
    BY <1>6 DEF CalculatorOf, Block
  <1>10. /\ loop'.head = Genesis /\ loop'.snap = b /\ loop'.calc = fed.calc
         /\ loop' \in LoopType
         /\ loop'.pc = IF s = k THEN "recv" ELSE "notify"
         /\ s # k => loop'.final = AncestorAt(b, s)
    <2>1. CASE s = k
      <3>1. loop' = [loop EXCEPT !.snap = b, !.head = Genesis,
                                 !.calc = fed.calc, !.pc = "recv"]
        BY <1>3, <1>6, <2>1
      <3> HIDE DEF fed
      <3> QED
        BY <1>2, <1>8, <1>9, <2>1, <3>1 DEF LoopType
    <2>2. CASE s # k
      <3>1. fed.finalities[Len(fed.finalities)] = AncestorAt(b, s)
        BY <1>6, <2>2 DEF Last
      <3>2. loop' = [loop EXCEPT !.snap = b, !.head = Genesis, !.calc = fed.calc,
                                 !.pc = "notify", !.final = AncestorAt(b, s)]
        BY <1>3, <1>6, <2>2, <3>1
      <3>3. AncestorAt(b, s) \in Block
        BY <1>6
      <3> HIDE DEF fed
      <3> QED
        BY <1>2, <1>8, <1>9, <2>2, <3>2, <3>3 DEF LoopType
    <2> QED
      BY <2>1, <2>2
  <1> HIDE DEF fed, b
  <1>11. TypeOK'
    BY <1>1, <1>3, <1>4, <1>10 DEF TypeOK, LoopType
  <1>12. HeadInv'
    BY <1>1, <1>3, <1>4, <1>5, <1>8, <1>10 DEF HeadInv, Sound
  <1>13. LoopInv'
    <2>1. /\ loop'.calc.checkpoint = AncestorAt(b, s)
          /\ Number(loop'.calc.checkpoint) = s
          /\ StandsAt(loop'.calc, loop'.snap, s)
      BY <1>6, <1>10
    <2>2. CASE s = k
      BY <1>3, <1>5, <1>7, <1>10, <2>1, <2>2 DEF LoopInv
    <2>3. CASE s # k
      <3>1. Number(finality) = k /\ k < s
        BY <1>5, <1>6, <1>8, <2>3
      <3>2. IsAncestor(AncestorAt(b, s), finalized)
        BY <1>6, <2>3
      <3>3. loop'.pc = "notify" /\ loop'.final = AncestorAt(b, s)
        BY <1>10, <2>3
      <3> QED
        BY <1>3, <1>4, <2>1, <3>1, <3>2, <3>3 DEF LoopInv, IsFinal
    <2> QED
      BY <2>2, <2>3
  <1>14. ToldInv'
    BY <1>1, <1>3, <1>4, <1>10 DEF ToldInv, FinalitiesAscend
  <1> QED
    BY <1>4, <1>11, <1>12, <1>13, <1>14 DEF IInv

\* The transactor is told, and the finality moves.
LEMMA NotifyKeeps ==
    ASSUME IInv, NotifyFinality
    PROVE  IInv'
  <1>1. TypeOK /\ ChainInv /\ HeadInv /\ LoopInv /\ ToldInv
    BY DEF IInv
  <1>2. /\ loop \in LoopType /\ finality \in Block /\ finalized \in Block
        /\ loop.final \in Block /\ notified \in Seq(Block)
    BY <1>1 DEF TypeOK, LoopType
  <1>3. /\ UNCHANGED node /\ sub' = sub /\ strays' = strays /\ faults' = faults
        /\ loop.pc = "notify"
        /\ notified' = Append(notified, loop.final) /\ finality' = loop.final
        /\ loop' = [loop EXCEPT !.pc = "recv", !.final = Genesis]
    BY DEF NotifyFinality, watch
  <1>4. /\ chain' = chain /\ finalized' = finalized /\ reorgs' = reorgs /\ ChainInv'
        /\ \A a : Sound(a) => SoundFor(a, finalized')
    BY <1>1, <1>3, NodeStays
  <1>5. /\ loop.final = loop.calc.checkpoint /\ IsFinal(loop.final)
        /\ Number(finality) < Number(loop.final)
        /\ StandsAt(loop.calc, loop.snap, Number(loop.calc.checkpoint))
    BY <1>1, <1>3 DEF LoopInv
  <1>6. Genesis \in Block
    BY GenesisIsBlock
  <1>7. /\ loop' \in LoopType /\ loop'.pc = "recv" /\ loop'.head = loop.head
        /\ loop'.snap = loop.snap /\ loop'.calc = loop.calc
    BY <1>2, <1>3, <1>6 DEF LoopType
  <1>8. Sound(loop.final)
    <2>1. chain \in Block /\ SoundFor(chain, finalized) /\ IsAncestor(finalized, chain)
      BY <1>1 DEF TypeOK, ChainInv, Sound
    <2>2. IsAncestor(loop.final, chain)
      BY <1>2, <1>5, <2>1, AncestorTransitive DEF IsFinal, Block
    <2> QED
      BY <1>2, <2>1, <2>2, FinalIsSound DEF Sound
  <1>9. /\ notified' \in Seq(Block) /\ Len(notified') = Len(notified) + 1
        /\ \A i \in 1 .. Len(notified) : notified'[i] = notified[i]
        /\ notified'[Len(notified) + 1] = loop.final
        /\ Len(notified) \in Nat
    BY <1>2, <1>3, AppendProperties, LenProperties
  <1>10. TypeOK'
    BY <1>1, <1>2, <1>3, <1>4, <1>7, <1>9 DEF TypeOK, LoopType
  <1>11. HeadInv'
    BY <1>1, <1>3, <1>4, <1>7, <1>8 DEF HeadInv, Sound
  <1>12. LoopInv'
    BY <1>3, <1>5, <1>7 DEF LoopInv
  <1>13. FinalitiesAscend'
    <2> SUFFICES ASSUME NEW i \in 1 .. Len(notified) + 1
                 PROVE  /\ IsAncestor(notified'[i], finalized)
                        /\ i > 1 => Number(notified'[i - 1]) < Number(notified'[i])
      BY <1>4, <1>9 DEF FinalitiesAscend
    <2>1. CASE i \in 1 .. Len(notified)
      <3>1. i > 1 => i - 1 \in 1 .. Len(notified)
        BY <1>9, <2>1
      <3> QED
        BY <1>1, <1>9, <2>1, <3>1 DEF ToldInv, FinalitiesAscend
    <2>2. CASE i = Len(notified) + 1
      <3>1. IsAncestor(notified'[i], finalized)
        BY <1>5, <1>9, <2>2 DEF IsFinal
      <3>2. ASSUME i > 1 PROVE Number(notified'[i - 1]) < Number(notified'[i])
        <4>1. Len(notified) \in 1 .. Len(notified) /\ i - 1 = Len(notified)
              /\ notified # << >>
          BY <1>9, <2>2, <3>2, EmptySeq
        <4>2. notified'[i - 1] = finality
          BY <1>1, <1>9, <4>1 DEF ToldInv
        <4> QED
          BY <1>5, <1>9, <2>2, <4>2
      <3> QED
        BY <3>1, <3>2
    <2> QED
      BY <1>9, <2>1, <2>2
  <1>14. ToldInv'
    BY <1>3, <1>7, <1>9, <1>13 DEF ToldInv
  <1> QED
    BY <1>4, <1>10, <1>11, <1>12, <1>14 DEF IInv

-----------------------------------------------------------------------------
(* The theorems.                                                           *)

\* Everything begins with genesis.
LEMMA InitHolds == Init => IInv
  <1> SUFFICES ASSUME Init PROVE IInv
    OBVIOUS
  <1>1. /\ chain = Genesis /\ finalized = Genesis /\ reorgs = 0 /\ faults = 0
        /\ sub = [pc |-> "ended", want |-> 0, head |-> Genesis, unsubed |-> FALSE]
        /\ strays = {} /\ finality = Genesis /\ notified = << >>
        /\ loop = [pc |-> "start", latest |-> 0, head |-> Genesis, snap |-> Genesis,
                   calc |-> Calculator(Genesis, << >>), final |-> Genesis]
    BY DEF Init, NoSubscription, NewSubscription, Idle
  <1>2. Genesis \in Block /\ Sound(Genesis) /\ Number(Genesis) = 0
        /\ IsAncestor(Genesis, Genesis)
    BY GenesisIsBlock DEF Sound
  <1>3. << >> \in Seq(Block) /\ Len(<< >>) = 0
    BY EmptySeq
  <1>4. EnterLoop(Genesis).calc = Calculator(Genesis, << >>)
    BY DEF EnterLoop
  <1>5. Calculator(Genesis, << >>).checkpoint = Genesis
    BY DEF Calculator
  <1>6. StandsAt(Calculator(Genesis, << >>), Genesis, 0)
    BY <1>2, <1>4, EnterFacts
  <1>7. Calculator(Genesis, << >>) \in [checkpoint : Block, feeds : Seq(Block)]
    BY <1>2, <1>3 DEF Calculator
  <1>8. TypeOK
    <2>1. reorgs \in 0 .. MaxReorgs /\ faults \in 0 .. MaxFaults
      BY <1>1, ConstantsAssumption
    <2> QED
      BY <1>1, <1>2, <1>3, <1>7, <2>1 DEF TypeOK, Producer
  <1>9. ChainInv
    BY <1>1, <1>2 DEF ChainInv
  <1>10. HeadInv
    BY <1>1, <1>2 DEF HeadInv
  <1>11. LoopInv
    BY <1>1, <1>2, <1>5, <1>6 DEF LoopInv
  <1>12. ToldInv
    BY <1>1, <1>3 DEF ToldInv, FinalitiesAscend
  <1> QED
    BY <1>8, <1>9, <1>10, <1>11, <1>12 DEF IInv

\* Each step keeps the invariant.
LEMMA NextKeeps ==
    ASSUME IInv, [Next]_vars
    PROVE  IInv'
  <1>1. CASE Node
    BY <1>1, NodeKeeps
  <1>2. CASE Watch \/ WatchStray \/ WatchFails
    BY <1>2, WatchKeeps
  <1>3. CASE Loop
    BY <1>3, PrepareKeeps, ReceiveKeeps, ApplyKeeps, NotifyKeeps, LeaveKeeps DEF Loop
  <1>4. CASE UNCHANGED vars
    <2>1. UNCHANGED <<sub, strays, chain, finalized, reorgs, faults, loop, finality, notified>>
      BY <1>4 DEF vars
    <2> QED
      BY <2>1 DEF IInv, TypeOK, ChainInv, HeadInv, LoopInv, ToldInv, FinalitiesAscend,
                  Sound, IsFinal
  <1> QED
    BY <1>1, <1>2, <1>3, <1>4 DEF Next

\* In every state of the sender's loop, whatever the node does to its chain and
\* however the watchers are interleaved with it, the invariant holds.
THEOREM Invariance == Safe => []IInv
  <1>1. IInv /\ [Next]_vars => IInv'
    BY NextKeeps
  <1> QED
    BY <1>1, InitHolds, PTL DEF Safe

\* The variables keep their types, and a watcher that was left behind never
\* reports (subscription.go).
THEOREM TypeCorrect == Safe => []TypeOK
  <1>1. IInv => TypeOK
    BY DEF IInv
  <1> QED
    BY <1>1, Invariance, PTL

\* watchBlockFinalities tells the transactor of final blocks only, each above
\* the last one, also after it was entered again (sender.go).
THEOREM FinalitiesSafety == Safe => []FinalitiesAscend
  <1>1. IInv => FinalitiesAscend
    BY DEF IInv, ToldInv
  <1> QED
    BY <1>1, Invariance, PTL
=============================================================================
