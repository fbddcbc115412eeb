---------------------------- MODULE BranchProofs ----------------------------
(***************************************************************************)
(* What the proofs of the receiver and of the sender need to know about    *)
(* branches.  The finality calculator, fed with the blocks of a branch one *)
(* by one, always has the blocks between its checkpoint and the last of    *)
(* them, and it moves its checkpoint to the source of an attestation on    *)
(* that branch.  A block tree that is one branch stays one when a child is *)
(* added, when it is pruned, and when it is encoded and decoded.           *)
(***************************************************************************)
EXTENDS Finality, BlockTree, BlocksProofs, FiniteSetTheorems

Attestations == [source : Nat, target : Nat]

\* The attestations of a branch name blocks below the block that has them.
Bounded(b) == \A n \in 1 .. Len(b) : b[n].att.source < n

\* feeds are the blocks of b above height `from', up to height `to'.
Follows(feeds, b, from, to) ==
    /\ Len(feeds) = to - from
    /\ \A i \in 1 .. to - from : feeds[i] = AncestorAt(b, from + i)

\* The calculator was fed up to b since its checkpoint, the block of height k.
StandsAt(calc, b, k) ==
    /\ k \in 0 .. Len(b)
    /\ calc.checkpoint = AncestorAt(b, k)
    /\ Follows(calc.feeds, b, k, Len(b))

-----------------------------------------------------------------------------

\* The attestation of the ancestor at height n is the one block n has.
LEMMA AttestationAt ==
    ASSUME NEW S, NEW b \in Seq(S), NEW n \in 1 .. Len(b)
    PROVE  AttestationOf(AncestorAt(b, n)) = b[n].att
  <1>1. /\ Len(AncestorAt(b, n)) = n
        /\ AncestorAt(b, n)[n] = b[n]
    BY AncestorAtIsAncestor
  <1>2. AncestorAt(b, n) # Genesis
    BY <1>1, EmptySeq DEF Genesis
  <1> QED
    BY <1>1, <1>2 DEF AttestationOf, Body

\* calculate stays at the checkpoint or goes to a source on the branch, never
\* below the checkpoint.
LEMMA CalculateOnBranch ==
    ASSUME NEW S, \A body \in S : body.att \in Attestations,
           NEW b \in Seq(S), Bounded(b), NEW k \in 0 .. Len(b)
    PROVE  \E s \in k .. Len(b) :
              /\ Calculate(AncestorAt(b, k), b) = AncestorAt(b, s)
              /\ s # k => \E n \in 1 .. Len(b) : b[n].att.source = s
  <1> DEFINE c == AncestorAt(b, k)
             Att(n) == AttestationOf(AncestorAt(b, n))
             TooOld(n) == Att(n).source < Number(c)
             Decides(n) == TooOld(n) \/ Consecutive(Att(n))
             finals == {n \in Number(c) + 1 .. Number(b) :
                           /\ Consecutive(Att(n)) /\ ~TooOld(n)
                           /\ \A m \in n + 1 .. Number(b) : ~Decides(m)}
             n0 == CHOOSE n \in finals : TRUE
  <1>1. Number(c) = k /\ Len(b) \in Nat /\ Number(b) = Len(b)
    BY AncestorAtIsAncestor, LenProperties DEF Number
  <1>2. \A n \in 1 .. Len(b) : Att(n) = b[n].att /\ b[n].att \in Attestations
    BY AttestationAt, ElementOfSeq
  <1>3. Calculate(c, b) = IF finals = {} THEN c ELSE AncestorAt(b, Att(n0).source)
    BY DEF Calculate
  <1>4. CASE finals = {}
    BY <1>1, <1>3, <1>4
  <1>5. CASE finals # {}
    <2>1. n0 \in finals
      BY <1>5
    <2>2. n0 \in 1 .. Len(b) /\ ~(Att(n0).source < k)
      BY <1>1, <2>1
    <2> HIDE DEF n0, finals
    <2>3. Att(n0) = b[n0].att /\ b[n0].att.source \in Nat /\ b[n0].att.source < n0
      BY <1>2, <2>2 DEF Bounded, Attestations
    <2> DEFINE s == b[n0].att.source
    <2>4. s \in k .. Len(b)
      BY <1>1, <2>2, <2>3
    <2>5. Calculate(c, b) = AncestorAt(b, s)
      BY <1>3, <1>5, <2>3
    <2> QED
      BY <2>2, <2>4, <2>5
  <1> QED
    BY <1>4, <1>5

\* The only hit of a search is its least one.
LEMMA LeastOfOne ==
    ASSUME NEW i \in Nat
    PROVE  Min({i}) = i
  BY DEF Min

\* feed: the calculator that stands at the parent of b comes to stand at b, and
\* returns the blocks its checkpoint has passed.
LEMMA FeedAdvances ==
    ASSUME NEW S, \A body \in S : body.att \in Attestations,
           NEW b \in Seq(S), Bounded(b), Len(b) > 0,
           NEW calc, calc.feeds \in Seq(Seq(S)),
           NEW k \in 0 .. Len(b) - 1,
           calc.checkpoint = AncestorAt(b, k),
           Follows(calc.feeds, b, k, Len(b) - 1)
    PROVE  LET fed == Feed(calc, b)
           IN  \E s \in k .. Len(b) :
                  /\ fed.finalities \in Seq(Seq(S))
                  /\ Follows(fed.finalities, b, k, s)
                  /\ fed.calc = Calculator(AncestorAt(b, s), fed.calc.feeds)
                  /\ fed.calc.feeds \in Seq(Seq(S))
                  /\ Follows(fed.calc.feeds, b, s, Len(b))
                  /\ s # k => \E n \in 1 .. Len(b) : b[n].att.source = s
  <1> DEFINE feeds == Append(calc.feeds, b)
             finality == Calculate(calc.checkpoint, b)
             hits == {i \in DOMAIN feeds : feeds[i] = finality}
             cut == IF hits = {} THEN 0 ELSE Min(hits)
             N == Len(b)
  <1>1. N \in Nat \ {0} /\ k \in 0 .. N
    BY LenProperties
  <1>2. PICK s \in k .. N :
            /\ finality = AncestorAt(b, s)
            /\ s # k => \E n \in 1 .. N : b[n].att.source = s
    BY <1>1, CalculateOnBranch
  <1>3. /\ feeds \in Seq(Seq(S))
        /\ Len(feeds) = N - k
        /\ \A i \in 1 .. N - k : feeds[i] = AncestorAt(b, k + i)
    <2>1. /\ feeds \in Seq(Seq(S)) /\ Len(feeds) = Len(calc.feeds) + 1
          /\ \A i \in 1 .. Len(calc.feeds) : feeds[i] = calc.feeds[i]
          /\ feeds[Len(calc.feeds) + 1] = b
      BY AppendProperties
    <2>2. AncestorAt(b, N) = b
      <3>1. N \in 0 .. Len(b)
        BY <1>1
      <3>2. /\ AncestorAt(b, N) \in Seq(S) /\ Len(AncestorAt(b, N)) = N
            /\ \A i \in 1 .. N : AncestorAt(b, N)[i] = b[i]
        BY <3>1, AncestorAtIsAncestor
      <3> QED
        BY <3>2, SeqEqual
    <2>3. Len(calc.feeds) = N - 1 - k
      BY DEF Follows
    <2>4. ASSUME NEW i \in 1 .. N - k
          PROVE  feeds[i] = AncestorAt(b, k + i)
      <3>1. CASE i = N - k
        <4>1. k + i = N /\ i = Len(calc.feeds) + 1
          BY <1>1, <2>3, <3>1
        <4> QED
          BY <2>1, <2>2, <4>1
      <3>2. CASE i # N - k
        <4>1. i \in 1 .. N - 1 - k
          BY <1>1, <3>2
        <4> QED
          BY <2>1, <2>3, <4>1 DEF Follows
      <3> QED
        BY <3>1, <3>2
    <2> QED
      BY <1>1, <2>1, <2>3, <2>4
  <1>4. cut = s - k
    <2>1. DOMAIN feeds = 1 .. N - k
      BY <1>3, LenProperties
    <2>2. \A i \in 1 .. N - k : feeds[i] = finality => i = s - k
      <3> SUFFICES ASSUME NEW i \in 1 .. N - k, feeds[i] = finality
                   PROVE  i = s - k
        OBVIOUS
      <3>1. k + i \in 0 .. N /\ s \in 0 .. N
        BY <1>1
      <3>2. AncestorAt(b, k + i) = AncestorAt(b, s)
        BY <1>2, <1>3
      <3>3. k + i = s
        BY <3>1, <3>2, AncestorsDiffer
      <3> QED
        BY <3>3
    <2>3. CASE s = k
      <3>1. hits = {}
        BY <2>1, <2>2, <2>3
      <3> QED
        BY <1>1, <2>3, <3>1
    <2>4. CASE s # k
      <3>1. s - k \in 1 .. N - k /\ k + (s - k) = s
        BY <1>1, <2>4
      <3>2. feeds[s - k] = finality
        BY <1>2, <1>3, <3>1
      <3>3. hits = {s - k}
        BY <2>1, <2>2, <3>1, <3>2
      <3>4. Min({s - k}) = s - k
        BY <3>1, LeastOfOne
      <3>5. cut = Min(hits)
        BY <3>3
      <3> HIDE DEF cut, hits
      <3> QED
        BY <3>3, <3>4, <3>5
    <2> QED
      BY <2>3, <2>4
  <1> DEFINE done == SubSeq(feeds, 1, cut)
             rest == SubSeq(feeds, cut + 1, Len(feeds))
  <1>5. Feed(calc, b) = [finalities |-> done, calc |-> Calculator(finality, rest)]
    BY DEF Feed
  <1> HIDE DEF feeds, finality, hits, cut
  <1> HIDE DEF done, rest
  <1>6. cut \in 0 .. N - k /\ Len(feeds) = N - k
    BY <1>1, <1>3, <1>4
  <1>7. \A i \in 1 .. N - k : feeds[i] \in Seq(S)
    BY <1>3, ElementOfSeq
  <1>8. /\ done \in Seq(Seq(S)) /\ Len(done) = cut
        /\ \A i \in 1 .. cut : done[i] = feeds[i]
    <2>1. \A i \in 1 .. cut : feeds[i] \in Seq(S)
      BY <1>1, <1>6, <1>7
    <2>2. /\ done \in Seq(Seq(S))
          /\ Len(done) = IF 1 <= cut THEN cut - 1 + 1 ELSE 0
          /\ \A i \in 1 .. cut - 1 + 1 : done[i] = feeds[1 + i - 1]
      BY <1>1, <1>6, <2>1, SubSeqProperties DEF done
    <2> QED
      BY <1>1, <1>6, <2>2
  <1>9. /\ rest \in Seq(Seq(S)) /\ Len(rest) = N - k - cut
        /\ \A i \in 1 .. N - k - cut : rest[i] = feeds[cut + i]
    <2>1. \A i \in cut + 1 .. Len(feeds) : feeds[i] \in Seq(S)
      BY <1>1, <1>6, <1>7
    <2>2. /\ rest \in Seq(Seq(S))
          /\ Len(rest) = IF cut + 1 <= Len(feeds) THEN Len(feeds) - (cut + 1) + 1 ELSE 0
          /\ \A i \in 1 .. Len(feeds) - (cut + 1) + 1 : rest[i] = feeds[(cut + 1) + i - 1]
      BY <1>1, <1>6, <2>1, SubSeqProperties DEF rest
    <2> QED
      BY <1>1, <1>6, <2>2
  <1>10. Follows(done, b, k, s)
    <2>1. s \in Nat /\ k \in Nat /\ s <= N /\ cut = s - k
      BY <1>1, <1>4
    <2> HIDE DEF N
    <2>2. \A i \in 1 .. s - k : i \in 1 .. N - k /\ i \in 1 .. cut
      BY <1>1, <2>1
    <2>3. \A i \in 1 .. s - k : done[i] = AncestorAt(b, k + i)
      BY <1>3, <1>8, <2>2
    <2> QED
      BY <1>8, <2>1, <2>3 DEF Follows
  <1>11. Follows(rest, b, s, N)
    <2>1. \A i \in 1 .. N - s : cut + i \in 1 .. N - k /\ k + (cut + i) = s + i
      BY <1>1, <1>4
    <2>2. \A i \in 1 .. N - s : rest[i] = AncestorAt(b, s + i)
      BY <1>1, <1>3, <1>4, <1>9, <2>1
    <2>3. Len(rest) = N - s
      BY <1>1, <1>4, <1>9
    <2> QED
      BY <2>2, <2>3 DEF Follows
  <1>12. /\ Feed(calc, b).finalities = done
         /\ Feed(calc, b).calc = Calculator(AncestorAt(b, s), Feed(calc, b).calc.feeds)
         /\ Feed(calc, b).calc.feeds = rest
    BY <1>2, <1>5 DEF Calculator
  <1> QED
    BY <1>2, <1>8, <1>9, <1>10, <1>11, <1>12

-----------------------------------------------------------------------------

\* A tree that is one branch: the blocks of b from height k up.
BranchTree(k, b) == [root  |-> AncestorAt(b, k),
                     nodes |-> {AncestorAt(b, n) : n \in k .. Len(b)}]

\* The sequence of a set of one element.
LEMMA SeqOfOne ==
    ASSUME NEW x
    PROVE  SetToSeq({x}) = <<x>>
  <1>1. Cardinality({x}) = 1
    BY FS_Singleton
  <1>2. SetToSeq({x}) = CHOOSE f \in [1 .. 1 -> {x}] : IsInjective(f)
    BY <1>1 DEF SetToSeq
  <1>3. <<x>> \in [1 .. 1 -> {x}] /\ \A f \in [1 .. 1 -> {x}] : f = <<x>>
    OBVIOUS
  <1>4. IsInjective(<<x>>)
    BY <1>3 DEF IsInjective
  <1> QED
    BY <1>2, <1>3, <1>4

\* The sequence of the empty set.
LEMMA SeqOfNone == SetToSeq({}) = << >>
  <1>1. Cardinality({}) = 0
    BY FS_EmptySet
  <1>2. SetToSeq({}) = CHOOSE f \in [1 .. 0 -> {}] : IsInjective(f)
    BY <1>1 DEF SetToSeq
  <1>3. << >> \in [1 .. 0 -> {}] /\ \A f \in [1 .. 0 -> {}] : f = << >>
    OBVIOUS
  <1>4. IsInjective(<< >>)
    BY <1>3 DEF IsInjective
  <1> QED
    BY <1>2, <1>3, <1>4

\* Sequences of one element, and an empty one behind them, one after the other.
LEMMA FlattenOnes ==
    ASSUME NEW S, NEW d \in Nat \ {0}, NEW ones \in Seq(S), Len(ones) = d,
           NEW seqs, Len(seqs) = d + 1,
           \A i \in 1 .. d : seqs[i] = <<ones[i]>>,
           seqs[d + 1] = << >>
    PROVE  FlattenSeq(seqs) = ones
  <1> DEFINE Step(f) == [i \in 1 .. Len(seqs) |->
                           IF i = 1 THEN seqs[i] ELSE f[i - 1] \o seqs[i]]
             flatten == CHOOSE f : f = Step(f)
             cut(i) == IF i <= d THEN i ELSE d
             part == [i \in 1 .. d + 1 |-> SubSeq(ones, 1, cut(i))]
  <1>1. Len(seqs) # 0
    OBVIOUS
  <1>2. FlattenSeq(seqs) = flatten[Len(seqs)]
    BY <1>1, Zenon DEF FlattenSeq
  <1>3. \A i \in 1 .. d : ones[i] \in S
    BY ElementOfSeq
  <1>4. ASSUME NEW i \in 1 .. d + 1
        PROVE  /\ part[i] \in Seq(S) /\ Len(part[i]) = cut(i)
               /\ \A j \in 1 .. cut(i) : part[i][j] = ones[j]
    <2>1. cut(i) \in 1 .. d
      OBVIOUS
    <2> HIDE DEF cut
    <2>2. \A j \in 1 .. cut(i) : ones[j] \in S
      BY <1>3, <2>1
    <2>3. /\ SubSeq(ones, 1, cut(i)) \in Seq(S)
          /\ Len(SubSeq(ones, 1, cut(i))) = IF 1 <= cut(i) THEN cut(i) - 1 + 1 ELSE 0
          /\ \A j \in 1 .. cut(i) - 1 + 1 : SubSeq(ones, 1, cut(i))[j] = ones[1 + j - 1]
      BY <2>1, <2>2, SubSeqProperties
    <2> QED
      BY <2>1, <2>3
  <1> HIDE DEF part
  <1>5. part = Step(part)
    <2>1. part = [i \in 1 .. d + 1 |-> part[i]]
      BY DEF part
    <2>2. ASSUME NEW i \in 1 .. d + 1
          PROVE  part[i] = IF i = 1 THEN seqs[i] ELSE part[i - 1] \o seqs[i]
      <3>1. CASE i = 1
        <4>1. seqs[1] = <<ones[1]>> /\ <<ones[1]>> \in Seq(S)
          BY <1>3
        <4>2. Len(part[1]) = 1 /\ part[1][1] = ones[1] /\ part[1] \in Seq(S)
          <5>1. 1 \in 1 .. d + 1 /\ cut(1) = 1
            OBVIOUS
          <5> HIDE DEF cut
          <5>2. /\ part[1] \in Seq(S) /\ Len(part[1]) = 1
                /\ \A j \in 1 .. 1 : part[1][j] = ones[j]
            BY <1>4, <5>1
          <5> QED
            BY <5>2
        <4>3. Len(<<ones[1]>>) = 1 /\ <<ones[1]>>[1] = ones[1]
          OBVIOUS
        <4>4. part[1] = <<ones[1]>>
          BY <4>1, <4>2, <4>3, SeqEqual
        <4> QED
          BY <3>1, <4>1, <4>4
      <3>2. CASE i # 1 /\ i <= d
        <4>1. /\ i - 1 \in 1 .. d + 1 /\ cut(i - 1) = i - 1 /\ cut(i) = i
              /\ i \in 1 .. d
          BY <3>2
        <4>2. seqs[i] = <<ones[i]>> /\ <<ones[i]>> \in Seq(S)
              /\ Len(<<ones[i]>>) = 1 /\ <<ones[i]>>[1] = ones[i]
          BY <1>3, <4>1
        <4>3. /\ part[i - 1] \in Seq(S) /\ Len(part[i - 1]) = i - 1
              /\ \A j \in 1 .. i - 1 : part[i - 1][j] = ones[j]
          BY <1>4, <4>1
        <4>4. /\ part[i] \in Seq(S) /\ Len(part[i]) = i
              /\ \A j \in 1 .. i : part[i][j] = ones[j]
          BY <1>4, <4>1
        <4> DEFINE both == part[i - 1] \o seqs[i]
        <4> DEFINE p == part[i - 1]
                   q == seqs[i]
        <4>5. /\ both \in Seq(S) /\ Len(both) = Len(p) + Len(q)
              /\ \A j \in 1 .. Len(p) + Len(q) :
                    both[j] = IF j <= Len(p) THEN p[j] ELSE q[j - Len(p)]
          <5>1. p \in Seq(S) /\ q \in Seq(S)
            BY <4>2, <4>3
          <5>2. both = p \o q
            OBVIOUS
          <5> HIDE DEF p, q, both
          <5> QED
            BY <5>1, <5>2, ConcatProperties
        <4> HIDE DEF both
        <4>6. /\ Len(both) = i
              /\ \A j \in 1 .. i : both[j] = ones[j]
          BY <4>1, <4>2, <4>3, <4>5
        <4>7. part[i] = both
          <5> DEFINE a == part[i]
          <5>1. a \in Seq(S) /\ Len(a) = i /\ \A j \in 1 .. i : a[j] = ones[j]
            BY <4>4
          <5> HIDE DEF a
          <5>2. a = both
            BY <4>5, <4>6, <5>1, SeqEqual
          <5> QED
            BY <5>2 DEF a
        <4> QED
          BY <3>2, <4>7 DEF both
      <3>3. CASE i = d + 1
        <4>1. i - 1 \in 1 .. d + 1 /\ cut(i - 1) = d /\ cut(i) = d /\ i # 1
          BY <3>3
        <4>2. seqs[i] = << >>
          BY <3>3
        <4>3. part[i - 1] \o << >> = part[i - 1] /\ part[i - 1] \in Seq(S)
          BY <1>4, <4>1, ConcatEmptySeq
        <4>4. part[i] = part[i - 1]
          <5>1. /\ part[i] \in Seq(S) /\ Len(part[i]) = d
                /\ \A j \in 1 .. d : part[i][j] = ones[j]
            BY <1>4, <4>1
          <5>2. /\ part[i - 1] \in Seq(S) /\ Len(part[i - 1]) = d
                /\ \A j \in 1 .. d : part[i - 1][j] = ones[j]
            BY <1>4, <4>1
          <5> QED
            BY <5>1, <5>2, SeqEqual
        <4> QED
          BY <4>1, <4>2, <4>3, <4>4
      <3> QED
        BY <3>1, <3>2, <3>3
    <2>3. part = [i \in 1 .. d + 1 |->
                     IF i = 1 THEN seqs[i] ELSE part[i - 1] \o seqs[i]]
      BY <2>1, <2>2
    <2> QED
      BY <1>1, <2>3
  <1>6. flatten = Step(flatten)
    <2> HIDE DEF Step
    <2>1. \E f : f = Step(f)
      BY <1>5
    <2> QED
      BY <2>1
  <1> HIDE DEF flatten
  <1>7. \A i \in 1 .. d + 1 :
           flatten[i] = IF i = 1 THEN seqs[i] ELSE flatten[i - 1] \o seqs[i]
    <2>1. flatten = [i \in 1 .. d + 1 |->
                       IF i = 1 THEN seqs[i] ELSE flatten[i - 1] \o seqs[i]]
      BY <1>1, <1>6
    <2> QED
      BY <2>1
  <1>8. \A i \in 1 .. d + 1 :
           part[i] = IF i = 1 THEN seqs[i] ELSE part[i - 1] \o seqs[i]
    <2>1. part = [i \in 1 .. d + 1 |->
                       IF i = 1 THEN seqs[i] ELSE part[i - 1] \o seqs[i]]
      BY <1>1, <1>5
    <2> QED
      BY <2>1
  <1> DEFINE Same == {n \in Nat : n + 1 <= d + 1 => flatten[n + 1] = part[n + 1]}
  <1>9. Nat \subseteq Same
    <2>1. 0 \in Same
      BY <1>7, <1>8
    <2>2. ASSUME NEW n \in Nat, n \in Same
          PROVE  n + 1 \in Same
      <3> SUFFICES ASSUME n + 2 <= d + 1
                   PROVE  flatten[n + 2] = part[n + 2]
        OBVIOUS
      <3>1. n + 2 \in 1 .. d + 1 /\ n + 2 # 1 /\ (n + 2) - 1 = n + 1 /\ n + 1 <= d + 1
        OBVIOUS
      <3>2. flatten[n + 1] = part[n + 1]
        BY <2>2, <3>1
      <3>3. /\ flatten[n + 2] = flatten[(n + 2) - 1] \o seqs[n + 2]
            /\ part[n + 2] = part[(n + 2) - 1] \o seqs[n + 2]
        BY <1>7, <1>8, <3>1
      <3> QED
        BY <3>1, <3>2, <3>3
    <2> HIDE DEF Same
    <2> QED
      BY <2>1, <2>2, SetInduction
  <1>10. flatten[d + 1] = part[d + 1]
    BY <1>9
  <1>11. part[d + 1] = ones
    <2>1. cut(d + 1) = d /\ d + 1 \in 1 .. d + 1
      OBVIOUS
    <2>2. /\ part[d + 1] \in Seq(S) /\ Len(part[d + 1]) = d
          /\ \A j \in 1 .. d : part[d + 1][j] = ones[j]
      BY <1>4, <2>1
    <2> QED
      BY <2>2, SeqEqual
  <1> QED
    BY <1>2, <1>10, <1>11

\* On a branch each block but the last has one child.
LEMMA ChildrenOnBranch ==
    ASSUME NEW S, NEW b \in Seq(S), NEW k \in 0 .. Len(b), NEW n \in k .. Len(b)
    PROVE  ChildrenOf(BranchTree(k, b), AncestorAt(b, n)) =
              IF n < Len(b) THEN {AncestorAt(b, n + 1)} ELSE {}
  <1> DEFINE nodes == BranchTree(k, b).nodes
  <1>1. Len(b) \in Nat /\ n \in 0 .. Len(b)
    BY LenProperties
  <1>2. nodes = {AncestorAt(b, m) : m \in k .. Len(b)}
    BY DEF BranchTree
  <1>3. ASSUME NEW m \in k .. Len(b)
        PROVE  AncestorAt(b, m) # Genesis /\ Parent(AncestorAt(b, m)) = AncestorAt(b, n)
                  <=> m = n + 1
    <2>1. m \in 0 .. Len(b) /\ Len(AncestorAt(b, m)) = m /\ AncestorAt(b, m) \in Seq(S)
      BY <1>1, AncestorAtIsAncestor
    <2>2. CASE m = 0
      <3>1. AncestorAt(b, m) = Genesis
        BY <2>1, <2>2, EmptySeq DEF Genesis
      <3> QED
        BY <1>1, <2>2, <3>1
    <2>3. CASE m # 0
      <3>1. m \in 1 .. Len(b) /\ m - 1 \in 0 .. Len(b)
        BY <1>1, <2>1, <2>3
      <3>2. AncestorAt(b, m) # Genesis
        BY <2>1, <2>3, EmptySeq DEF Genesis
      <3>3. Parent(AncestorAt(b, m)) = AncestorAt(b, m - 1)
        BY <3>1, ParentOfAncestor
      <3>4. AncestorAt(b, m - 1) = AncestorAt(b, n) => m - 1 = n
        BY <1>1, <3>1, AncestorsDiffer
      <3>5. m - 1 = n <=> m = n + 1
        BY <1>1, <2>1
      <3> QED
        BY <3>2, <3>3, <3>4, <3>5
    <2> QED
      BY <2>2, <2>3
  <1>4. ChildrenOf(BranchTree(k, b), AncestorAt(b, n)) =
           {a \in nodes : a # Genesis /\ Parent(a) = AncestorAt(b, n)}
    BY DEF ChildrenOf
  <1> HIDE DEF nodes
  <1>5. CASE n < Len(b)
    <2>1. n + 1 \in k .. Len(b)
      BY <1>1, <1>5
    <2> QED
      BY <1>2, <1>3, <1>4, <1>5, <2>1
  <1>6. CASE ~(n < Len(b))
    <2>1. n + 1 \notin k .. Len(b)
      BY <1>1, <1>6
    <2> QED
      BY <1>2, <1>3, <1>4, <1>6, <2>1
  <1> QED
    BY <1>5, <1>6

\* A branch of heights k to Len(b) has so many blocks.
LEMMA SizeOfBranch ==
    ASSUME NEW S, NEW b \in Seq(S), NEW k \in 0 .. Len(b)
    PROVE  Cardinality(BranchTree(k, b).nodes) = Len(b) - k + 1
  <1> DEFINE H == k .. Len(b)
             N == BranchTree(k, b).nodes
             f == [n \in H |-> AncestorAt(b, n)]
  <1>1. k \in Int /\ Len(b) \in Int /\ k <= Len(b)
    BY LenProperties
  <1>2. IsFiniteSet(H) /\ Cardinality(H) = Len(b) - k + 1
    BY <1>1, FS_Interval
  <1>3. f \in Bijection(H, N)
    <2>1. N = {AncestorAt(b, n) : n \in H}
      BY DEF BranchTree
    <2>2. \A m, n \in H : f[m] = f[n] => m = n
      <3> SUFFICES ASSUME NEW m \in H, NEW n \in H, f[m] = f[n]
                   PROVE  m = n
        OBVIOUS
      <3>1. m \in 0 .. Len(b) /\ n \in 0 .. Len(b)
        BY <1>1
      <3>2. AncestorAt(b, m) = AncestorAt(b, n)
        OBVIOUS
      <3> QED
        BY <3>1, <3>2, AncestorsDiffer
    <2> HIDE DEF N, H
    <2>3. f \in [H -> N] /\ \A a \in N : \E n \in H : f[n] = a
      BY <2>1
    <2>4. DOMAIN f = H
      OBVIOUS
    <2> HIDE DEF f
    <2>5. IsInjective(f)
      BY <2>2, <2>4, Zenon DEF IsInjective
    <2> QED
      BY <2>3, <2>5, Zenon DEF Bijection, Injection, Surjection
  <1> HIDE DEF f, H, N
  <1>4. ExistsBijection(H, N)
    BY <1>3 DEF ExistsBijection
  <1>5. Cardinality(N) = Cardinality(H)
    BY <1>2, <1>4, FS_Bijection
  <1> QED
    BY <1>2, <1>5 DEF N

\* EncodeRLP of a branch: its blocks in order, each but the last announcing one.
LEMMA EncodeOfBranch ==
    ASSUME NEW S, NEW b \in Seq(S), NEW k \in 0 .. Len(b)
    PROVE  LET items == Encode(BranchTree(k, b))
           IN  /\ Len(items) = Len(b) - k + 1
               /\ DOMAIN items = 1 .. Len(b) - k + 1
               /\ \A i \in 1 .. Len(b) - k + 1 :
                     /\ items[i].id = AncestorAt(b, k + i - 1)
                     /\ items[i].sz = IF i < Len(b) - k + 1 THEN 1 ELSE 0
  <1> DEFINE tree == BranchTree(k, b)
             d == Len(b) - k + 1
             Level(n) == {a \in tree.nodes \cup {tree.root} :
                             Number(a) = n /\ IsAncestor(tree.root, a)}
             levels == [i \in 1 .. Cardinality(tree.nodes) + 1 |->
                           SetToSeq(Level(Number(tree.root) + i - 1))]
             queue == FlattenSeq(levels)
             blocks == [i \in 1 .. d |-> AncestorAt(b, k + i - 1)]
             encoded == [i \in DOMAIN queue |->
                           [sz |-> Cardinality(ChildrenOf(tree, queue[i])), id |-> queue[i]]]
  <1>1. d \in Nat \ {0} /\ Len(b) \in Nat
    BY LenProperties
  <1>2. /\ tree.nodes = {AncestorAt(b, n) : n \in k .. Len(b)}
        /\ tree.root = AncestorAt(b, k)
    BY DEF BranchTree
  <1>3. Number(tree.root) = k
    BY <1>2, AncestorAtIsAncestor DEF Number
  <1>4. ASSUME NEW n \in k .. Len(b)
        PROVE  Number(AncestorAt(b, n)) = n /\ IsAncestor(tree.root, AncestorAt(b, n))
    <2>1. n \in 0 .. Len(b) /\ k <= n
      BY <1>1
    <2>2. /\ AncestorAt(b, n) \in Seq(S) /\ Len(AncestorAt(b, n)) = n
          /\ AncestorAt(b, k) \in Seq(S) /\ Len(AncestorAt(b, k)) = k
          /\ IsAncestor(AncestorAt(b, k), b)
      BY <2>1, AncestorAtIsAncestor
    <2>3. IsAncestor(AncestorAt(b, k), AncestorAt(b, n))
      BY <2>1, <2>2, AncestorOfCut
    <2> QED
      BY <1>2, <2>2, <2>3 DEF Number
  <1>5. \A n \in k .. Len(b) : Level(n) = {AncestorAt(b, n)}
    <2>1. k \in k .. Len(b)
      BY <1>1
    <2> HIDE DEF tree
    <2> QED
      BY <1>2, <1>4, <2>1
  <1>6. Level(Len(b) + 1) = {}
    <2>1. k \in k .. Len(b) /\ \A n \in k .. Len(b) : n # Len(b) + 1
      BY <1>1
    <2> HIDE DEF tree
    <2> QED
      BY <1>2, <1>4, <2>1
  <1>7. Cardinality(tree.nodes) = d
    BY SizeOfBranch
  <1> HIDE DEF tree, Level
  <1>8. /\ blocks \in Seq(Seq(S)) /\ Len(blocks) = d
        /\ \A i \in 1 .. d : blocks[i] = AncestorAt(b, k + i - 1)
    <2>1. \A i \in 1 .. d : k + i - 1 \in 0 .. Len(b)
      BY <1>1
    <2>2. \A i \in 1 .. d : AncestorAt(b, k + i - 1) \in Seq(S)
      BY <2>1, AncestorAtIsAncestor
    <2> HIDE DEF d
    <2> QED
      BY <1>1, <2>2
  <1>9. \A i \in 1 .. d : levels[i] = <<blocks[i]>>
    <2> SUFFICES ASSUME NEW i \in 1 .. d
                 PROVE  levels[i] = <<blocks[i]>>
      OBVIOUS
    <2>1. k + i - 1 \in k .. Len(b) /\ i \in 1 .. d + 1
      BY <1>1
    <2>2. Level(k + i - 1) = {blocks[i]}
      BY <1>5, <1>8, <2>1
    <2>3. levels[i] = SetToSeq(Level(k + i - 1))
      BY <1>3, <1>7, <2>1
    <2> HIDE DEF levels, blocks
    <2> QED
      BY <2>2, <2>3, SeqOfOne
  <1>10. levels[d + 1] = << >>
    <2>1. d + 1 \in 1 .. d + 1 /\ k + (d + 1) - 1 = Len(b) + 1
      BY <1>1
    <2>2. levels[d + 1] = SetToSeq(Level(k + (d + 1) - 1))
      BY <1>3, <1>7, <2>1
    <2> HIDE DEF levels
    <2>3. levels[d + 1] = SetToSeq({})
      BY ONLY <1>6, <2>1, <2>2
    <2> QED
      BY ONLY <2>3, SeqOfNone
  <1>11. Len(levels) = d + 1
    BY <1>1, <1>7
  <1> HIDE DEF levels, blocks, d
  <1>12. queue = blocks
    <2>1. d \in Nat \ {0} /\ blocks \in Seq(Seq(S)) /\ Len(blocks) = d
      BY <1>1, <1>8
    <2> QED
      BY ONLY <2>1, <1>9, <1>10, <1>11, FlattenOnes, SMTT(20)
  <1>13. Encode(tree) = encoded
    BY DEF Encode, levels, Level
  <1> HIDE DEF queue
  <1>14. DOMAIN queue = 1 .. d
    BY <1>1, <1>8, <1>12
  <1>15. ASSUME NEW i \in 1 .. d
         PROVE  /\ encoded[i].id = AncestorAt(b, k + i - 1)
                /\ encoded[i].sz = IF i < d THEN 1 ELSE 0
    <2>1. k + i - 1 \in k .. Len(b) /\ (i < d <=> k + i - 1 < Len(b))
      BY <1>1 DEF d
    <2>2. ChildrenOf(tree, AncestorAt(b, k + i - 1)) =
             IF i < d THEN {AncestorAt(b, k + i - 1 + 1)} ELSE {}
      BY <2>1, ChildrenOnBranch DEF tree
    <2>3. Cardinality(ChildrenOf(tree, AncestorAt(b, k + i - 1))) = IF i < d THEN 1 ELSE 0
      BY <2>2, FS_Singleton, FS_EmptySet
    <2> QED
      BY <1>8, <1>12, <1>14, <2>3
  <1>16. Len(encoded) = d /\ DOMAIN encoded = 1 .. d
    BY <1>1, <1>14
  <1> HIDE DEF encoded
  <1> QED
    BY <1>13, <1>15, <1>16 DEF d, tree

\* DecodeRLP gets a branch back from what EncodeRLP wrote of it.
LEMMA DecodeOfEncode ==
    ASSUME NEW S, NEW b \in Seq(S), NEW k \in 0 .. Len(b)
    PROVE  Decode(Encode(BranchTree(k, b))) = BranchTree(k, b)
  <1> DEFINE items == Encode(BranchTree(k, b))
             d == Len(b) - k + 1
             Step(f) == [i \in 0 .. Len(items) |->
                           IF i = 0 THEN 1 ELSE f[i - 1] + items[i].sz]
             announced == CHOOSE f : f = Step(f)
             ends == {i \in DOMAIN items : announced[i] = i}
             sums == [i \in 0 .. d |-> IF i < d THEN i + 1 ELSE d]
  <1>1. d \in Nat \ {0} /\ Len(b) \in Nat
    BY LenProperties
  <1>2. /\ Len(items) = d
        /\ DOMAIN items = 1 .. d
        /\ \A i \in 1 .. d : /\ items[i].id = AncestorAt(b, k + i - 1)
                             /\ items[i].sz = IF i < d THEN 1 ELSE 0
    BY EncodeOfBranch
  <1>3. Decode(items) = [root |-> items[1].id,
                         nodes |-> {items[i].id : i \in 1 .. Min(ends)}]
    BY Zenon DEF Decode
  <1> HIDE DEF items, d
  <1>4. sums = Step(sums)
    BY <1>1, <1>2
  <1>5. announced = Step(announced)
    <2> HIDE DEF Step, sums
    <2>1. \E f : f = Step(f)
      BY <1>4
    <2> QED
      BY <2>1
  <1> HIDE DEF announced
  <1>6. \A i \in 0 .. d : announced[i] = IF i = 0 THEN 1 ELSE announced[i - 1] + items[i].sz
    <2>1. announced = [i \in 0 .. d |-> IF i = 0 THEN 1 ELSE announced[i - 1] + items[i].sz]
      BY <1>2, <1>5
    <2> QED
      BY <2>1
  <1>7. \A i \in 0 .. d : sums[i] = IF i = 0 THEN 1 ELSE sums[i - 1] + items[i].sz
    BY <1>1, <1>2
  <1> DEFINE Same == {n \in Nat : n <= d => announced[n] = sums[n]}
  <1>8. Nat \subseteq Same
    <2>1. 0 \in Same
      BY <1>1, <1>6, <1>7
    <2>2. ASSUME NEW n \in Nat, n \in Same
          PROVE  n + 1 \in Same
      <3> SUFFICES ASSUME n + 1 <= d
                   PROVE  announced[n + 1] = sums[n + 1]
        OBVIOUS
      <3>1. n + 1 \in 0 .. d /\ n + 1 # 0 /\ (n + 1) - 1 = n /\ n <= d
        BY <1>1
      <3>2. announced[n] = sums[n]
        BY <2>2, <3>1
      <3> HIDE DEF sums
      <3> QED
        BY <1>6, <1>7, <3>1, <3>2
    <2> HIDE DEF Same
    <2> QED
      BY <2>1, <2>2, SetInduction
  <1>9. \A i \in 1 .. d : announced[i] = IF i < d THEN i + 1 ELSE d
    <2>1. \A i \in 1 .. d : i \in Nat /\ i <= d /\ i \in Same
      BY <1>1, <1>8
    <2>2. \A i \in 1 .. d : announced[i] = sums[i]
      BY <2>1
    <2>3. \A i \in 1 .. d : sums[i] = IF i < d THEN i + 1 ELSE d
      BY <1>1
    <2> HIDE DEF sums, Same
    <2> QED
      BY <2>2, <2>3
  <1>10. ends = {d}
    BY <1>1, <1>2, <1>9
  <1>11. Min(ends) = d
    BY <1>1, <1>10, LeastOfOne
  <1> HIDE DEF ends
  <1>12. items[1].id = AncestorAt(b, k)
    BY <1>1, <1>2
  <1>13. {items[i].id : i \in 1 .. d} = {AncestorAt(b, n) : n \in k .. Len(b)}
    <2>1. \A i \in 1 .. d : k + i - 1 \in k .. Len(b)
      BY <1>1 DEF d
    <2>2. \A n \in k .. Len(b) : n - k + 1 \in 1 .. d /\ k + (n - k + 1) - 1 = n
      BY <1>1 DEF d
    <2>3. \A n \in k .. Len(b) : items[n - k + 1].id = AncestorAt(b, n)
      BY <1>2, <2>2
    <2> QED
      BY <1>2, <2>1, <2>2, <2>3
  <1> QED
    BY <1>3, <1>11, <1>12, <1>13 DEF BranchTree, items

\* The only branch selectFork may follow ends in the last block.
LEMMA TipsOfBranch ==
    ASSUME NEW S, NEW b \in Seq(S), NEW k \in 0 .. Len(b)
    PROVE  Tips(BranchTree(k, b)) = {b}
  <1> DEFINE tree == BranchTree(k, b)
             T == Tips(tree)
  <1>1. T = {a \in tree.nodes : ChildrenOf(tree, a) = {}}
    BY DEF Tips
  <1>2. tree.nodes = {AncestorAt(b, n) : n \in k .. Len(b)}
    BY DEF BranchTree
  <1>3. \A n \in k .. Len(b) :
           ChildrenOf(tree, AncestorAt(b, n)) = {} <=> n = Len(b)
    <2>1. \A n \in k .. Len(b) : n < Len(b) <=> n # Len(b)
      BY LenProperties
    <2> QED
      BY <2>1, ChildrenOnBranch
  <1>4. Len(b) \in k .. Len(b) /\ AncestorAt(b, Len(b)) = b
    BY LenProperties, AncestorAtSelf
  <1> HIDE DEF tree, T
  <1>5. T = {b}
    BY <1>1, <1>2, <1>3, <1>4
  <1> QED
    BY <1>5 DEF T, tree

\* Add puts a node into a tree.
LEMMA AddToTree ==
    ASSUME NEW root, NEW nodes, NEW b
    PROVE  Add([root |-> root, nodes |-> nodes], b) =
              [root |-> root, nodes |-> nodes \cup {b}]
  BY Z3 DEF Add

\* A child of the last block can be added, and makes the branch longer.
LEMMA AddToBranch ==
    ASSUME NEW S, NEW b \in Seq(S), Len(b) > 0, NEW k \in 0 .. Len(b) - 1
    PROVE  /\ CanAdd(BranchTree(k, Parent(b)), b)
           /\ Add(BranchTree(k, Parent(b)), b) = BranchTree(k, b)
  <1> DEFINE p == AncestorAt(b, Len(b) - 1)
             N == Len(b)
  <1>1. N \in Nat \ {0} /\ N - 1 \in 0 .. N /\ k \in 0 .. N - 1
    BY LenProperties
  <1>2. p \in Seq(S) /\ Len(p) = N - 1 /\ IsAncestor(p, b) /\ Parent(b) = p
    BY <1>1, AncestorAtIsAncestor DEF AncestorAt, Parent
  <1> HIDE DEF p, N
  <1>3. \A n \in 0 .. N - 1 : AncestorAt(p, n) = AncestorAt(b, n)
    BY <1>2, AncestorAtOfAncestor
  <1>4. AncestorAt(b, N) = b
    BY AncestorAtSelf DEF N
  <1>5. AncestorAt(p, N - 1) = p
    BY <1>2, AncestorAtSelf
  <1>6. \A n \in 0 .. N - 1 : AncestorAt(b, n) # b
    <2> SUFFICES ASSUME NEW n \in 0 .. N - 1, AncestorAt(b, n) = AncestorAt(b, N)
                 PROVE  FALSE
      BY <1>4
    <2>1. n \in 0 .. Len(b) /\ N \in 0 .. Len(b)
      BY <1>1 DEF N
    <2>2. n = N
      BY <2>1, AncestorsDiffer
    <2> QED
      BY <1>1, <2>2
  <1> DEFINE old == {AncestorAt(p, n) : n \in k .. N - 1}
             new == {AncestorAt(b, n) : n \in k .. N}
  <1>7. BranchTree(k, p) = [root |-> AncestorAt(b, k), nodes |-> old]
    BY <1>2, <1>3 DEF BranchTree, N
  <1>8. BranchTree(k, b) = [root |-> AncestorAt(b, k), nodes |-> new]
    BY DEF BranchTree, N
  <1>9. \A n \in k .. N - 1 : n \in 0 .. N - 1 /\ n \in k .. N
    BY <1>1
  <1>10. \A n \in k .. N : n = N \/ n \in k .. N - 1
    BY <1>1
  <1>11. N - 1 \in k .. N - 1 /\ N \in k .. N
    BY <1>1
  <1>12. old \cup {b} = new
    BY <1>3, <1>4, <1>9, <1>10, <1>11
  <1>13. b \notin old /\ p \in old
    BY <1>3, <1>5, <1>6, <1>9, <1>11
  <1> HIDE DEF old, new
  <1>14. Add(BranchTree(k, p), b) = [root |-> AncestorAt(b, k), nodes |-> old \cup {b}]
    <2>1. Add([root |-> AncestorAt(b, k), nodes |-> old], b) =
             [root |-> AncestorAt(b, k), nodes |-> old \cup {b}]
      BY AddToTree, Zenon
    <2>2. Add(BranchTree(k, p), b) = Add([root |-> AncestorAt(b, k), nodes |-> old], b)
      BY <1>7, Zenon
    <2> QED
      BY <2>1, <2>2, Zenon
  <1>15. CanAdd(BranchTree(k, p), b)
    BY <1>2, <1>7, <1>13 DEF CanAdd
  <1> QED
    BY <1>2, <1>8, <1>12, <1>14, <1>15

\* Pruned at a block above its root, a branch begins at that block.
LEMMA PruneBranch ==
    ASSUME NEW S, NEW b \in Seq(S), NEW k \in 0 .. Len(b), NEW s \in k + 1 .. Len(b)
    PROVE  Prune(BranchTree(k, b), AncestorAt(b, s)) = BranchTree(s, b)
  <1> DEFINE tree == BranchTree(k, b)
             kept == {a \in tree.nodes : IsAncestor(AncestorAt(b, s), a)}
  <1>1. Len(b) \in Nat /\ s \in 0 .. Len(b)
    BY LenProperties
  <1>2. AncestorAt(b, s) # AncestorAt(b, k)
    BY <1>1, AncestorsDiffer
  <1>3. tree.root = AncestorAt(b, k) /\ tree.nodes = {AncestorAt(b, n) : n \in k .. Len(b)}
    BY DEF BranchTree
  <1>4. ASSUME NEW n \in k .. Len(b)
        PROVE  IsAncestor(AncestorAt(b, s), AncestorAt(b, n)) <=> n \in s .. Len(b)
    <2>1. n \in 0 .. Len(b)
      BY <1>1
    <2>2. /\ AncestorAt(b, s) \in Seq(S) /\ Len(AncestorAt(b, s)) = s
          /\ AncestorAt(b, n) \in Seq(S) /\ Len(AncestorAt(b, n)) = n
          /\ IsAncestor(AncestorAt(b, s), b)
      BY <1>1, <2>1, AncestorAtIsAncestor
    <2>3. s <= n => IsAncestor(AncestorAt(b, s), AncestorAt(b, n))
      BY <2>1, <2>2, AncestorOfCut
    <2>4. IsAncestor(AncestorAt(b, s), AncestorAt(b, n)) => s <= n
      BY <2>2 DEF IsAncestor
    <2> QED
      BY <1>1, <2>3, <2>4
  <1>5. \A n \in s .. Len(b) : n \in k .. Len(b)
    BY <1>1
  <1> HIDE DEF tree
  <1>6. kept = {AncestorAt(b, n) : n \in s .. Len(b)}
    BY <1>3, <1>4, <1>5
  <1> HIDE DEF kept
  <1>7. Prune(tree, AncestorAt(b, s)) = [root |-> AncestorAt(b, s), nodes |-> kept]
    BY <1>2, <1>3 DEF Prune, kept
  <1> QED
    BY <1>6, <1>7 DEF BranchTree, tree

\* The branch which the calculator is given for a tree follows its root.
LEMMA BranchFollows ==
    ASSUME NEW S, NEW b \in Seq(S), NEW k \in 0 .. Len(b)
    PROVE  LET feeds == Branch(BranchTree(k, b), b)
           IN  feeds \in Seq(Seq(S)) /\ Follows(feeds, b, k, Len(b))
  <1> DEFINE feeds == Branch(BranchTree(k, b), b)
  <1>1. Len(b) \in Nat /\ k <= Len(b)
    BY LenProperties
  <1>2. Len(AncestorAt(b, k)) = k
    BY AncestorAtIsAncestor
  <1>3. feeds = [i \in 1 .. Len(b) - k |-> AncestorAt(b, k + i)]
    BY <1>2 DEF Branch, BranchTree, Number
  <1>4. \A i \in 1 .. Len(b) - k : k + i \in 0 .. Len(b)
    BY <1>1
  <1>5. \A i \in 1 .. Len(b) - k : AncestorAt(b, k + i) \in Seq(S)
    BY <1>4, AncestorAtIsAncestor
  <1> HIDE DEF feeds
  <1>6. feeds \in Seq(Seq(S)) /\ Len(feeds) = Len(b) - k
    BY <1>1, <1>3, <1>5
  <1>7. \A i \in 1 .. Len(b) - k : feeds[i] = AncestorAt(b, k + i)
    BY <1>3
  <1> QED
    BY <1>6, <1>7 DEF Follows, feeds

-----------------------------------------------------------------------------
(* Blocks whose bodies are in a set S, and what they say of the finalized  *)
(* chain.                                                                  *)

\* Each body has an attestation.
Attested(S) == \A body \in S : body.att \in Attestations

CalculatorOf(S) == [checkpoint : Seq(S), feeds : Seq(Seq(S))]

\* Each attestation of b names blocks below, and its source is on the branch
\* of `final'.
SoundFor(b, final) ==
    \A n \in 1 .. Len(b) :
        /\ b[n].att.source <= b[n].att.target
        /\ b[n].att.target < n
        /\ IsAncestor(AncestorAt(b, b[n].att.source), final)

\* The genesis block is a block, of number 0 and an ancestor of all.
LEMMA GenesisOf ==
    ASSUME NEW S
    PROVE  /\ Genesis \in Seq(S)
           /\ Number(Genesis) = 0
           /\ \A b \in Seq(S) : /\ IsAncestor(Genesis, b)
                                /\ Number(b) \in Nat
                                /\ Number(b) = 0 <=> b = Genesis
           /\ \A f : SoundFor(Genesis, f)
  <1>1. Genesis \in Seq(S) /\ Len(Genesis) = 0
    BY EmptySeq DEF Genesis
  <1>2. \A b \in Seq(S) : Len(b) \in Nat /\ (Len(b) = 0 <=> b = Genesis)
    BY LenProperties, EmptySeq DEF Genesis
  <1> QED
    BY <1>1, <1>2 DEF Number, IsAncestor, SoundFor

\* Ancestors have the attestations the block has, and the same is known of
\* them.
LEMMA SoundBelow ==
    ASSUME NEW S, Attested(S), NEW a \in Seq(S), NEW b \in Seq(S), NEW final, SoundFor(b, final),
           IsAncestor(a, b)
    PROVE  SoundFor(a, final)
  <1> SUFFICES ASSUME NEW n \in 1 .. Len(a)
               PROVE  /\ a[n].att.source <= a[n].att.target
                      /\ a[n].att.target < n
                      /\ IsAncestor(AncestorAt(a, a[n].att.source), final)
    BY DEF SoundFor
  <1>1. n \in 1 .. Len(b) /\ a[n] = b[n]
    BY LenProperties DEF IsAncestor
  <1>2. /\ b[n].att.source <= b[n].att.target
        /\ b[n].att.target < n
        /\ IsAncestor(AncestorAt(b, b[n].att.source), final)
    BY <1>1 DEF SoundFor
  <1>3. b[n].att.source \in Nat /\ b[n].att.target \in Nat
    BY <1>1, ElementOfSeq DEF Attested, Attestations
  <1>4. b[n].att.source \in 0 .. Number(a)
    BY <1>2, <1>3, LenProperties DEF Number
  <1>5. AncestorAt(a, b[n].att.source) = AncestorAt(b, b[n].att.source)
    BY <1>4, AncestorShares
  <1> QED
    BY <1>1, <1>2, <1>5

\* What is final stays final.
LEMMA SoundOnwards ==
    ASSUME NEW S, Attested(S), NEW b \in Seq(S), NEW old \in Seq(S), NEW new \in Seq(S),
           SoundFor(b, old), IsAncestor(old, new)
    PROVE  SoundFor(b, new)
  <1> SUFFICES ASSUME NEW n \in 1 .. Len(b)
               PROVE  /\ b[n].att.source <= b[n].att.target
                      /\ b[n].att.target < n
                      /\ IsAncestor(AncestorAt(b, b[n].att.source), new)
    BY DEF SoundFor
  <1>1. /\ b[n].att.source <= b[n].att.target
        /\ b[n].att.target < n
        /\ IsAncestor(AncestorAt(b, b[n].att.source), old)
    BY DEF SoundFor
  <1>2. b[n].att.source \in Nat /\ b[n].att.target \in Nat
    BY ElementOfSeq DEF Attested, Attestations
  <1>3. b[n].att.source \in 0 .. Number(b)
    BY <1>1, <1>2, LenProperties DEF Number
  <1>4. AncestorAt(b, b[n].att.source) \in Seq(S)
    BY <1>3, AncestorOf
  <1> QED
    BY <1>1, <1>4, AncestorTransitive

\* What follows from an attestation of a sound block.
LEMMA SoundSources ==
    ASSUME NEW S, Attested(S), NEW b \in Seq(S), NEW final, SoundFor(b, final)
    PROVE  /\ Bounded(b)
           /\ \A n \in 1 .. Len(b) :
                 /\ b[n].att.source \in 0 .. Number(b) - 1
                 /\ IsAncestor(AncestorAt(b, b[n].att.source), final)
  <1>1. ASSUME NEW n \in 1 .. Len(b)
        PROVE  /\ b[n].att.source < n
               /\ b[n].att.source \in 0 .. Number(b) - 1
               /\ IsAncestor(AncestorAt(b, b[n].att.source), final)
    <2>1. /\ b[n].att.source <= b[n].att.target
          /\ b[n].att.target < n
          /\ IsAncestor(AncestorAt(b, b[n].att.source), final)
      BY DEF SoundFor
    <2>2. b[n].att.source \in Nat /\ b[n].att.target \in Nat
      BY ElementOfSeq DEF Attested, Attestations
    <2> QED
      BY <2>1, <2>2, LenProperties DEF Number
  <1> QED
    BY <1>1 DEF Bounded

\* The attestation a block is given: its source and its target are those of
\* the parent, or the target becomes the source and the parent the target.
LEMMA NewAttestation ==
    ASSUME NEW att \in Attestations, NEW n \in Nat \ {0}, NEW vote \in BOOLEAN,
           att.source <= att.target, att.target < n
    PROVE  LET new == UpdateAttestation(att, n, vote)
           IN  /\ new \in Attestations
               /\ new.source <= new.target /\ new.target < n
               /\ new.source \in {att.source, att.target}
  BY DEF UpdateAttestation, Attestations

\* The attestation of a block to be sealed on b.
LEMMA SealedAttestation ==
    ASSUME NEW S, Attested(S), NEW b \in Seq(S), NEW final \in Seq(S),
           SoundFor(b, final), NEW vote \in BOOLEAN
    PROVE  LET att == UpdateAttestation(AttestationOf(b), Len(b) + 1, vote)
           IN  /\ att \in Attestations
               /\ att.source <= att.target /\ att.target < Len(b) + 1
               /\ att.source \in 0 .. Len(b)
  <1> DEFINE old == AttestationOf(b)
             N == Len(b)
  <1>1. N \in Nat
    BY LenProperties
  <1>2. old \in Attestations /\ old.source <= old.target /\ old.target <= N
    <2>1. CASE b = Genesis
      BY <1>1, <2>1, GenesisOf DEF AttestationOf, NoAttestation, Attestations, Number
    <2>2. CASE b # Genesis
      <3>1. N \in 1 .. Len(b) /\ old = b[N].att
        BY <1>1, <2>2, GenesisOf DEF AttestationOf, Body, Number
      <3>2. old \in Attestations
        BY <3>1, ElementOfSeq DEF Attested
      <3>3. old.source <= old.target /\ old.target < N
        BY <3>1 DEF SoundFor
      <3> QED
        BY <1>1, <3>2, <3>3 DEF Attestations
    <2> QED
      BY <2>1, <2>2
  <1>3. N + 1 \in Nat \ {0} /\ old.target < N + 1
    BY <1>1, <1>2 DEF Attestations
  <1> HIDE DEF old, N
  <1> DEFINE att == UpdateAttestation(old, N + 1, vote)
  <1>4. /\ att \in Attestations
        /\ att.source <= att.target /\ att.target < N + 1
        /\ att.source \in {old.source, old.target}
    BY <1>2, <1>3, NewAttestation
  <1> HIDE DEF att
  <1>5. att.source \in 0 .. N
    BY <1>1, <1>2, <1>4 DEF Attestations
  <1> QED
    BY <1>4, <1>5 DEF att, old, N

\* A block sealed on b: its chain is sound, and what it finalizes extends the
\* finalized chain.
LEMMA SealFollows ==
    ASSUME NEW S, Attested(S), NEW b \in Seq(S), NEW final \in Seq(S),
           IsAncestor(final, b), SoundFor(b, final),
           NEW body \in S,
           body.att.source <= body.att.target,
           body.att.target < Len(b) + 1,
           body.att.source \in 0 .. Len(b)
    PROVE  LET head == Append(b, body)
               new == IF body.att.source > Number(final)
                      THEN AncestorAt(b, body.att.source) ELSE final
           IN  /\ head \in Seq(S) /\ IsAncestor(b, head)
               /\ new \in Seq(S)
               /\ IsAncestor(final, new) /\ IsAncestor(new, head)
               /\ SoundFor(head, new)
  <1> DEFINE N == Len(b)
             source == body.att.source
             head == Append(b, body)
             new == IF source > Number(final) THEN AncestorAt(b, source) ELSE final
             cut == AncestorAt(b, source)
  <1>1. N \in Nat /\ Number(b) = N /\ Number(final) \in 0 .. N
    BY GenesisOf, AncestorShares DEF Number
  <1>2. source \in 0 .. Number(b)
    BY <1>1
  <1>3. cut \in Seq(S) /\ Number(cut) = source /\ IsAncestor(cut, b)
    BY <1>2, AncestorOf
  <1>4. /\ head \in Seq(S) /\ Len(head) = N + 1
        /\ \A n \in 1 .. N : head[n] = b[n]
        /\ head[N + 1] = body
    BY AppendProperties
  <1> HIDE DEF head
  <1>5. IsAncestor(b, head)
    BY <1>1, <1>4 DEF IsAncestor
  <1>6. IsAncestor(cut, cut) /\ IsAncestor(final, final)
    BY <1>3, AncestorReflexive
  <1>7. /\ new \in Seq(S) /\ IsAncestor(final, new)
        /\ IsAncestor(new, b) /\ IsAncestor(cut, new)
    <2>1. CASE source > Number(final)
      <3>1. new = cut
        BY <2>1
      <3>2. IsAncestor(final, cut)
        BY <1>1, <1>2, <1>3, <2>1, AncestorsMeet
      <3> HIDE DEF new, cut
      <3> QED
        BY <1>3, <1>6, <3>1, <3>2
    <2>2. CASE ~(source > Number(final))
      <3>1. new = final
        BY <2>2
      <3>2. IsAncestor(cut, final)
        BY <1>1, <1>2, <1>3, <2>2, AncestorsMeet
      <3> HIDE DEF new, cut
      <3> QED
        BY <1>6, <3>1, <3>2
    <2> QED
      BY <2>1, <2>2
  <1> HIDE DEF new
  <1>8. IsAncestor(new, head)
    BY <1>4, <1>5, <1>7, AncestorTransitive
  <1>9. SoundFor(b, new)
    BY <1>7, SoundOnwards
  <1>10. \A m \in 0 .. N : AncestorAt(head, m) = AncestorAt(b, m)
    BY <1>1, <1>4, <1>5, AncestorShares
  <1>11. ASSUME NEW n \in 1 .. Len(head)
         PROVE  /\ head[n].att.source <= head[n].att.target
                /\ head[n].att.target < n
                /\ IsAncestor(AncestorAt(head, head[n].att.source), new)
    <2>1. CASE n = N + 1
      <3>1. head[n] = body
        BY <1>4, <2>1
      <3>2. AncestorAt(head, source) = cut
        BY <1>1, <1>2, <1>10
      <3>3. source = body.att.source
        OBVIOUS
      <3> HIDE DEF cut, source
      <3> QED
        BY <1>7, <2>1, <3>1, <3>2, <3>3
    <2>2. CASE n # N + 1
      <3>1. n \in 1 .. N /\ head[n] = b[n]
        BY <1>1, <1>4, <2>2
      <3>2. /\ b[n].att.source <= b[n].att.target
            /\ b[n].att.target < n
            /\ IsAncestor(AncestorAt(b, b[n].att.source), new)
        BY <1>9, <3>1 DEF SoundFor
      <3>3. b[n].att.source \in 0 .. Number(b) - 1
        BY <1>9, <3>1, SoundSources
      <3>4. b[n].att.source \in 0 .. N
        BY <1>1, <3>3
      <3> QED
        BY <1>10, <3>1, <3>2, <3>4
    <2> QED
      BY <2>1, <2>2
  <1>12. SoundFor(head, new)
    BY <1>11 DEF SoundFor
  <1> QED
    BY <1>4, <1>5, <1>7, <1>8, <1>12 DEF head, new

\* The chain cut above its finalized block, which a rival branch starts from.
LEMMA CutFollows ==
    ASSUME NEW S, Attested(S), NEW b \in Seq(S), NEW final \in Seq(S),
           IsAncestor(final, b), SoundFor(b, final),
           NEW n \in Number(final) .. Len(b) - 1
    PROVE  /\ AncestorAt(b, n) \in Seq(S)
           /\ IsAncestor(final, AncestorAt(b, n))
           /\ SoundFor(AncestorAt(b, n), final)
  <1>1. n \in 0 .. Number(b) /\ Number(final) <= n
    BY GenesisOf DEF Number
  <1>2. /\ AncestorAt(b, n) \in Seq(S) /\ Number(AncestorAt(b, n)) = n
        /\ IsAncestor(AncestorAt(b, n), b)
    BY <1>1, AncestorOf
  <1>3. IsAncestor(final, AncestorAt(b, n))
    BY <1>1, <1>2, AncestorsMeet
  <1> QED
    BY <1>2, <1>3, SoundBelow

\* feed, on a block that is a child of the one the calculator stands at, all
\* of whose attestations have final sources: a new checkpoint is final and
\* below the block, and what is returned are the blocks up to it.
LEMMA FeedFollows ==
    ASSUME NEW S, Attested(S), NEW b \in Seq(S), b # Genesis, NEW final \in Seq(S), SoundFor(b, final),
           NEW calc \in CalculatorOf(S), NEW k \in Nat,
           StandsAt(calc, Parent(b), k)
    PROVE  LET fed == Feed(calc, b)
           IN  \E s \in k .. Number(b) - 1 :
                  /\ fed.finalities \in Seq(Seq(S))
                  /\ Len(fed.finalities) = s - k
                  /\ Follows(fed.finalities, b, k, s)
                  /\ fed.calc \in CalculatorOf(S)
                  /\ fed.calc.checkpoint = AncestorAt(b, s)
                  /\ StandsAt(fed.calc, b, s)
                  /\ AncestorAt(b, s) \in Seq(S)
                  /\ Number(AncestorAt(b, s)) = s
                  /\ s # k => IsAncestor(AncestorAt(b, s), final)
                  /\ fed.finalities = << >> <=> s = k
                  /\ s # k => Last(fed.finalities) = AncestorAt(b, s)
  <1> DEFINE fed == Feed(calc, b)
             p == Parent(b)
             N == Number(b)
  <1>1. /\ p = AncestorAt(b, N - 1) /\ p \in Seq(S)
        /\ Number(p) = N - 1 /\ IsAncestor(p, b) /\ N \in Nat \ {0}
    BY ParentOf
  <1>2. /\ k \in 0 .. N - 1
        /\ calc.checkpoint = AncestorAt(p, k)
        /\ Follows(calc.feeds, p, k, N - 1)
    BY <1>1 DEF StandsAt, Number
  <1> HIDE DEF p
  <1>3. \A n \in 0 .. N - 1 : n \in 0 .. N /\ AncestorAt(p, n) = AncestorAt(b, n)
    BY <1>1, AncestorShares
  <1>4. calc.checkpoint = AncestorAt(b, k)
    BY <1>2, <1>3
  <1>5. Follows(calc.feeds, b, k, N - 1)
    <2>1. \A i \in 1 .. (N - 1) - k : k + i \in 0 .. N - 1
      BY <1>1, <1>2
    <2> HIDE DEF N
    <2> QED
      BY <1>2, <1>3, <2>1 DEF Follows
  <1>6. \A body \in S : body.att \in Attestations
    BY DEF Attested
  <1>7. calc.feeds \in Seq(Seq(S))
    BY DEF CalculatorOf
  <1>8. Bounded(b)
    BY SoundSources
  <1>9. PICK s \in k .. N :
           /\ fed.finalities \in Seq(Seq(S))
           /\ Follows(fed.finalities, b, k, s)
           /\ fed.calc = Calculator(AncestorAt(b, s), fed.calc.feeds)
           /\ fed.calc.feeds \in Seq(Seq(S))
           /\ Follows(fed.calc.feeds, b, s, N)
           /\ s # k => \E n \in 1 .. Len(b) : b[n].att.source = s
    <2>1. b \in Seq(S) /\ Len(b) > 0 /\ k \in 0 .. Len(b) - 1
      BY <1>1, <1>2 DEF Number
    <2>2. Follows(calc.feeds, b, k, Len(b) - 1)
      BY <1>5 DEF Number
    <2>3. \E s \in k .. Len(b) :
             /\ Feed(calc, b).finalities \in Seq(Seq(S))
             /\ Follows(Feed(calc, b).finalities, b, k, s)
             /\ Feed(calc, b).calc = Calculator(AncestorAt(b, s), Feed(calc, b).calc.feeds)
             /\ Feed(calc, b).calc.feeds \in Seq(Seq(S))
             /\ Follows(Feed(calc, b).calc.feeds, b, s, Len(b))
             /\ s # k => \E n \in 1 .. Len(b) : b[n].att.source = s
      BY ONLY <1>4, <1>6, <1>7, <1>8, <2>1, <2>2, FeedAdvances
    <2> QED
      BY <2>3 DEF Number
  <1> HIDE DEF fed
  <1>10. s \in 0 .. N - 1 /\ (s # k => IsAncestor(AncestorAt(b, s), final))
    <2>1. CASE s = k
      BY <1>2, <2>1
    <2>2. CASE s # k
      <3>1. PICK n \in 1 .. Len(b) : b[n].att.source = s
        BY <1>9, <2>2
      <3> QED
        BY <3>1, SoundSources
    <2> QED
      BY <2>1, <2>2
  <1>11. /\ AncestorAt(b, s) \in Seq(S)
         /\ Number(AncestorAt(b, s)) = s
    BY <1>3, <1>10, AncestorOf
  <1>12. fed.calc \in CalculatorOf(S) /\ fed.calc.checkpoint = AncestorAt(b, s)
    BY <1>9, <1>11 DEF Calculator, CalculatorOf
  <1>13. StandsAt(fed.calc, b, s)
    <2>1. s \in 0 .. Len(b) /\ Follows(fed.calc.feeds, b, s, Len(b))
      BY <1>3, <1>9, <1>10 DEF Number
    <2> QED
      BY <1>12, <2>1 DEF StandsAt
  <1>14. /\ Len(fed.finalities) = s - k
         /\ \A i \in 1 .. s - k : fed.finalities[i] = AncestorAt(b, k + i)
    BY <1>9 DEF Follows
  <1>15. fed.finalities = << >> <=> s = k
    <2>1. fed.finalities = << >> <=> Len(fed.finalities) = 0
      BY <1>9, EmptySeq, LenProperties
    <2> QED
      BY <1>2, <1>10, <1>14, <2>1
  <1>16. s # k => Last(fed.finalities) = AncestorAt(b, s)
    <2> SUFFICES ASSUME s # k PROVE Last(fed.finalities) = AncestorAt(b, s)
      OBVIOUS
    <2>1. s - k \in 1 .. s - k /\ k + (s - k) = s
      BY <1>2, <1>9
    <2> QED
      BY <1>14, <2>1 DEF Last
  <1>17. s \in k .. N - 1
    BY <1>9, <1>10
  <1> QED
    BY <1>9, <1>10, <1>11, <1>12, <1>13, <1>14, <1>15, <1>16, <1>17 DEF fed
=============================================================================
