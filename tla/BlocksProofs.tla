---------------------------- MODULE BlocksProofs ----------------------------
(***************************************************************************)
(* What the proofs of the other modules need to know about histories, and  *)
(* induction over the naturals, for what is defined by recursion.          *)
(***************************************************************************)
EXTENDS Blocks, SequenceTheorems, WellFoundedInduction, TLAPS

\* A nonempty set of naturals has a least element.
LEMMA LeastNatural ==
    ASSUME NEW T \in SUBSET Nat, T # {}
    PROVE  \E least \in T : \A n \in T : least <= n
  <1> DEFINE R == OpToRel(<, Nat)
  <1>1. IsWellFoundedOn(R, Nat)
    BY NatLessThanWellFounded
  <1> HIDE DEF R
  <1>2. PICK least \in T : \A n \in T : <<n, least>> \notin R
    BY <1>1, WFMin
  <1>3. ASSUME NEW n \in T
        PROVE  least <= n
    <2>1. n \in Nat /\ least \in Nat /\ <<n, least>> \notin R
      BY <1>2
    <2>2. n < least => <<n, least>> \in R
      BY <2>1 DEF R, OpToRel
    <2> QED
      BY <2>1, <2>2
  <1> QED
    BY <1>3

\* Induction, for a set: the sets it is used for hold the numbers of which
\* something is true.
LEMMA SetInduction ==
    ASSUME NEW S, 0 \in S, \A n \in Nat : n \in S => n + 1 \in S
    PROVE  Nat \subseteq S
  <1> DEFINE T == Nat \ S
  <1> SUFFICES ASSUME T # {} PROVE FALSE
    OBVIOUS
  <1>1. PICK least \in T : \A n \in T : least <= n
    <2>1. T \in SUBSET Nat
      OBVIOUS
    <2> HIDE DEF T
    <2> QED
      BY <2>1, LeastNatural
  <1>2. least - 1 \in Nat /\ least - 1 \notin T
    BY <1>1
  <1> QED
    BY <1>1, <1>2

\* The walk down to height n ends in an ancestor of number n.
LEMMA AncestorAtIsAncestor ==
    ASSUME NEW S, NEW b \in Seq(S), NEW n \in 0 .. Len(b)
    PROVE  /\ AncestorAt(b, n) \in Seq(S)
           /\ Len(AncestorAt(b, n)) = n
           /\ \A i \in 1 .. n : AncestorAt(b, n)[i] = b[i]
           /\ IsAncestor(AncestorAt(b, n), b)
  <1>1. \A i \in 1 .. n : b[i] \in S
    BY ElementOfSeq
  <1>2. /\ SubSeq(b, 1, n) \in Seq(S)
        /\ Len(SubSeq(b, 1, n)) = IF 1 <= n THEN n - 1 + 1 ELSE 0
        /\ \A i \in 1 .. n - 1 + 1 : SubSeq(b, 1, n)[i] = b[1 + i - 1]
    BY <1>1, SubSeqProperties
  <1> QED
    BY <1>2 DEF AncestorAt, IsAncestor

\* A block is its own ancestor.
LEMMA AncestorReflexive ==
    ASSUME NEW S, NEW a \in Seq(S)
    PROVE  IsAncestor(a, a)
  BY DEF IsAncestor

\* An ancestor of an ancestor is an ancestor.
LEMMA AncestorTransitive ==
    ASSUME NEW S, NEW a \in Seq(S), NEW b \in Seq(S), NEW c \in Seq(S),
           IsAncestor(a, b), IsAncestor(b, c)
    PROVE  IsAncestor(a, c)
  BY DEF IsAncestor

\* The ancestors of a block stay its ancestors when a child is added.
LEMMA AncestorOfChild ==
    ASSUME NEW S, NEW a \in Seq(S), NEW b \in Seq(S), NEW body \in S,
           IsAncestor(a, b)
    PROVE  IsAncestor(a, Append(b, body))
  BY DEF IsAncestor

\* A block no higher than n that is an ancestor of b is one of b's ancestor
\* at height n.
LEMMA AncestorOfCut ==
    ASSUME NEW S, NEW a \in Seq(S), NEW b \in Seq(S), NEW n \in 0 .. Len(b),
           IsAncestor(a, b), Len(a) <= n
    PROVE  IsAncestor(a, AncestorAt(b, n))
  <1>1. /\ Len(AncestorAt(b, n)) = n
        /\ \A i \in 1 .. n : AncestorAt(b, n)[i] = b[i]
    BY AncestorAtIsAncestor
  <1> QED
    BY <1>1, LenProperties DEF IsAncestor

\* Comparing with the block a walk reaches decides ancestry.
LEMMA WalkDecidesAncestry ==
    ASSUME NEW S, NEW a \in Seq(S), NEW b \in Seq(S), Len(a) <= Len(b)
    PROVE  IsAncestor(a, b) <=> a = AncestorAt(b, Len(a))
  <1>1. Len(a) \in 0 .. Len(b)
    BY LenProperties
  <1>2. /\ AncestorAt(b, Len(a)) \in Seq(S)
        /\ Len(AncestorAt(b, Len(a))) = Len(a)
        /\ \A i \in 1 .. Len(a) : AncestorAt(b, Len(a))[i] = b[i]
        /\ IsAncestor(AncestorAt(b, Len(a)), b)
    BY <1>1, AncestorAtIsAncestor
  <1>3. ASSUME IsAncestor(a, b)
        PROVE  a = AncestorAt(b, Len(a))
    <2>1. \A i \in 1 .. Len(a) : a[i] = AncestorAt(b, Len(a))[i]
      BY <1>2, <1>3 DEF IsAncestor
    <2> QED
      BY <1>2, <2>1, SeqEqual
  <1> QED
    BY <1>2, <1>3

\* Two ancestors of one block lie on one branch.
LEMMA AncestorsAreComparable ==
    ASSUME NEW S, NEW a \in Seq(S), NEW b \in Seq(S), NEW c \in Seq(S),
           IsAncestor(a, c), IsAncestor(b, c), Len(a) <= Len(b)
    PROVE  IsAncestor(a, b)
  BY LenProperties DEF IsAncestor

\* Ancestors at different heights differ.
LEMMA AncestorsDiffer ==
    ASSUME NEW S, NEW b \in Seq(S), NEW m \in 0 .. Len(b), NEW n \in 0 .. Len(b),
           AncestorAt(b, m) = AncestorAt(b, n)
    PROVE  m = n
  <1>1. Len(AncestorAt(b, m)) = m /\ Len(AncestorAt(b, n)) = n
    BY AncestorAtIsAncestor
  <1> QED
    BY <1>1

\* A branch looks the same from each block above.
LEMMA AncestorAtOfAncestor ==
    ASSUME NEW S, NEW a \in Seq(S), NEW b \in Seq(S), IsAncestor(a, b),
           NEW n \in 0 .. Len(a)
    PROVE  AncestorAt(a, n) = AncestorAt(b, n)
  <1>1. n \in 0 .. Len(b)
    BY LenProperties DEF IsAncestor
  <1>2. /\ AncestorAt(a, n) \in Seq(S) /\ Len(AncestorAt(a, n)) = n
        /\ \A i \in 1 .. n : AncestorAt(a, n)[i] = a[i]
    BY AncestorAtIsAncestor
  <1>3. /\ AncestorAt(b, n) \in Seq(S) /\ Len(AncestorAt(b, n)) = n
        /\ \A i \in 1 .. n : AncestorAt(b, n)[i] = b[i]
    BY <1>1, AncestorAtIsAncestor
  <1>4. \A i \in 1 .. n : a[i] = b[i]
    BY LenProperties DEF IsAncestor
  <1> QED
    BY <1>2, <1>3, <1>4, SeqEqual

\* A block is its own ancestor at its own height.
LEMMA AncestorAtSelf ==
    ASSUME NEW S, NEW b \in Seq(S)
    PROVE  AncestorAt(b, Len(b)) = b
  <1>1. Len(b) \in 0 .. Len(b)
    BY LenProperties
  <1>2. /\ AncestorAt(b, Len(b)) \in Seq(S) /\ Len(AncestorAt(b, Len(b))) = Len(b)
        /\ \A i \in 1 .. Len(b) : AncestorAt(b, Len(b))[i] = b[i]
    BY <1>1, AncestorAtIsAncestor
  <1> QED
    BY <1>2, SeqEqual

\* The parent of an ancestor is the ancestor one below.
LEMMA ParentOfAncestor ==
    ASSUME NEW S, NEW b \in Seq(S), NEW n \in 1 .. Len(b)
    PROVE  Parent(AncestorAt(b, n)) = AncestorAt(b, n - 1)
  <1> DEFINE a == AncestorAt(b, n)
  <1>1. n \in 0 .. Len(b) /\ n - 1 \in 0 .. Len(b)
    BY LenProperties
  <1>2. a \in Seq(S) /\ Len(a) = n /\ IsAncestor(a, b)
    BY <1>1, AncestorAtIsAncestor
  <1>3. Parent(a) = AncestorAt(a, n - 1)
    BY <1>2 DEF Parent, AncestorAt
  <1>4. n - 1 \in 0 .. Len(a)
    BY <1>2
  <1> HIDE DEF a
  <1>5. AncestorAt(a, n - 1) = AncestorAt(b, n - 1)
    BY <1>2, <1>4, AncestorAtOfAncestor
  <1> QED
    BY <1>3, <1>5 DEF a

\* The ancestor at a height.
LEMMA AncestorOf ==
    ASSUME NEW S, NEW b \in Seq(S), NEW n \in 0 .. Number(b)
    PROVE  /\ AncestorAt(b, n) \in Seq(S)
           /\ Number(AncestorAt(b, n)) = n
           /\ IsAncestor(AncestorAt(b, n), b)
  BY AncestorAtIsAncestor DEF Number

\* The block one below.
LEMMA ParentOf ==
    ASSUME NEW S, NEW b \in Seq(S), b # Genesis
    PROVE  /\ Parent(b) = AncestorAt(b, Number(b) - 1)
           /\ Parent(b) \in Seq(S)
           /\ Number(Parent(b)) = Number(b) - 1
           /\ IsAncestor(Parent(b), b)
           /\ Number(b) \in Nat \ {0}
  <1>1. Number(b) \in Nat \ {0} /\ Number(b) - 1 \in 0 .. Number(b)
    BY LenProperties, EmptySeq DEF Number, Genesis
  <1>2. Parent(b) = AncestorAt(b, Number(b) - 1)
    BY DEF Parent, AncestorAt, Number
  <1> QED
    BY <1>1, <1>2, AncestorOf

\* Two ancestors of one block: the lower is the ancestor of the higher, and
\* they are equal when they are at one height.
LEMMA AncestorsMeet ==
    ASSUME NEW S, NEW a \in Seq(S), NEW b \in Seq(S), NEW final \in Seq(S),
           IsAncestor(a, final), IsAncestor(b, final), Number(a) <= Number(b)
    PROVE  /\ IsAncestor(a, b)
           /\ Number(a) \in 0 .. Number(b)
           /\ a = AncestorAt(b, Number(a))
           /\ Number(a) = Number(b) => a = b
  <1>1. IsAncestor(a, b)
    BY AncestorsAreComparable DEF Number
  <1>2. Number(a) \in 0 .. Number(b)
    BY LenProperties DEF Number
  <1>3. a = AncestorAt(b, Number(a))
    BY <1>1, WalkDecidesAncestry DEF Number
  <1>4. AncestorAt(b, Number(b)) = b
    BY AncestorAtSelf DEF Number
  <1> QED
    BY <1>1, <1>2, <1>3, <1>4

\* What an ancestor of b has at a height, b has.
LEMMA AncestorShares ==
    ASSUME NEW S, NEW a \in Seq(S), NEW b \in Seq(S), IsAncestor(a, b)
    PROVE  /\ Number(a) <= Number(b)
           /\ a = AncestorAt(b, Number(a))
           /\ \A n \in 0 .. Number(a) : n \in 0 .. Number(b)
                                        /\ AncestorAt(a, n) = AncestorAt(b, n)
  <1>1. Number(a) <= Number(b) /\ Number(a) \in Nat /\ Number(b) \in Nat
    BY LenProperties DEF IsAncestor, Number
  <1>2. a = AncestorAt(b, Number(a))
    BY <1>1, WalkDecidesAncestry DEF Number
  <1>3. \A n \in 0 .. Number(a) : AncestorAt(a, n) = AncestorAt(b, n)
    BY AncestorAtOfAncestor DEF Number
  <1> QED
    BY <1>1, <1>2, <1>3
=============================================================================
