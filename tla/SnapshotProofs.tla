--------------------------- MODULE SnapshotProofs ---------------------------
(***************************************************************************)
(* Proofs about Snapshot.  The invariant relates the full snapshot to the  *)
(* headers of the last epoch (FullInv) and the booted one to the full one  *)
(* (BootedFits).  It is kept because a change of validators is over, and   *)
(* the history that a boot reads begins after it, before the next epoch    *)
(* block: this is ConstantsAssumption, for any sets, turns and epoch.      *)
(***************************************************************************)
EXTENDS Snapshot, BlocksProofs, FiniteSetTheorems

\* The blocks that the history of a snapshot spans before the last one.
Span(s) == CheckLen(s.validators, s.turn)

\* The blocks since the last epoch block, and its number.
Age(s) == s.number % Epoch
Start(s) == s.number - Age(s)

\* The headers of an epoch; what the last epoch block has announced.
HeadersInv(h, s) ==
    /\ DOMAIN h = {n \in 0 .. s.number : n >= s.number - Epoch}
    /\ \A n \in DOMAIN h : h[n] \in Headers(n)
    /\ s.candidates = h[Start(s)].validators
    /\ s.nextTurn = h[Start(s)].turn

\* A change is to come, or is over when the next set is announced.
ChangeInv(h, s) ==
    /\ \/ Age(s) < Span(s)
       \/ s.validators = s.candidates /\ s.turn = s.nextTurn
    /\ Age(s) = 0 /\ s.number > 0 =>
          /\ s.validators = h[s.number - Epoch].validators
          /\ s.turn = h[s.number - Epoch].turn
    /\ ~IsBohr(s.number) => s.turn = 1 /\ s.nextTurn = 1

\* The history has all sealers that the rule looks at since the last change,
\* whichever set was in force before, and at an epoch block those that a boot
\* reads.
HistoryInv(h, s) ==
    /\ \A n \in DOMAIN s.recents : n > 0 /\ s.recents[n] = h[n].sealer
    /\ \A n \in Start(s) + 1 .. s.number :
          n >= s.number - Span(s) /\ (\A set \in Sets : n - Start(s) > CheckLen(set, MaxTurn)) =>
             n \in DOMAIN s.recents
    /\ Age(s) = 0 /\ s.number > 0 =>
          RecentNumbers(s.number, s.validators) \subseteq DOMAIN s.recents

FullInv(h, s) ==
    SnapshotType(s) /\ HeadersInv(h, s) /\ ChangeInv(h, s) /\ HistoryInv(h, s)

\* A booted snapshot agrees with the full one; its history lacks only blocks
\* before the boot, and those only while a turn is longer than one block.
BootedFits(h, s, t, from) ==
    /\ SnapshotType(t)
    /\ t.number = s.number
    /\ t.validators = s.validators /\ t.candidates = s.candidates
    /\ t.turn = s.turn /\ t.nextTurn = s.nextTurn
    /\ from <= s.number
    /\ DOMAIN t.recents \subseteq DOMAIN s.recents
    /\ \A n \in DOMAIN t.recents : t.recents[n] = h[n].sealer
    /\ \A n \in DOMAIN s.recents : n >= from \/ s.turn = 1 => n \in DOMAIN t.recents

\* The relay has no snapshot, or one that fits.
BootInv ==
    \/ booted = NotBooted
    \/ BootedFits(headers, full, booted, origin)

\* The inductive invariant.
IInv == TypeOK /\ FullInv(headers, full) /\ BootInv

-----------------------------------------------------------------------------
(* Arithmetic of epochs and histories.                                     *)

\* The remainder of the next number.
LEMMA ModStep ==
    ASSUME NEW n \in Nat, NEW e \in Nat \ {0}
    PROVE  (n + 1) % e = IF n % e = e - 1 THEN 0 ELSE (n % e) + 1
  <1> DEFINE q == n \div e
             r == n % e
             p == (n + 1) \div e
             s == (n + 1) % e
  <1>1. n = e * q + r /\ r \in 0 .. e - 1 /\ q \in Int
    OBVIOUS
  <1>2. n + 1 = e * p + s /\ s \in 0 .. e - 1 /\ p \in Int
    OBVIOUS
  <1> HIDE DEF q, r, p, s
  <1>3. e * (p - q) = r + 1 - s
    BY <1>1, <1>2
  <1>4. ASSUME p - q > 1 PROVE FALSE
    <2>1. e * (p - q) >= e * 2
      BY <1>1, <1>2, <1>4
    <2> QED
      BY <1>1, <1>2, <1>3, <2>1
  <1>5. ASSUME p - q < 0 PROVE FALSE
    <2>1. e * (p - q) <= e * (-1)
      BY <1>1, <1>2, <1>5
    <2> QED
      BY <1>1, <1>2, <1>3, <2>1
  <1>6. CASE p = q
    <2>1. r + 1 = s
      BY <1>1, <1>2, <1>6
    <2> QED
      BY <1>1, <1>2, <2>1 DEF r, s
  <1>7. CASE p = q + 1
    <2>1. r + 1 - s = e
      BY <1>1, <1>2, <1>7
    <2> QED
      BY <1>1, <1>2, <2>1 DEF r, s
  <1> QED
    BY <1>1, <1>2, <1>4, <1>5, <1>6, <1>7

\* The remainder of a number.
LEMMA ModType ==
    ASSUME NEW n \in Nat, NEW e \in Nat \ {0}
    PROVE  n % e \in 0 .. e - 1 /\ 0 % e = 0
  OBVIOUS

\* The blocks that a boot reads before the epoch block.
Half(set) == Cardinality(set) \div 2

\* Half of a set, and a longer turn.
LEMMA HalfOfSet ==
    ASSUME NEW set \in Sets
    PROVE  /\ IsFiniteSet(set) /\ Cardinality(set) \in Nat
           /\ Half(set) \in Nat \ {0} /\ Half(set) + 1 <= Cardinality(set)
  <1>1. IsFiniteSet(set) /\ Cardinality(set) > 1
    BY ConstantsAssumption
  <1>2. Cardinality(set) \in Nat
    BY <1>1, FS_CardinalityType
  <1> QED
    BY <1>1, <1>2 DEF Half

\* The history that a set and a turn ask for: half of the set at least, and
\* over before the next epoch block.
LEMMA CheckLenFits ==
    ASSUME NEW set \in Sets, NEW turn \in 1 .. MaxTurn
    PROVE  /\ CheckLen(set, turn) \in Half(set) .. CheckLen(set, MaxTurn)
           /\ CheckLen(set, turn) + Half(set) < Epoch
           /\ CheckLen(set, turn) \in 1 .. Epoch - 2
           /\ turn = 1 => CheckLen(set, turn) = Half(set)
  <1> DEFINE a == Half(set) + 1
  <1>1. a \in Nat /\ a > 1 /\ Half(set) = a - 1
    BY HalfOfSet
  <1>2. MaxTurn \in Nat /\ Epoch \in Nat
    BY ConstantsAssumption
  <1>3. CheckLen(set, turn) = a * turn - 1 /\ CheckLen(set, MaxTurn) = a * MaxTurn - 1
    BY DEF CheckLen, Half
  <1>4. CheckLen(set, MaxTurn) + Half(set) < Epoch
    BY ConstantsAssumption DEF Half
  <1> HIDE DEF a
  <1>5. a * turn <= a * MaxTurn /\ a * turn >= a /\ a * turn \in Nat /\ a * MaxTurn \in Nat
    BY <1>1, <1>2
  <1>6. turn = 1 => a * turn = a
    BY <1>1
  <1> QED
    BY ONLY <1>1, <1>2, <1>3, <1>4, <1>5, <1>6

\* The history of one set ends long enough before the next epoch block for the
\* sealers that a boot with another set reads.
LEMMA PairFits ==
    ASSUME NEW set \in Sets, NEW other \in Sets
    PROVE  CheckLen(set, MaxTurn) + Half(other) < Epoch
  <1>1. MaxTurn \in 1 .. MaxTurn /\ MaxTurn \in Nat /\ Epoch \in Nat
    BY ConstantsAssumption
  <1>2. /\ Half(set) \in Nat /\ Half(other) \in Nat
    BY HalfOfSet
  <1>3. /\ CheckLen(set, MaxTurn) = (Half(set) + 1) * MaxTurn - 1
        /\ CheckLen(other, MaxTurn) = (Half(other) + 1) * MaxTurn - 1
    BY DEF CheckLen, Half
  <1>4. /\ CheckLen(set, MaxTurn) + Half(set) < Epoch
        /\ CheckLen(other, MaxTurn) + Half(other) < Epoch
    BY <1>1, CheckLenFits
  <1>5. /\ (Half(set) + 1) * MaxTurn \in Nat /\ (Half(other) + 1) * MaxTurn \in Nat
    BY <1>1, <1>2
  <1>6. CASE Half(other) <= Half(set)
    BY ONLY <1>1, <1>2, <1>3, <1>4, <1>5, <1>6
  <1>7. CASE Half(set) <= Half(other)
    <2>1. (Half(set) + 1) * MaxTurn <= (Half(other) + 1) * MaxTurn
      BY ONLY <1>1, <1>2, <1>7
    <2> QED
      BY ONLY <1>1, <1>2, <1>3, <1>4, <1>5, <2>1
  <1> QED
    BY <1>2, <1>6, <1>7

-----------------------------------------------------------------------------
(* apply.                                                                  *)

\* The number of the block after s.
NextNumber(s) == s.number + 1

\* The history with the next block.
Grown(s, header) ==
    [n \in DOMAIN Aged(s) \cup {NextNumber(s)} |->
        IF n = NextNumber(s) THEN header.sealer ELSE s.recents[n]]

\* The entries that the next block does not remove because of a change.
Remains(s, n) ==
    \/ ~Changes(s, NextNumber(s))
    \/ /\ ~IsBohr(NextNumber(s))
       /\ LET old == Half(s.validators) + 1
              new == Half(s.candidates) + 1
          IN  n \notin {NextNumber(s) - new - i : i \in 0 .. old - new - 1}

\* What apply makes of a header that it does not reject.
LEMMA Applied ==
    ASSUME NEW s, NEW header, MaySeal(s, header.sealer)
    PROVE  LET r == Apply(s, header)
               n == NextNumber(s)
           IN  /\ r = [number |-> r.number, validators |-> r.validators,
                       candidates |-> r.candidates, recents |-> r.recents,
                       turn |-> r.turn, nextTurn |-> r.nextTurn]
               /\ r.number = n
               /\ r.validators = IF Changes(s, n) THEN s.candidates ELSE s.validators
               /\ r.turn = IF Changes(s, n) THEN s.nextTurn ELSE s.turn
               /\ r.candidates = IF n % Epoch = 0 THEN header.validators ELSE s.candidates
               /\ r.nextTurn = IF n % Epoch = 0 THEN header.turn ELSE s.nextTurn
               /\ r.recents = IF Changes(s, n) THEN Shrunk(s, n, Grown(s, header))
                              ELSE Grown(s, header)
  BY DEF Apply, Grown, NextNumber

\* A header that is rejected.
LEMMA NotApplied ==
    ASSUME NEW s, NEW header, Apply(s, header) # Rejected
    PROVE  MaySeal(s, header.sealer)
  BY DEF Apply

\* The history after a block.
LEMMA AppliedRecents ==
    ASSUME NEW s, NEW header, MaySeal(s, header.sealer)
    PROVE  LET r == Apply(s, header)
               D == (DOMAIN s.recents \ {s.number - Span(s)}) \cup {NextNumber(s)}
           IN  /\ r.recents = [n \in DOMAIN r.recents |-> r.recents[n]]
               /\ DOMAIN r.recents = {n \in D : Remains(s, n)}
               /\ \A n \in DOMAIN r.recents :
                     r.recents[n] = IF n = NextNumber(s) THEN header.sealer ELSE s.recents[n]
  <1> DEFINE r == Apply(s, header)
             D == (DOMAIN s.recents \ {s.number - Span(s)}) \cup {NextNumber(s)}
             g == Grown(s, header)
  <1>1. DOMAIN Aged(s) = DOMAIN s.recents \ {s.number - Span(s)}
    BY DEF Aged, Without, Restrict, Span
  <1>2. /\ DOMAIN g = D
        /\ \A n \in D : g[n] = IF n = NextNumber(s) THEN header.sealer ELSE s.recents[n]
        /\ g = [n \in DOMAIN g |-> g[n]]
    BY <1>1 DEF Grown
  <1>3. r.recents = IF Changes(s, NextNumber(s)) THEN Shrunk(s, NextNumber(s), g) ELSE g
    BY Applied
  <1> HIDE DEF r, g, D
  <1>4. CASE ~Changes(s, NextNumber(s))
    BY <1>2, <1>3, <1>4 DEF r, D, Remains
  <1>5. CASE Changes(s, NextNumber(s)) /\ IsBohr(NextNumber(s))
    <2>1. r.recents = << >>
      BY <1>3, <1>5 DEF Shrunk
    <2>2. DOMAIN r.recents = {} /\ r.recents = [n \in DOMAIN r.recents |-> r.recents[n]]
      BY <2>1
    <2>3. {n \in D : Remains(s, n)} = {}
      BY <1>5 DEF Remains
    <2> QED
      BY <2>2, <2>3 DEF r, D
  <1>6. CASE Changes(s, NextNumber(s)) /\ ~IsBohr(NextNumber(s))
    <2> DEFINE old == Half(s.validators) + 1
               new == Half(s.candidates) + 1
               gone == {NextNumber(s) - new - i : i \in 0 .. old - new - 1}
    <2>1. r.recents = Without(g, gone)
      BY <1>3, <1>6 DEF Shrunk, Half
    <2>2. \A n : Remains(s, n) <=> n \notin gone
      BY <1>6 DEF Remains
    <2> HIDE DEF gone
    <2>3. r.recents = [n \in D \ gone |-> g[n]]
      BY <1>2, <2>1 DEF Without, Restrict
    <2> QED
      BY <1>2, <2>2, <2>3 DEF r, D
  <1> QED
    BY <1>4, <1>5, <1>6

\* The bounds of the history, where they are known for the last block.
LEMMA AppliedBounds ==
    ASSUME NEW s, SnapshotType(s), ~IsBohr(s.number) => s.turn = 1 /\ s.nextTurn = 1,
           NEW header \in Headers(NextNumber(s)), MaySeal(s, header.sealer)
    PROVE  /\ SnapshotType(Apply(s, header))
           /\ ~IsBohr(NextNumber(s)) => Apply(s, header).turn = 1 /\ Apply(s, header).nextTurn = 1
  <1> DEFINE r == Apply(s, header)
             n == NextNumber(s)
             D == (DOMAIN s.recents \ {s.number - Span(s)}) \cup {n}
  <1>1. /\ s.number \in Nat /\ n = s.number + 1
        /\ s.validators \in Sets /\ s.candidates \in Sets
        /\ s.turn \in 1 .. MaxTurn /\ s.nextTurn \in 1 .. MaxTurn
        /\ s.recents \in [DOMAIN s.recents -> Validators]
        /\ DOMAIN s.recents \subseteq s.number - Span(s) .. s.number
        /\ MaxTurn \in Nat /\ Bohr \in Nat
    BY ConstantsAssumption DEF SnapshotType, Span, NextNumber
  <1>2. /\ header.sealer \in Validators
        /\ n % Epoch = 0 => header.validators \in Sets /\ header.turn \in 1 .. MaxTurn
        /\ n % Epoch = 0 /\ ~IsBohr(n) => header.turn = 1
    <2>1. 1 \in 1 .. MaxTurn
      BY ConstantsAssumption
    <2> HIDE DEF n
    <2>2. CASE n % Epoch # 0
      BY <2>2 DEF Headers, n
    <2>3. CASE n % Epoch = 0
      BY <2>1, <2>3 DEF Headers, n
    <2> QED
      BY <2>2, <2>3
  <1>3. /\ r = [number |-> r.number, validators |-> r.validators,
                candidates |-> r.candidates, recents |-> r.recents,
                turn |-> r.turn, nextTurn |-> r.nextTurn]
        /\ r.number = n
        /\ r.validators = IF Changes(s, n) THEN s.candidates ELSE s.validators
        /\ r.turn = IF Changes(s, n) THEN s.nextTurn ELSE s.turn
        /\ r.candidates = IF n % Epoch = 0 THEN header.validators ELSE s.candidates
        /\ r.nextTurn = IF n % Epoch = 0 THEN header.turn ELSE s.nextTurn
    BY Applied
  <1>4. /\ r.recents = [m \in DOMAIN r.recents |-> r.recents[m]]
        /\ DOMAIN r.recents = {m \in D : Remains(s, m)}
        /\ \A m \in DOMAIN r.recents :
              r.recents[m] = IF m = n THEN header.sealer ELSE s.recents[m]
    BY AppliedRecents
  <1> HIDE DEF r, n
  <1>5. DOMAIN r = {"number", "validators", "candidates", "recents", "turn", "nextTurn"}
    <2>1. DOMAIN [number |-> r.number, validators |-> r.validators,
                  candidates |-> r.candidates, recents |-> r.recents,
                  turn |-> r.turn, nextTurn |-> r.nextTurn]
          = {"number", "validators", "candidates", "recents", "turn", "nextTurn"}
      OBVIOUS
    <2> QED
      BY ONLY <1>3, <2>1
  <1>6. /\ r.number \in Nat /\ {r.validators, r.candidates} \subseteq Sets
        /\ {r.turn, r.nextTurn} \subseteq 1 .. MaxTurn
    BY ONLY <1>1, <1>2, <1>3
  <1>7. r.recents \in [DOMAIN r.recents -> Validators]
    <2>1. \A m \in DOMAIN r.recents : r.recents[m] \in Validators
      BY ONLY <1>1, <1>2, <1>4
    <2> QED
      BY ONLY <1>4, <2>1
  <1>8. ~IsBohr(n) => ~IsBohr(s.number)
    BY <1>1 DEF IsBohr
  <1>9. ~IsBohr(n) => r.turn = 1 /\ r.nextTurn = 1
    BY ONLY <1>2, <1>3, <1>8, ~IsBohr(s.number) => s.turn = 1 /\ s.nextTurn = 1
  <1>10. \A m \in D : m \in Int /\ n - Span(s) <= m /\ m <= n
    <2>1. Span(s) \in Nat
      BY <1>1, CheckLenFits, ConstantsAssumption DEF Span
    <2>2. \A m \in DOMAIN s.recents : m \in s.number - Span(s) .. s.number
      BY ONLY <1>1
    <2> QED
      BY ONLY <1>1, <2>1, <2>2
  <1>11. DOMAIN r.recents \subseteq n - Span(r) .. n
    <2>1. Span(r) \in Int /\ Span(s) \in Int
      BY <1>1, <1>6, CheckLenFits, ConstantsAssumption DEF Span
    <2>2. CASE ~Changes(s, n)
      <3>1. Span(r) = Span(s)
        BY <1>3, <2>2 DEF Span
      <3> QED
        BY ONLY <1>1, <1>4, <1>10, <2>1, <3>1
    <2>3. CASE Changes(s, n) /\ IsBohr(n)
      <3>1. DOMAIN r.recents = {}
        BY <1>4, <2>3 DEF Remains, n
      <3> QED
        BY ONLY <3>1
    <2>4. CASE Changes(s, n) /\ ~IsBohr(n)
      <3> DEFINE old == Half(s.validators)
                 new == Half(s.candidates)
      <3>1. /\ Span(s) = old /\ Span(r) = new
            /\ old \in Nat /\ new \in Nat
        <4>1. s.turn = 1 /\ r.turn = 1 /\ r.validators = s.candidates
          BY <1>3, <1>8, <1>9, <2>4
        <4> QED
          BY <1>1, <1>6, <4>1, CheckLenFits, HalfOfSet DEF Span
      <3>2. \A m \in DOMAIN r.recents :
               m \in D /\ m \notin {n - (new + 1) - i : i \in 0 .. (old + 1) - (new + 1) - 1}
        BY <1>4, <2>4 DEF Remains, n
      <3> HIDE DEF old, new
      <3>3. ASSUME NEW m \in DOMAIN r.recents
            PROVE  m \in n - new .. n
        <4>1. m \in Int /\ n - old <= m /\ m <= n
          BY <1>10, <3>1, <3>2
        <4>2. ASSUME m < n - new
              PROVE  FALSE
          <5> DEFINE i == n - (new + 1) - m
          <5>1. i \in 0 .. (old + 1) - (new + 1) - 1 /\ m = n - (new + 1) - i
            BY ONLY <1>1, <3>1, <4>1, <4>2
          <5> QED
            BY <3>2, <5>1
        <4> QED
          BY ONLY <1>1, <3>1, <4>1, <4>2
      <3> QED
        BY <3>1, <3>3
    <2> QED
      BY <2>2, <2>3, <2>4
  <1> QED
    BY <1>3, <1>5, <1>6, <1>7, <1>9, <1>11 DEF SnapshotType, Span, r, n

-----------------------------------------------------------------------------
(* The rule.                                                               *)

\* A snapshot that knows fewer of the sealers accepts what the other accepts.
LEMMA SealsToo ==
    ASSUME NEW s, NEW t, NEW v, SnapshotType(s),
           t.number = s.number, t.validators = s.validators, t.turn = s.turn,
           DOMAIN t.recents \subseteq DOMAIN s.recents,
           \A n \in DOMAIN t.recents : t.recents[n] = s.recents[n],
           MaySeal(s, v)
    PROVE  MaySeal(t, v)
  <1> DEFINE a == Aged(s)
             b == Aged(t)
             n == s.number + 1
             length == CheckLen(s.validators, s.turn)
             bound == IF s.number > length THEN s.number - length ELSE 0
             A == {m \in DOMAIN a : m > bound /\ a[m] = v}
             B == {m \in DOMAIN b : m > bound /\ b[m] = v}
  <1>1. /\ DOMAIN a = DOMAIN s.recents \ {s.number - length}
        /\ DOMAIN b = DOMAIN t.recents \ {s.number - length}
        /\ \A m \in DOMAIN a : a[m] = s.recents[m]
        /\ \A m \in DOMAIN b : b[m] = t.recents[m]
    BY DEF Aged, Without, Restrict
  <1>2. /\ DOMAIN b \subseteq DOMAIN a
        /\ \A m \in DOMAIN b : b[m] = a[m]
    BY <1>1
  <1>3. /\ CountRecents(s, a, v) = Cardinality(A)
        /\ CountRecents(t, b, v) = Cardinality(B)
    BY DEF CountRecents
  <1>4. Cardinality(B) <= Cardinality(A) /\ Cardinality(A) \in Nat /\ Cardinality(B) \in Nat
    <2>1. IsFiniteSet(A)
      <3>1. s.number - length \in Int /\ s.number \in Int
        BY CheckLenFits, ConstantsAssumption DEF SnapshotType
      <3>2. IsFiniteSet(s.number - length .. s.number)
        BY <3>1, FS_Interval
      <3>3. A \subseteq s.number - length .. s.number
        BY <1>1 DEF SnapshotType
      <3> QED
        BY <3>2, <3>3, FS_Subset
    <2>2. B \subseteq A
      BY <1>2
    <2> QED
      BY <2>1, <2>2, FS_Subset, FS_CardinalityType
  <1>5. v \in s.validators /\ ~SignRecently(s, a, n, v)
    BY DEF MaySeal
  <1>6. s.turn \in Nat
    BY ConstantsAssumption DEF SnapshotType
  <1> HIDE DEF a, b, n, A, B
  <1>7. ~SignRecently(t, b, n, v)
    <2>1. CASE IsBohr(n)
      <3>1. ~(Cardinality(A) >= s.turn)
        BY <1>3, <1>5, <2>1 DEF SignRecently
      <3>2. ~(Cardinality(B) >= s.turn)
        BY ONLY <1>4, <1>6, <3>1
      <3> QED
        BY <1>3, <2>1, <3>2 DEF SignRecently
    <2>2. CASE ~IsBohr(n)
      BY <1>2, <1>5, <2>2 DEF SignRecently
    <2> QED
      BY <2>1, <2>2
  <1> QED
    BY <1>5, <1>7 DEF MaySeal, b, n

-----------------------------------------------------------------------------
(* The full snapshot.                                                      *)

\* The next block of the chain.
LEMMA SealKeepsFull ==
    ASSUME NEW s, NEW h, FullInv(h, s),
           NEW header \in Headers(s.number + 1), MaySeal(s, header.sealer),
           NEW k, k = [n \in {m \in 0 .. s.number + 1 : m >= s.number + 1 - Epoch} |->
                         IF n = s.number + 1 THEN header ELSE h[n]]
    PROVE  /\ FullInv(k, Apply(s, header))
           /\ \A n \in DOMAIN s.recents : s.recents[n] = h[n].sealer /\ k[n] = h[n]
  <1> DEFINE r == Apply(s, header)
  <1>0. PICK N \in Nat : N = s.number
    BY DEF FullInv, SnapshotType
  <1>1. /\ NextNumber(s) = N + 1
        /\ s.validators \in Sets /\ s.candidates \in Sets
        /\ s.turn \in 1 .. MaxTurn /\ s.nextTurn \in 1 .. MaxTurn
        /\ DOMAIN s.recents \subseteq N - Span(s) .. N
        /\ Epoch \in Nat \ {0} /\ MaxTurn \in Nat
        /\ N \in Nat
        /\ SnapshotType(s)
    BY <1>0, ConstantsAssumption DEF FullInv, SnapshotType, Span, NextNumber
  <1>2. SnapshotType(r) /\ (~IsBohr(N + 1) => r.turn = 1 /\ r.nextTurn = 1)
    <2>1. ~IsBohr(s.number) => s.turn = 1 /\ s.nextTurn = 1
      BY DEF FullInv, ChangeInv
    <2>2. header \in Headers(NextNumber(s))
      BY DEF NextNumber
    <2> QED
      BY <1>1, <2>1, <2>2, AppliedBounds
  <1>3. /\ r.number = N + 1
        /\ r.validators = IF Changes(s, N + 1) THEN s.candidates ELSE s.validators
        /\ r.turn = IF Changes(s, N + 1) THEN s.nextTurn ELSE s.turn
        /\ r.candidates = IF (N + 1) % Epoch = 0 THEN header.validators ELSE s.candidates
        /\ r.nextTurn = IF (N + 1) % Epoch = 0 THEN header.turn ELSE s.nextTurn
    BY <1>1, Applied
  <1>4. /\ DOMAIN r.recents = {n \in (DOMAIN s.recents \ {N - Span(s)}) \cup {N + 1} :
                                  Remains(s, n)}
        /\ \A n \in DOMAIN r.recents :
              r.recents[n] = IF n = N + 1 THEN header.sealer ELSE s.recents[n]
    <2> DEFINE D == (DOMAIN s.recents \ {N - Span(s)}) \cup {N + 1}
    <2>1. /\ D = (DOMAIN s.recents \ {s.number - Span(s)}) \cup {NextNumber(s)}
          /\ NextNumber(s) = N + 1
      BY <1>0, <1>1
    <2>2. /\ DOMAIN r.recents =
               {n \in (DOMAIN s.recents \ {s.number - Span(s)}) \cup {NextNumber(s)} :
                   Remains(s, n)}
          /\ \A n \in DOMAIN r.recents :
                r.recents[n] = IF n = NextNumber(s) THEN header.sealer ELSE s.recents[n]
      BY AppliedRecents
    <2> HIDE DEF D, r
    <2>3. DOMAIN r.recents = {n \in D : Remains(s, n)}
      BY ONLY <2>1, <2>2
    <2> QED
      BY ONLY <2>1, <2>2, <2>3 DEF D
  <1>5. /\ Span(s) \in 1 .. Epoch - 2 /\ Span(r) \in 1 .. Epoch - 2
        /\ Span(s) <= CheckLen(s.validators, MaxTurn)
        /\ CheckLen(s.validators, MaxTurn) \in Int
        /\ Half(r.validators) <= Span(r) /\ Half(r.validators) \in Nat
    <2>1. r.validators \in Sets /\ r.turn \in 1 .. MaxTurn
      BY <1>2 DEF SnapshotType
    <2>2. MaxTurn \in 1 .. MaxTurn
      BY ConstantsAssumption
    <2>3. /\ CheckLen(s.validators, s.turn) \in
                Half(s.validators) .. CheckLen(s.validators, MaxTurn)
          /\ CheckLen(s.validators, s.turn) \in 1 .. Epoch - 2
          /\ CheckLen(s.validators, MaxTurn) \in 1 .. Epoch - 2
      BY <1>1, <2>2, CheckLenFits
    <2>4. /\ CheckLen(r.validators, r.turn) \in
                Half(r.validators) .. CheckLen(r.validators, MaxTurn)
          /\ CheckLen(r.validators, r.turn) \in 1 .. Epoch - 2
          /\ Half(r.validators) \in Nat
      BY <2>1, CheckLenFits, HalfOfSet
    <2> QED
      BY <2>3, <2>4 DEF Span
  <1>6. /\ DOMAIN k = {n \in 0 .. N + 1 : n >= N + 1 - Epoch}
        /\ k[N + 1] = header
        /\ \A n \in 0 .. N : n >= N + 1 - Epoch => k[n] = h[n] /\ n \in DOMAIN h
    <2>1. N + 1 \in {n \in 0 .. N + 1 : n >= N + 1 - Epoch}
      BY <1>1
    <2>2. \A n \in 0 .. N : n >= N + 1 - Epoch =>
             n \in {m \in 0 .. N + 1 : m >= N + 1 - Epoch} /\ n # N + 1
      BY <1>1
    <2>3. DOMAIN h = {n \in 0 .. N : n >= N - Epoch}
      BY <1>0 DEF FullInv, HeadersInv
    <2>4. \A n \in 0 .. N : n >= N + 1 - Epoch => n \in DOMAIN h
      BY <1>1, <2>3
    <2> QED
      BY <1>0, <2>1, <2>2, <2>4
  <1>7. /\ Age(s) \in 0 .. Epoch - 1 /\ Start(s) = N - Age(s)
        /\ Age(r) = (N + 1) % Epoch /\ Start(r) = N + 1 - Age(r)
        /\ Age(r) = IF Age(s) = Epoch - 1 THEN 0 ELSE Age(s) + 1
        /\ Start(s) \in 0 .. N
    <2>1. Age(s) = N % Epoch /\ Start(s) = N - Age(s)
      BY <1>0 DEF Age, Start
    <2>2. Age(r) = (N + 1) % Epoch /\ Start(r) = N + 1 - Age(r)
      <3> HIDE DEF r
      <3> QED
        BY ONLY <1>1, <1>3 DEF Age, Start
    <2>3. Age(s) \in 0 .. Epoch - 1 /\ Age(s) <= N
      <3>1. N % Epoch \in 0 .. Epoch - 1
        BY <1>1, ModType
      <3>2. N % Epoch <= N
        <4>1. N = Epoch * (N \div Epoch) + (N % Epoch) /\ N \div Epoch \in Nat
          BY <1>1
        <4>2. Epoch * (N \div Epoch) >= 0 /\ Epoch * (N \div Epoch) \in Int
          BY <1>1, <4>1
        <4> QED
          BY ONLY <1>1, <3>1, <4>1, <4>2
      <3> QED
        BY <2>1, <3>1, <3>2
    <2>4. Age(r) = IF Age(s) = Epoch - 1 THEN 0 ELSE Age(s) + 1
      BY <1>1, <2>1, <2>2, ModStep
    <2>5. Start(s) \in 0 .. N
      BY ONLY <1>1, <2>1, <2>3
    <2> QED
      BY ONLY <2>1, <2>2, <2>3, <2>4, <2>5
  <1>8. /\ DOMAIN h = {n \in 0 .. N : n >= N - Epoch}
        /\ s.candidates = h[Start(s)].validators
        /\ s.nextTurn = h[Start(s)].turn
        /\ \A n \in DOMAIN h : h[n] \in Headers(n)
    BY <1>0 DEF FullInv, HeadersInv
  <1>9. \/ Age(s) < Span(s)
        \/ s.validators = s.candidates /\ s.turn = s.nextTurn
    BY DEF FullInv, ChangeInv
  <1>10. /\ \A n \in DOMAIN s.recents : n > 0 /\ s.recents[n] = h[n].sealer
         /\ \A n \in Start(s) + 1 .. N :
               n >= N - Span(s) /\ (\A set \in Sets : n - Start(s) > CheckLen(set, MaxTurn)) =>
                  n \in DOMAIN s.recents
    BY <1>0 DEF FullInv, HistoryInv
  <1>12. Changes(s, N + 1) <=> Age(r) = Span(s)
    BY <1>7 DEF Changes, Span
  <1>13. \A n : ~Changes(s, N + 1) => Remains(s, n)
    BY <1>1 DEF Remains
  <1>14. header \in Headers(N + 1)
    BY <1>0
  <1> HIDE DEF r
  <1>15. \A n \in DOMAIN k : k[n] \in Headers(n)
    <2>1. ASSUME NEW n \in DOMAIN k, n # N + 1
          PROVE  n \in 0 .. N /\ n >= N + 1 - Epoch
      BY ONLY <1>1, <1>6, <2>1
    <2> QED
      BY <1>6, <1>8, <1>14, <2>1
  <1>16. HeadersInv(k, r)
    <2>1. DOMAIN k = {n \in 0 .. r.number : n >= r.number - Epoch}
      BY ONLY <1>1, <1>3, <1>6
    <2>2. CASE Age(r) = 0
      <3>1. Start(r) = N + 1
        BY <1>1, <1>7, <2>2
      <3> QED
        BY ONLY <1>3, <1>6, <1>7, <1>15, <2>1, <2>2, <3>1 DEF HeadersInv
    <2>3. CASE Age(r) # 0
      <3>1. Start(r) = Start(s) /\ Start(s) \in 0 .. N /\ Start(s) >= N + 1 - Epoch
        BY ONLY <1>1, <1>7, <2>3
      <3>2. k[Start(s)] = h[Start(s)]
        BY <1>6, <3>1
      <3> QED
        BY ONLY <1>3, <1>7, <1>8, <1>15, <2>1, <2>3, <3>1, <3>2 DEF HeadersInv
    <2> QED
      BY <2>2, <2>3
  <1>17. ChangeInv(k, r)
    <2>1. CASE Age(r) = 0
      <3>1. Age(s) = Epoch - 1 /\ Start(s) = N + 1 - Epoch
        BY ONLY <1>1, <1>7, <2>1
      <3>2. s.validators = s.candidates /\ s.turn = s.nextTurn
        BY ONLY <1>1, <1>5, <1>9, <3>1
      <3>3. ~Changes(s, N + 1)
        BY ONLY <1>5, <1>12, <2>1
      <3>4. k[Start(s)] = h[Start(s)]
        BY ONLY <1>1, <1>6, <1>7, <3>1
      <3>5. r.validators = k[N + 1 - Epoch].validators /\ r.turn = k[N + 1 - Epoch].turn
        BY ONLY <1>3, <1>8, <3>1, <3>2, <3>3, <3>4
      <3>6. Age(r) < Span(r)
        BY ONLY <1>5, <2>1
      <3> QED
        BY ONLY <1>1, <1>2, <1>3, <3>5, <3>6 DEF ChangeInv
    <2>2. CASE Age(r) # 0
      <3>1. r.candidates = s.candidates /\ r.nextTurn = s.nextTurn /\ Age(r) = Age(s) + 1
        BY ONLY <1>3, <1>7, <2>2
      <3>2. \/ Age(r) < Span(r)
            \/ r.validators = r.candidates /\ r.turn = r.nextTurn
        <4>1. CASE Changes(s, N + 1)
          BY ONLY <1>3, <3>1, <4>1
        <4>2. CASE ~Changes(s, N + 1)
          <5>1. Span(r) = Span(s)
            BY <1>3, <4>2 DEF Span
          <5>2. Age(r) # Span(s)
            BY <1>12, <4>2
          <5>3. Age(s) < Span(s) => Age(r) < Span(r)
            BY ONLY <1>5, <1>7, <3>1, <5>1, <5>2
          <5> QED
            BY ONLY <1>3, <1>9, <3>1, <4>2, <5>3
        <4> QED
          BY ONLY <4>1, <4>2
      <3> QED
        BY ONLY <1>1, <1>2, <1>3, <2>2, <3>2 DEF ChangeInv
    <2> QED
      BY <2>1, <2>2
  <1>18. \A n \in DOMAIN s.recents :
            /\ n \in 1 .. N /\ n >= N + 1 - Epoch
            /\ k[n] = h[n] /\ s.recents[n] = h[n].sealer
    <2>1. \A n \in DOMAIN s.recents : n \in 1 .. N /\ n >= N + 1 - Epoch
      BY ONLY <1>1, <1>5, <1>10
    <2> QED
      BY ONLY <1>1, <1>6, <1>10, <2>1
  <1>19. HistoryInv(k, r)
    <2>1. \A n \in DOMAIN r.recents : n > 0 /\ r.recents[n] = k[n].sealer
      <3>1. ASSUME NEW n \in DOMAIN r.recents
            PROVE  n > 0 /\ r.recents[n] = k[n].sealer
        <4>1. CASE n = N + 1
          BY ONLY <1>1, <1>4, <1>6, <3>1, <4>1
        <4>2. CASE n # N + 1
          <5>1. n \in DOMAIN s.recents /\ r.recents[n] = s.recents[n]
            BY ONLY <1>4, <3>1, <4>2
          <5> QED
            BY ONLY <1>1, <1>18, <5>1
        <4> QED
          BY <4>1, <4>2
      <3> QED
        BY <3>1
    <2>2. ASSUME NEW n \in Start(r) + 1 .. N + 1, n >= N + 1 - Span(r),
                 \A set \in Sets : n - Start(r) > CheckLen(set, MaxTurn)
          PROVE  n \in DOMAIN r.recents
      <3>1. /\ Start(r) \in Int /\ n \in Int /\ n <= N + 1 /\ n > Start(r)
        BY ONLY <1>1, <1>7, <2>2
      <3>2. Age(r) # 0
        BY ONLY <1>1, <1>7, <3>1
      <3>3. Start(r) = Start(s) /\ Age(r) = Age(s) + 1
        BY ONLY <1>1, <1>7, <3>2
      <3>4. n - Start(s) > CheckLen(s.validators, MaxTurn)
        BY ONLY <1>1, <2>2, <3>3
      <3>5. n - Start(s) <= Age(r)
        BY ONLY <1>1, <1>7, <3>1, <3>3
      <3>6. ~Changes(s, N + 1)
        BY ONLY <1>5, <1>7, <1>12, <3>1, <3>3, <3>4, <3>5
      <3>7. Span(r) = Span(s) /\ Remains(s, n)
        BY <1>3, <1>13, <3>6 DEF Span
      <3>8. n # N - Span(s)
        BY ONLY <1>1, <1>5, <2>2, <3>1, <3>7
      <3>9. CASE n = N + 1
        BY ONLY <1>4, <3>7, <3>9
      <3>10. CASE n # N + 1
        <4>1. n \in Start(s) + 1 .. N /\ n >= N - Span(s)
          BY ONLY <1>1, <1>5, <1>7, <2>2, <3>1, <3>3, <3>7, <3>10
        <4>2. \A set \in Sets : n - Start(s) > CheckLen(set, MaxTurn)
          BY ONLY <2>2, <3>3
        <4>3. n \in DOMAIN s.recents
          BY <1>10, <4>1, <4>2
        <4> QED
          BY ONLY <1>4, <3>7, <3>8, <4>3
      <3> QED
        BY <3>9, <3>10
    <2>3. ASSUME Age(r) = 0, NEW n \in RecentNumbers(N + 1, r.validators)
          PROVE  n \in DOMAIN r.recents
      <3>1. n \in Int /\ n <= N + 1 /\ n >= N + 1 - Half(r.validators)
        BY <1>1, <1>5 DEF RecentNumbers, Half
      <3>2. ~Changes(s, N + 1)
        BY ONLY <1>5, <1>12, <2>3
      <3>3. Span(r) = Span(s) /\ r.validators = s.validators /\ Remains(s, n)
        BY <1>3, <1>13, <3>2 DEF Span
      <3>4. CASE n = N + 1
        BY ONLY <1>4, <3>3, <3>4
      <3>5. CASE n # N + 1
        <4>1. Start(s) = N + 1 - Epoch /\ n <= N /\ n >= Start(s) + Epoch - Half(r.validators)
          <5>1. Age(s) = Epoch - 1
            BY ONLY <1>1, <1>7, <2>3
          <5>2. Start(s) = N + 1 - Epoch
            BY ONLY <1>1, <1>7, <5>1
          <5>3. Start(s) + Epoch = N + 1
            BY ONLY <1>1, <5>2
          <5>4. Half(r.validators) \in Int
            BY ONLY <1>5
          <5> QED
            BY ONLY <1>1, <3>1, <3>5, <5>2, <5>3, <5>4
        <4>2. ASSUME NEW set \in Sets
              PROVE  n - Start(s) > CheckLen(set, MaxTurn) /\ CheckLen(set, MaxTurn) \in Nat
          <5>1. CheckLen(set, MaxTurn) + Half(s.validators) < Epoch
            BY <1>1, PairFits
          <5>2. CheckLen(set, MaxTurn) \in Nat
            <6>1. MaxTurn \in 1 .. MaxTurn
              BY ConstantsAssumption
            <6> QED
              BY <6>1, CheckLenFits, <1>1
          <5> QED
            BY ONLY <1>1, <1>5, <1>7, <3>1, <3>3, <4>1, <5>1, <5>2
        <4>3. n - Start(s) > 0
          BY ONLY <1>1, <1>7, <3>1, <4>1, <4>2, s.validators \in Sets
        <4>4. n \in Start(s) + 1 .. N /\ n >= N - Span(s) /\ n # N - Span(s)
          BY ONLY <1>1, <1>5, <1>7, <3>1, <3>3, <4>1, <4>3
        <4>5. n \in DOMAIN s.recents
          BY <1>10, <4>2, <4>4
        <4> QED
          BY ONLY <1>4, <3>3, <4>4, <4>5
      <3> QED
        BY <3>4, <3>5
    <2>6. Age(r) = 0 => RecentNumbers(N + 1, r.validators) \subseteq DOMAIN r.recents
      BY <2>3
    <2>7. \A n \in Start(r) + 1 .. r.number :
             n >= r.number - Span(r) /\ (\A set \in Sets : n - Start(r) > CheckLen(set, MaxTurn)) =>
                n \in DOMAIN r.recents
      <3> SUFFICES ASSUME NEW n \in Start(r) + 1 .. r.number, n >= r.number - Span(r),
                          \A set \in Sets : n - Start(r) > CheckLen(set, MaxTurn)
                   PROVE  n \in DOMAIN r.recents
        OBVIOUS
      <3>1. r.number = N + 1
        BY ONLY <1>3
      <3>2. Start(r) \in Int /\ Span(r) \in Int /\ N + 1 \in Int
        BY ONLY <1>1, <1>5, <1>7
      <3>3. Start(r) + 1 <= n /\ n <= N + 1 /\ n \in Int /\ n >= N + 1 - Span(r)
        BY ONLY <3>1, <3>2, n \in Start(r) + 1 .. r.number, n >= r.number - Span(r)
      <3>4. n \in Start(r) + 1 .. N + 1 /\ n >= N + 1 - Span(r)
        BY ONLY <3>2, <3>3
      <3>5. \A set \in Sets : n - Start(r) > CheckLen(set, MaxTurn)
        OBVIOUS
      <3> QED
        BY ONLY <2>2, <3>4, <3>5
    <2>8. Age(r) = 0 => RecentNumbers(r.number, r.validators) \subseteq DOMAIN r.recents
      BY ONLY <1>1, <1>3, <2>6
    <2> QED
      BY ONLY <2>1, <2>7, <2>8 DEF HistoryInv
  <1> QED
    BY <1>2, <1>16, <1>17, <1>18, <1>19 DEF FullInv, r

\* The genesis block is the last epoch block, and nobody has sealed.
LEMMA GenesisFits ==
    ASSUME NEW genesis \in Headers(0), genesis.turn = 1,
           NEW h, h = [n \in {0} |-> genesis],
           NEW s, s = [number |-> 0, validators |-> genesis.validators,
                       candidates |-> genesis.validators, recents |-> << >>,
                       turn |-> 1, nextTurn |-> 1]
    PROVE  FullInv(h, s)
  <1>1. Epoch \in Nat \ {0} /\ MaxTurn \in Nat \ {0} /\ 0 % Epoch = 0 /\ Bohr \in Nat
    BY ConstantsAssumption, ModType
  <1>2. genesis.validators \in Sets
    BY <1>1 DEF Headers
  <1>3. /\ s.number = 0 /\ s.validators = genesis.validators
        /\ s.candidates = genesis.validators /\ s.recents = << >>
        /\ s.turn = 1 /\ s.nextTurn = 1
        /\ DOMAIN s = {"number", "validators", "candidates", "recents", "turn",
                       "nextTurn"}
    OBVIOUS
  <1>4. DOMAIN s.recents = {} /\ s.recents \in [DOMAIN s.recents -> Validators]
    BY <1>3
  <1>5. SnapshotType(s)
    BY <1>1, <1>2, <1>3, <1>4 DEF SnapshotType
  <1>6. Age(s) = 0 /\ Start(s) = 0
    BY <1>1, <1>3 DEF Age, Start
  <1>7. /\ DOMAIN h = {0} /\ h[0] = genesis
    OBVIOUS
  <1>8. HeadersInv(h, s)
    <2>1. {n \in 0 .. s.number : n >= s.number - Epoch} = {0}
      BY <1>1, <1>3
    <2> QED
      BY ONLY <1>3, <1>6, <1>7, <2>1, genesis \in Headers(0), genesis.turn = 1 DEF HeadersInv
  <1>9. ChangeInv(h, s)
    <2>1. Span(s) > 0
      BY <1>1, <1>2, <1>3, CheckLenFits DEF Span
    <2> QED
      BY ONLY <1>3, <1>6, <2>1 DEF ChangeInv
  <1>10. HistoryInv(h, s)
    BY ONLY <1>3, <1>4, <1>6 DEF HistoryInv
  <1> QED
    BY <1>5, <1>8, <1>9, <1>10 DEF FullInv

-----------------------------------------------------------------------------
(* The invariant.                                                          *)

\* The invariant holds at genesis.
LEMMA InitKeeps == Init => IInv
  <1> SUFFICES ASSUME Init PROVE IInv
    OBVIOUS
  <1>1. PICK genesis \in Headers(0) :
          /\ genesis.turn = 1
          /\ headers = [n \in {0} |-> genesis]
          /\ full = [number |-> 0, validators |-> genesis.validators,
                     candidates |-> genesis.validators, recents |-> << >>,
                     turn |-> 1, nextTurn |-> 1]
    BY DEF Init
  <1>2. FullInv(headers, full)
    BY <1>1, GenesisFits
  <1>3. booted = NotBooted /\ origin = 0
    BY DEF Init
  <1>4. TypeOK
    BY <1>2, <1>3 DEF TypeOK, FullInv, HeadersInv
  <1> QED
    BY <1>2, <1>3, <1>4 DEF IInv, BootInv

\* The relay applies the next block, and accepts it.
LEMMA SealKeepsBooted ==
    ASSUME NEW s, NEW t, NEW h, NEW k, NEW header \in Headers(s.number + 1), NEW from \in Nat,
           FullInv(h, s), BootedFits(h, s, t, from), MaySeal(s, header.sealer),
           \A n \in DOMAIN s.recents : s.recents[n] = h[n].sealer /\ k[n] = h[n],
           k[s.number + 1] = header
    PROVE  BootedFits(k, Apply(s, header), Apply(t, header), from)
  <1> USE DEF BootedFits
  <1> DEFINE r == Apply(s, header)
             u == Apply(t, header)
             n1 == s.number + 1
  <1>1. /\ SnapshotType(s) /\ s.number \in Nat /\ n1 \in Nat
        /\ NextNumber(s) = n1 /\ NextNumber(t) = n1
    BY DEF FullInv, SnapshotType, NextNumber
  <1>2. MaySeal(t, header.sealer)
    BY <1>1, SealsToo
  <1>3. ~IsBohr(s.number) => s.turn = 1 /\ s.nextTurn = 1
    BY DEF FullInv, ChangeInv
  <1>4. SnapshotType(u)
    BY <1>1, <1>2, <1>3, AppliedBounds
  <1>5. /\ Changes(t, n1) <=> Changes(s, n1)
        /\ Span(t) = Span(s)
        /\ \A n : Remains(t, n) <=> Remains(s, n)
    BY <1>1 DEF Changes, Span, Remains
  <1>6. /\ r.number = n1
        /\ r.validators = IF Changes(s, n1) THEN s.candidates ELSE s.validators
        /\ r.turn = IF Changes(s, n1) THEN s.nextTurn ELSE s.turn
        /\ r.candidates = IF n1 % Epoch = 0 THEN header.validators ELSE s.candidates
        /\ r.nextTurn = IF n1 % Epoch = 0 THEN header.turn ELSE s.nextTurn
    BY <1>1, Applied
  <1>7. /\ u.number = n1
        /\ u.validators = IF Changes(t, n1) THEN t.candidates ELSE t.validators
        /\ u.turn = IF Changes(t, n1) THEN t.nextTurn ELSE t.turn
        /\ u.candidates = IF n1 % Epoch = 0 THEN header.validators ELSE t.candidates
        /\ u.nextTurn = IF n1 % Epoch = 0 THEN header.turn ELSE t.nextTurn
    BY <1>1, <1>2, Applied
  <1> DEFINE R == (DOMAIN s.recents \ {s.number - Span(s)}) \cup {n1}
             U == (DOMAIN t.recents \ {s.number - Span(s)}) \cup {n1}
  <1>8. /\ DOMAIN r.recents = {n \in R : Remains(s, n)}
    <2>1. DOMAIN r.recents =
             {n \in (DOMAIN s.recents \ {s.number - Span(s)}) \cup {NextNumber(s)} : Remains(s, n)}
      BY AppliedRecents
    <2>2. R = (DOMAIN s.recents \ {s.number - Span(s)}) \cup {NextNumber(s)}
      BY ONLY <1>1
    <2> HIDE DEF R, r
    <2> QED
      BY ONLY <2>1, <2>2
  <1>9. /\ DOMAIN u.recents = {n \in U : Remains(t, n)}
        /\ \A n \in DOMAIN u.recents :
              u.recents[n] = IF n = n1 THEN header.sealer ELSE t.recents[n]
    <2>1. /\ U = (DOMAIN t.recents \ {t.number - Span(t)}) \cup {NextNumber(t)}
      BY <1>1, <1>5
    <2>2. /\ DOMAIN u.recents =
                {n \in (DOMAIN t.recents \ {t.number - Span(t)}) \cup {NextNumber(t)} :
                    Remains(t, n)}
          /\ \A n \in DOMAIN u.recents :
              u.recents[n] = IF n = NextNumber(t) THEN header.sealer ELSE t.recents[n]
      BY ONLY <1>2, AppliedRecents
    <2> HIDE DEF U, u
    <2> QED
      BY ONLY <1>1, <2>1, <2>2
  <1>10. U \subseteq R /\ n1 \in U
    OBVIOUS
  <1> HIDE DEF r, u
  <1>11. /\ u.number = r.number /\ u.validators = r.validators
         /\ u.candidates = r.candidates /\ u.turn = r.turn /\ u.nextTurn = r.nextTurn
    BY <1>5, <1>6, <1>7
  <1>12. u.number \in Nat /\ from <= r.number
    BY <1>1, <1>6, <1>11
  <1>13. DOMAIN u.recents \subseteq DOMAIN r.recents
    <2> HIDE DEF U, R
    <2> QED
      BY <1>5, <1>8, <1>9, <1>10
  <1>14. ASSUME NEW n \in DOMAIN u.recents
         PROVE  u.recents[n] = k[n].sealer
    <2>1. CASE n = n1
      BY <1>9, <2>1
    <2>2. CASE n # n1
      <3>1. n \in DOMAIN t.recents /\ u.recents[n] = t.recents[n]
        BY <1>9, <2>2
      <3> QED
        BY <3>1
    <2> QED
      BY <2>1, <2>2
  <1>15. ASSUME NEW n \in DOMAIN r.recents, n >= from \/ r.turn = 1
         PROVE  n \in DOMAIN u.recents
    <2>1. n \in R /\ Remains(s, n)
      BY <1>8
    <2>2. CASE n = n1
      BY <1>5, <1>9, <1>10, <2>1, <2>2
    <2>3. CASE n # n1
      <3>1. n \in DOMAIN s.recents /\ n # s.number - Span(s)
        BY <2>1, <2>3
      <3>2. CASE n >= from \/ s.turn = 1
        <4>1. n \in DOMAIN t.recents
          BY <3>1, <3>2
        <4> QED
          BY <1>5, <1>9, <2>1, <3>1, <4>1
      <3>3. CASE s.turn # 1 /\ r.turn = 1
        <4>1. Changes(s, n1)
          BY <1>6, <3>3
        <4>2. IsBohr(s.number)
          BY <1>3, <3>3
        <4>3. IsBohr(n1)
          BY <1>1, <4>2, ConstantsAssumption DEF IsBohr
        <4>4. ~Remains(s, n)
          BY <1>1, <4>1, <4>3 DEF Remains
        <4> QED
          BY <2>1, <4>4
      <3> QED
        BY <1>15, <3>2, <3>3
    <2> QED
      BY <2>2, <2>3
  <1> QED
    BY <1>4, <1>11, <1>12, <1>13, <1>14, <1>15 DEF r, u

\* The parts of the invariant that the full snapshot keeps.
LEMMA FullHasType ==
    ASSUME NEW h, NEW s, FullInv(h, s)
    PROVE  SnapshotType(s) /\ \A n \in DOMAIN h : h[n] \in Headers(n)
  BY DEF FullInv, HeadersInv

\* A sealed block, applied by the node and by the relay.
LEMMA SealKeeps == IInv /\ Seal => IInv'
  <1> SUFFICES ASSUME IInv, Seal PROVE IInv'
    OBVIOUS
  <1> DEFINE n1 == full.number + 1
  <1>1. PICK header \in Headers(n1) :
          /\ full' = Apply(full, header)
          /\ full' # Rejected
          /\ booted' = IF booted.number < 0 THEN booted ELSE Apply(booted, header)
          /\ headers' = [n \in {m \in 0 .. full'.number : m >= full'.number - Epoch} |->
                           IF n = full'.number THEN header ELSE headers[n]]
    BY DEF Seal
  <1>2. /\ FullInv(headers, full) /\ SnapshotType(full) /\ origin' = origin
        /\ origin \in Nat /\ full.number \in Nat /\ Epoch \in Nat
    BY ConstantsAssumption DEF IInv, TypeOK, Seal, SnapshotType
  <1>3. MaySeal(full, header.sealer)
    BY <1>1, NotApplied
  <1>4. full'.number = n1
    BY <1>1, <1>3, Applied DEF NextNumber
  <1>5. headers' = [n \in {m \in 0 .. n1 : m >= n1 - Epoch} |->
                       IF n = n1 THEN header ELSE headers[n]]
    BY <1>1, <1>4
  <1>6. /\ FullInv(headers', full')
        /\ \A n \in DOMAIN full.recents :
              full.recents[n] = headers[n].sealer /\ headers'[n] = headers[n]
    BY <1>1, <1>2, <1>3, <1>5, SealKeepsFull
  <1>7. headers'[n1] = header
    <2>1. n1 \in {m \in 0 .. n1 : m >= n1 - Epoch}
      BY <1>2
    <2> HIDE DEF n1
    <2> QED
      BY <1>5, <2>1
  <1>8. SnapshotType(full') /\ \A n \in DOMAIN headers' : headers'[n] \in Headers(n)
    BY <1>6, FullHasType
  <1>9. CASE booted = NotBooted
    <2>1. booted' = NotBooted
      BY <1>1, <1>9 DEF NotBooted
    <2> QED
      BY <1>2, <1>6, <1>8, <2>1 DEF IInv, TypeOK, BootInv, SnapshotType
  <1>10. CASE BootedFits(headers, full, booted, origin)
    <2>1. SnapshotType(booted) /\ ~(booted.number < 0)
      BY <1>10 DEF BootedFits, SnapshotType
    <2>2. booted' = Apply(booted, header)
      BY <1>1, <2>1
    <2>3. header \in Headers(full.number + 1) /\ headers'[full.number + 1] = header
      BY <1>1, <1>7
    <2>4. BootedFits(headers', Apply(full, header), Apply(booted, header), origin)
      BY ONLY <1>2, <1>3, <1>6, <1>10, <2>3, SealKeepsBooted
    <2>5. BootedFits(headers', full', booted', origin')
      BY ONLY <1>1, <1>2, <2>2, <2>4
    <2>6. SnapshotType(booted')
      BY <2>5 DEF BootedFits
    <2> QED
      BY <1>2, <1>6, <1>8, <2>5, <2>6 DEF IInv, TypeOK, BootInv, SnapshotType
  <1> QED
    BY <1>9, <1>10 DEF IInv, BootInv

\* A boot reads what the full snapshot has at an epoch block.
LEMMA BootKeeps == IInv /\ Boot => IInv'
  <1> SUFFICES ASSUME IInv, Boot PROVE IInv'
    OBVIOUS
  <1> DEFINE N == full.number
             u == BootSnapshot(N)
             seen == RecentNumbers(N, full.validators)
  <1>1. /\ booted' = u /\ origin' = N /\ headers' = headers /\ full' = full
        /\ N % Epoch = 0 /\ N > origin
    BY DEF Boot
  <1>2. /\ TypeOK /\ FullInv(headers, full) /\ SnapshotType(full) /\ origin \in Nat
    BY DEF IInv, TypeOK
  <1>3. /\ N \in Nat /\ N > 0
        /\ full.validators \in Sets /\ full.candidates \in Sets
        /\ full.turn \in 1 .. MaxTurn /\ full.nextTurn \in 1 .. MaxTurn
        /\ full.recents \in [DOMAIN full.recents -> Validators]
        /\ DOMAIN full.recents \subseteq N - Span(full) .. N
    BY <1>1, <1>2 DEF SnapshotType, Span
  <1>4. Age(full) = 0 /\ Start(full) = N
    BY <1>1, <1>3 DEF Age, Start
  <1>5. /\ full.candidates = headers[N].validators /\ full.nextTurn = headers[N].turn
        /\ full.validators = headers[N - Epoch].validators
        /\ full.turn = headers[N - Epoch].turn
    BY <1>2, <1>3, <1>4 DEF FullInv, HeadersInv, ChangeInv
  <1>6. /\ seen \subseteq DOMAIN full.recents
        /\ \A n \in DOMAIN full.recents : full.recents[n] = headers[n].sealer
    BY <1>2, <1>3, <1>4 DEF FullInv, HistoryInv
  <1>7. u = [number |-> N, validators |-> full.validators, candidates |-> full.candidates,
             recents |-> [n \in seen |-> headers[n].sealer],
             turn |-> full.turn, nextTurn |-> full.nextTurn]
    BY <1>5 DEF BootSnapshot
  <1>8. /\ u.number = N /\ u.validators = full.validators
        /\ u.candidates = full.candidates /\ u.turn = full.turn
        /\ u.nextTurn = full.nextTurn
        /\ u.recents = [n \in seen |-> headers[n].sealer]
        /\ DOMAIN u = {"number", "validators", "candidates", "recents", "turn", "nextTurn"}
    <2> HIDE DEF N, u, seen
    <2> QED
      BY ONLY <1>7
  <1> HIDE DEF u
  <1>9. /\ DOMAIN u.recents = seen
        /\ \A n \in seen : u.recents[n] = headers[n].sealer
    <2> HIDE DEF N, seen
    <2> QED
      BY ONLY <1>8
  <1>10. u.recents \in [DOMAIN u.recents -> Validators]
    <2>1. \A n \in seen : headers[n].sealer \in Validators
      <3> HIDE DEF N, seen
      <3> QED
        BY ONLY <1>3, <1>6
    <2> HIDE DEF N, seen
    <2> QED
      BY ONLY <1>8, <1>9, <2>1
  <1>11. SnapshotType(u)
    <2>1. DOMAIN u.recents \subseteq u.number - CheckLen(u.validators, u.turn) .. u.number
      <3> HIDE DEF N, seen
      <3> QED
        BY ONLY <1>3, <1>6, <1>8, <1>9 DEF Span
    <2> HIDE DEF N, seen
    <2> QED
      BY ONLY <1>3, <1>8, <1>10, <2>1 DEF SnapshotType
  <1>12. ASSUME NEW n \in DOMAIN full.recents, n >= N \/ full.turn = 1
         PROVE  n \in seen
    <2>1. n \in Int /\ n >= N - Span(full) /\ n <= N /\ Span(full) \in Int
      <3>1. Span(full) \in Int
        BY <1>3, CheckLenFits, ConstantsAssumption DEF Span
      <3> QED
        BY <1>3, <3>1
    <2>2. Half(full.validators) \in Nat
      BY <1>3, HalfOfSet
    <2>3. seen = N - Half(full.validators) .. N
      BY DEF RecentNumbers, Half
    <2>4. CASE n >= N
      BY <1>3, <2>1, <2>2, <2>3, <2>4
    <2>5. CASE full.turn = 1
      <3>1. Span(full) = Half(full.validators)
        BY <1>3, <2>5, CheckLenFits DEF Span
      <3> QED
        BY <1>3, <2>1, <2>2, <2>3, <3>1
    <2> QED
      BY <1>12, <2>4, <2>5
  <1>13. BootedFits(headers, full, u, N)
    <2>1. N <= full.number
      BY <1>3
    <2> HIDE DEF seen
    <2> QED
      BY ONLY <1>6, <1>8, <1>9, <1>11, <1>12, <2>1 DEF BootedFits
  <1> QED
    BY <1>1, <1>2, <1>3, <1>11, <1>13 DEF IInv, TypeOK, BootInv

\* Every step keeps the invariant.
LEMMA NextKeeps == IInv /\ [Next]_vars => IInv'
  <1> SUFFICES ASSUME IInv, [Next]_vars PROVE IInv'
    OBVIOUS
  <1>1. CASE Seal
    BY <1>1, SealKeeps
  <1>2. CASE Boot
    BY <1>2, BootKeeps
  <1>3. CASE UNCHANGED vars
    BY <1>3 DEF IInv, TypeOK, BootInv, vars
  <1> QED
    BY <1>1, <1>2, <1>3 DEF Next

-----------------------------------------------------------------------------
(* The properties.                                                         *)

\* The inductive invariant holds in every behaviour of node and relay.
THEOREM Invariance == Spec => []IInv
  BY InitKeeps, NextKeeps, PTL DEF Spec

\* The variables have their types, and no history (snapshot.Recents) is longer
\* than what countRecents looks at, whatever sets and turns have changed.
THEOREM TypeCorrect == Spec => []TypeOK
  <1>1. IInv => TypeOK
    BY DEF IInv
  <1> QED
    BY <1>1, Invariance, PTL

\* The relay's snapshot (BootSnapshot) accepts every header of the chain: apply
\* never calls a sealer of it unauthorized or too recent.
THEOREM BootAccepted == Spec => []BootAccepts
  <1>1. IInv => BootAccepts
    <2> SUFFICES ASSUME IInv PROVE BootAccepts
      OBVIOUS
    <2>1. CASE booted = NotBooted
      BY <2>1 DEF BootAccepts, NotBooted, Rejected
    <2>2. CASE BootedFits(headers, full, booted, origin)
      BY <2>2 DEF BootAccepts, BootedFits, SnapshotType, Rejected
    <2> QED
      BY <2>1, <2>2 DEF IInv, BootInv
  <1> QED
    BY <1>1, Invariance, PTL

\* It has the validators, candidates and turns of a snapshot that has applied
\* every block since genesis, also through the changes after the boot.
THEOREM BootAgreement == Spec => []BootAgrees
  <1>1. IInv => BootAgrees
    <2> SUFFICES ASSUME IInv PROVE BootAgrees
      OBVIOUS
    <2>1. CASE booted = NotBooted
      BY <2>1 DEF BootAgrees, NotBooted
    <2>2. CASE BootedFits(headers, full, booted, origin)
      BY <2>2 DEF BootAgrees, BootedFits
    <2> QED
      BY <2>1, <2>2 DEF IInv, BootInv
  <1> QED
    BY <1>1, Invariance, PTL

\* It judges each sealer as that snapshot does: always while a turn is one
\* block, and else once the blocks since the boot make up the history.
THEOREM HistoriesAgree == Spec => []BootCatchesUp
  <1>1. IInv => BootCatchesUp
    <2> SUFFICES ASSUME IInv, booted.number >= 0,
                        \/ booted.turn = 1
                        \/ booted.number - origin >= CheckLen(booted.validators, booted.turn),
                        NEW v \in Validators
                 PROVE  MaySeal(booted, v) <=> MaySeal(full, v)
      BY DEF BootCatchesUp
    <2>1. BootedFits(headers, full, booted, origin)
      BY DEF IInv, BootInv, NotBooted
    <2>2. FullInv(headers, full) /\ SnapshotType(full) /\ origin \in Nat
      BY DEF IInv, TypeOK
    <2>3. /\ booted.number = full.number /\ booted.validators = full.validators
          /\ booted.turn = full.turn /\ full.number \in Nat
          /\ DOMAIN booted.recents \subseteq DOMAIN full.recents
          /\ SnapshotType(booted)
      BY <2>1, <2>2 DEF BootedFits, SnapshotType
    <2>4. \A n \in DOMAIN full.recents : full.recents[n] = headers[n].sealer
      BY <2>2 DEF FullInv, HistoryInv
    <2>5. \A n \in DOMAIN booted.recents : booted.recents[n] = full.recents[n]
      BY <2>1, <2>3, <2>4 DEF BootedFits
    <2>6. ASSUME NEW n \in DOMAIN full.recents
          PROVE  n \in DOMAIN booted.recents
      <3>1. Span(full) \in Int /\ n \in full.number - Span(full) .. full.number
        BY <2>2, CheckLenFits, ConstantsAssumption DEF SnapshotType, Span
      <3>2. full.turn = 1 \/ full.number - origin >= Span(full)
        BY <2>3 DEF Span
      <3>3. n >= origin \/ full.turn = 1
        BY ONLY <2>2, <2>3, <3>1, <3>2
      <3> QED
        BY <2>1, <3>3 DEF BootedFits
    <2>7. MaySeal(full, v) => MaySeal(booted, v)
      BY <2>2, <2>3, <2>5, SealsToo
    <2>8. MaySeal(booted, v) => MaySeal(full, v)
      BY <2>3, <2>5, <2>6, SealsToo
    <2> QED
      BY <2>7, <2>8
  <1> QED
    BY <1>1, Invariance, PTL

-----------------------------------------------------------------------------
(* Nobody is locked out.                                                   *)

\* Where every member of V is the value of k members of D or more, D has k
\* members for each one.
LEMMA Pigeonhole ==
    ASSUME NEW D, IsFiniteSet(D), NEW f, NEW V, IsFiniteSet(V), NEW k \in Nat,
           \A v \in V : Cardinality({n \in D : f[n] = v}) >= k
    PROVE  Cardinality(D) >= k * Cardinality(V)
  <1> DEFINE Fibre(v) == {n \in D : f[n] = v}
             Over(W) == {n \in D : f[n] \in W}
             T == {n \in Nat : \A W \in SUBSET V :
                      Cardinality(W) = n => Cardinality(Over(W)) >= k * n}
  <1>1. \A W : IsFiniteSet(Over(W)) /\ Cardinality(Over(W)) \in Nat
    BY FS_Subset, FS_CardinalityType
  <1>2. \A v : IsFiniteSet(Fibre(v)) /\ Cardinality(Fibre(v)) \in Nat
    BY FS_Subset, FS_CardinalityType
  <1>3. \A v \in V : Cardinality(Fibre(v)) >= k
    OBVIOUS
  <1>4. 0 \in T
    <2>1. k * 0 = 0
      OBVIOUS
    <2> HIDE DEF Over
    <2> QED
      BY <1>1, <2>1
  <1>5. ASSUME NEW n \in Nat, n \in T
        PROVE  n + 1 \in T
    <2> SUFFICES ASSUME NEW W \in SUBSET V, Cardinality(W) = n + 1
                 PROVE  Cardinality(Over(W)) >= k * (n + 1)
      OBVIOUS
    <2>1. IsFiniteSet(W) /\ W # {}
      BY FS_Subset, FS_EmptySet
    <2>2. PICK v \in W : TRUE
      BY <2>1
    <2>3. Cardinality(W \ {v}) = n /\ W \ {v} \in SUBSET V /\ v \in V
      <3>1. Cardinality(W \ {v}) = IF v \in W THEN Cardinality(W) - 1 ELSE Cardinality(W)
        BY ONLY <2>1, FS_RemoveElement
      <3>2. Cardinality(W \ {v}) = n
        BY ONLY <3>1, Cardinality(W) = n + 1, n \in Nat, v \in W
      <3> QED
        BY <3>2
    <2>4. Cardinality(Over(W \ {v})) >= k * n
      BY <1>5, <2>3
    <2>5. /\ Over(W) = Over(W \ {v}) \cup Fibre(v)
          /\ Over(W \ {v}) \cap Fibre(v) = {}
      BY <2>2
    <2> HIDE DEF Over, Fibre, T
    <2>6. Cardinality(Over(W)) = Cardinality(Over(W \ {v})) + Cardinality(Fibre(v))
      <3>1. Cardinality(Over(W)) = Cardinality(Over(W \ {v})) + Cardinality(Fibre(v))
                                     - Cardinality(Over(W \ {v}) \cap Fibre(v))
        BY <1>1, <1>2, <2>5, FS_Union
      <3>2. Cardinality(Over(W \ {v}) \cap Fibre(v)) = 0
        BY ONLY <2>5, FS_EmptySet
      <3>3. Cardinality(Over(W \ {v})) \in Nat /\ Cardinality(Fibre(v)) \in Nat
        BY ONLY <1>1, <1>2
      <3> QED
        BY ONLY <3>1, <3>2, <3>3
    <2>7. k * (n + 1) = k * n + k /\ k * n \in Nat
      OBVIOUS
    <2> QED
      BY ONLY <1>1, <1>2, <1>3, <2>3, <2>4, <2>6, <2>7, k \in Nat
  <1>6. Nat \subseteq T
    <2> HIDE DEF T
    <2> QED
      BY <1>4, <1>5, SetInduction
  <1>7. Cardinality(V) \in Nat
    BY FS_CardinalityType
  <1>8. Cardinality(Over(V)) >= k * Cardinality(V)
    BY <1>6, <1>7
  <1>9. Cardinality(Over(V)) <= Cardinality(D) /\ Cardinality(D) \in Nat
    BY FS_Subset, FS_CardinalityType
  <1>10. k * Cardinality(V) \in Nat
    BY <1>7
  <1> HIDE DEF Over
  <1> QED
    BY ONLY <1>1, <1>8, <1>9, <1>10

\* A validator that may not seal has a whole turn in the history.
LEMMA TurnIsOver ==
    ASSUME NEW s, SnapshotType(s), ~IsBohr(s.number) => s.turn = 1 /\ s.nextTurn = 1,
           NEW v \in s.validators, ~MaySeal(s, v)
    PROVE  Cardinality({n \in DOMAIN Aged(s) : Aged(s)[n] = v}) >= s.turn
  <1> DEFINE a == Aged(s)
             F == {n \in DOMAIN a : a[n] = v}
             bound == IF s.number > Span(s) THEN s.number - Span(s) ELSE 0
             G == {n \in DOMAIN a : n > bound /\ a[n] = v}
  <1>1. SignRecently(s, a, s.number + 1, v)
    BY DEF MaySeal
  <1>2. IsFiniteSet(F) /\ Cardinality(F) \in Nat
    <2>1. s.number - Span(s) \in Int /\ s.number \in Int
      BY CheckLenFits, ConstantsAssumption DEF SnapshotType, Span
    <2>2. IsFiniteSet(s.number - Span(s) .. s.number)
      BY <2>1, FS_Interval
    <2>3. F \subseteq s.number - Span(s) .. s.number
      BY DEF Aged, Without, Restrict, SnapshotType, Span
    <2> QED
      BY <2>2, <2>3, FS_Subset, FS_CardinalityType
  <1>3. s.turn \in Nat /\ s.number \in Nat /\ Bohr \in Nat
    BY ConstantsAssumption DEF SnapshotType
  <1>4. CASE IsBohr(s.number + 1)
    <2>1. Cardinality(G) >= s.turn
      BY <1>1, <1>4 DEF SignRecently, CountRecents, Span
    <2>2. Cardinality(G) <= Cardinality(F) /\ Cardinality(G) \in Nat
      <3>1. G \subseteq F
        OBVIOUS
      <3> QED
        BY <1>2, <3>1, FS_Subset, FS_CardinalityType
    <2> HIDE DEF F, G
    <2>3. Cardinality(F) >= s.turn
      BY ONLY <1>2, <1>3, <2>1, <2>2
    <2> QED
      BY <2>3 DEF F
  <1>5. CASE ~IsBohr(s.number + 1)
    <2>1. s.turn = 1
      BY <1>3, <1>5 DEF IsBohr
    <2>2. F # {}
      BY <1>1, <1>5 DEF SignRecently
    <2>3. Cardinality(F) # 0
      BY <1>2, <2>2, FS_EmptySet
    <2> HIDE DEF F
    <2>4. Cardinality(F) >= s.turn
      BY ONLY <1>2, <2>1, <2>3
    <2> QED
      BY <2>4 DEF F
  <1> QED
    BY <1>4, <1>5

\* SignRecently never refuses all validators: the history is shorter than the
\* turns that they have between them.
THEOREM Sealable == Spec => []SomeoneMaySeal
  <1>1. IInv => SomeoneMaySeal
    <2> SUFFICES ASSUME IInv, ~SomeoneMaySeal PROVE FALSE
      OBVIOUS
    <2> DEFINE N == full.number
               V == full.validators
               turn == full.turn
               a == Aged(full)
               D == DOMAIN a
    <2>1. /\ SnapshotType(full)
          /\ ~IsBohr(full.number) => full.turn = 1 /\ full.nextTurn = 1
      BY DEF IInv, FullInv, ChangeInv
    <2>2. /\ N \in Nat /\ V \in Sets /\ turn \in 1 .. MaxTurn /\ MaxTurn \in Nat
          /\ DOMAIN full.recents \subseteq N - Span(full) .. N
      BY <2>1, ConstantsAssumption DEF SnapshotType, Span
    <2>3. /\ IsFiniteSet(V) /\ Cardinality(V) \in Nat /\ V \subseteq Validators
          /\ Half(V) \in Nat /\ Half(V) + 1 <= Cardinality(V)
      BY <2>2, HalfOfSet, ConstantsAssumption
    <2>4. Span(full) = (Half(V) + 1) * turn - 1 /\ Span(full) \in Nat
      <3>1. Span(full) = (Half(V) + 1) * turn - 1
        BY DEF Span, CheckLen, Half
      <3>2. Span(full) \in Nat
        BY <2>2, CheckLenFits, ConstantsAssumption DEF Span
      <3> QED
        BY <3>1, <3>2
    <2>5. IsFiniteSet(D) /\ Cardinality(D) <= Span(full) /\ Cardinality(D) \in Nat
      <3>1. D = DOMAIN full.recents \ {N - Span(full)}
        BY DEF Aged, Without, Restrict, Span
      <3> HIDE DEF N, D
      <3>2. D \subseteq N - Span(full) + 1 .. N
        BY ONLY <2>2, <2>4, <3>1
      <3>3. /\ IsFiniteSet(N - Span(full) + 1 .. N)
            /\ Cardinality(N - Span(full) + 1 .. N) = Span(full)
        <4>1. N - Span(full) + 1 \in Int /\ N \in Int
          BY ONLY <2>2, <2>4
        <4>2. /\ IsFiniteSet(N - Span(full) + 1 .. N)
              /\ Cardinality(N - Span(full) + 1 .. N) =
                    IF N - Span(full) + 1 > N THEN 0 ELSE N - (N - Span(full) + 1) + 1
          BY ONLY <4>1, FS_Interval
        <4> QED
          BY ONLY <2>2, <2>4, <4>2
      <3> QED
        BY <3>2, <3>3, FS_Subset, FS_CardinalityType
    <2>6. \A v \in V : Cardinality({n \in D : a[n] = v}) >= turn
      BY <2>1, <2>3, TurnIsOver DEF SomeoneMaySeal
    <2> HIDE DEF a, D, V, turn, N
    <2>7. Cardinality(D) >= turn * Cardinality(V)
      <3>1. turn \in Nat
        BY <2>2
      <3> QED
        BY ONLY <2>3, <2>5, <2>6, <3>1, Pigeonhole
    <2>8. turn * Cardinality(V) >= (Half(V) + 1) * turn
      <3> DEFINE x == Half(V) + 1
                 y == Cardinality(V)
      <3>1. x \in Nat /\ y \in Nat /\ x <= y /\ turn \in Nat
        BY <2>2, <2>3
      <3> HIDE DEF x, y
      <3>2. turn * y >= x * turn
        BY ONLY <3>1
      <3> QED
        BY <3>2 DEF x, y
    <2>9. turn * Cardinality(V) \in Nat /\ (Half(V) + 1) * turn \in Nat
      BY <2>2, <2>3
    <2> QED
      BY ONLY <2>4, <2>5, <2>7, <2>8, <2>9
  <1> QED
    BY <1>1, Invariance, PTL
=============================================================================
