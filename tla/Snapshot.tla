------------------------------ MODULE Snapshot ------------------------------
(***************************************************************************)
(* The validators of a snapshot (chain/bsc2/snapshot.go): which validator  *)
(* may seal the next block (apply), and the snapshot that is made from the *)
(* headers alone, at an epoch block (BootSnapshot).                        *)
(*                                                                         *)
(* full is the snapshot of a node that has applied every block since       *)
(* genesis: the node seals only what full accepts.  booted is the relay's  *)
(* snapshot, made at an epoch block and then applied to the same headers.  *)
(* Attestations are the subject of Finality and are left out.              *)
(***************************************************************************)
EXTENDS Integers, FiniteSets, Functions

CONSTANTS
    Validators,  \* validators there may be
    Sets,        \* the validator sets an epoch block may announce
    MaxTurn,     \* the longest turn an epoch block may announce
    Epoch,       \* blocks of an epoch (200)
    Bohr,        \* the first block of the Bohr hard fork
    MaxHeight    \* bound: the highest block

\* minerHistoryCheckLen
CheckLen(validators, turn) == (Cardinality(validators) \div 2 + 1) * turn - 1

\* A change of validators is over, and the history that a boot reads begins
\* after it, before the next epoch block.
ASSUME ConstantsAssumption ==
    /\ Sets \subseteq SUBSET Validators
    /\ {MaxTurn, Epoch} \subseteq Nat \ {0}
    /\ {Bohr, MaxHeight} \subseteq Nat
    /\ \A set \in Sets :
          /\ IsFiniteSet(set) /\ Cardinality(set) > 1
          /\ CheckLen(set, MaxTurn) + Cardinality(set) \div 2 < Epoch

VARIABLES
    headers,  \* node: the headers of the last epoch, by number
    full,     \* the snapshot of all blocks
    booted,   \* the snapshot of the relay
    origin    \* the block it was booted from, 0 if none

vars == <<headers, full, booted, origin>>

IsBohr(number) == number >= Bohr

\* A rejected header: apply returns an error.
Rejected == [number |-> -1]

\* No snapshot was booted yet.
NotBooted == [number |-> -2]

-----------------------------------------------------------------------------
(* apply.                                                                  *)

Without(recents, numbers) == Restrict(recents, DOMAIN recents \ numbers)

\* countRecents: the blocks of the history of s that v has sealed.
CountRecents(s, recents, v) ==
    LET length == CheckLen(s.validators, s.turn)
        bound == IF s.number > length THEN s.number - length ELSE 0
    IN  Cardinality({n \in DOMAIN recents : n > bound /\ recents[n] = v})

\* SignRecently, and the rule before Bohr.
SignRecently(s, recents, number, v) ==
    IF IsBohr(number) THEN CountRecents(s, recents, v) >= s.turn
    ELSE \E n \in DOMAIN recents : recents[n] = v

\* Faulty: the entry is kept for one block more.
AgedLate(s) ==
    Without(s.recents, {s.number - CheckLen(s.validators, s.turn) - 1})

\* The entry that leaves the history before the next block is judged.
Aged(s) == Without(s.recents, {s.number - CheckLen(s.validators, s.turn)})

\* Whether v may seal the block after s.
MaySeal(s, v) ==
    /\ v \in s.validators
    /\ ~SignRecently(s, Aged(s), s.number + 1, v)

\* Faulty: a smaller set keeps the history of the larger one.
ShrunkNever(s, number, recents) ==
    IF IsBohr(number) THEN << >> ELSE recents

\* The history after a change of validators at block number: it starts anew,
\* or, before Bohr, loses what a smaller set does not look at.
Shrunk(s, number, recents) ==
    LET old == Cardinality(s.validators) \div 2 + 1
        new == Cardinality(s.candidates) \div 2 + 1
    IN  IF IsBohr(number) THEN << >>
        ELSE Without(recents, {number - new - i : i \in 0 .. old - new - 1})

\* The announced set comes into force when the history of the old one ends.
Changes(s, number) ==
    number % Epoch = CheckLen(s.validators, s.turn)

Apply(s, header) ==
    LET number == s.number + 1
        recents == [n \in DOMAIN Aged(s) \cup {number} |->
                       IF n = number THEN header.sealer ELSE s.recents[n]]
        changes == Changes(s, number)
        announces == number % Epoch = 0
    IN  IF ~MaySeal(s, header.sealer) THEN Rejected
        ELSE [number |-> number,
              validators |-> IF changes THEN s.candidates ELSE s.validators,
              candidates |-> IF announces THEN header.validators ELSE s.candidates,
              recents |-> IF changes THEN Shrunk(s, number, recents) ELSE recents,
              turn |-> IF changes THEN s.nextTurn ELSE s.turn,
              nextTurn |-> IF announces THEN header.turn ELSE s.nextTurn]

-----------------------------------------------------------------------------
(* BootSnapshot.                                                           *)

\* Faulty: one block too many.
RecentNumbersLonger(number, validators) ==
    number - Cardinality(validators) \div 2 - 1 .. number

\* The blocks whose sealers a boot reads.
RecentNumbers(number, validators) ==
    number - Cardinality(validators) \div 2 .. number

\* Faulty: the set that this block announces is taken to be in force.
BootSnapshotEarly(number) ==
    LET head == headers[number]
    IN  [number |-> number,
         validators |-> head.validators, candidates |-> head.validators,
         recents |-> [n \in RecentNumbers(number, head.validators) |->
                         headers[n].sealer],
         turn |-> head.turn, nextTurn |-> head.turn]

\* Faulty: the sealers are entered one block late.
BootSnapshotShifted(number) ==
    LET head == headers[number]
        old == headers[number - Epoch]
    IN  [number |-> number,
         validators |-> old.validators, candidates |-> head.validators,
         recents |-> [n \in RecentNumbers(number, old.validators) |->
                         headers[n - 1].sealer],
         turn |-> old.turn, nextTurn |-> head.turn]

\* The validators in force are those the epoch block before has announced.
BootSnapshot(number) ==
    LET head == headers[number]
        old == headers[number - Epoch]
    IN  [number |-> number,
         validators |-> old.validators, candidates |-> head.validators,
         recents |-> [n \in RecentNumbers(number, old.validators) |->
                         headers[n].sealer],
         turn |-> old.turn, nextTurn |-> head.turn]

-----------------------------------------------------------------------------

\* Headers that a validator may write at a number: sets and turns are
\* announced by epoch blocks, and turns since Bohr only (parseTurnLength).
Headers(number) ==
    IF number % Epoch # 0
    THEN [sealer : Validators, validators : {{}}, turn : {1}]
    ELSE [sealer : Validators, validators : Sets,
          turn : IF IsBohr(number) THEN 1 .. MaxTurn ELSE {1}]

Init ==
    /\ \E genesis \in Headers(0) :
          /\ genesis.turn = 1
          /\ headers = [n \in {0} |-> genesis]
          /\ full = [number |-> 0, validators |-> genesis.validators,
                     candidates |-> genesis.validators, recents |-> << >>,
                     turn |-> 1, nextTurn |-> 1]
    /\ booted = NotBooted
    /\ origin = 0

\* A validator seals the next block and the relay applies its header.
Seal ==
    /\ full.number < MaxHeight
    /\ \E header \in Headers(full.number + 1) :
          /\ full' = Apply(full, header)
          /\ full' # Rejected
          /\ booted' = IF booted.number < 0 THEN booted ELSE Apply(booted, header)
          /\ headers' = [n \in {m \in 0 .. full'.number : m >= full'.number - Epoch} |->
                           IF n = full'.number THEN header ELSE headers[n]]
    /\ UNCHANGED origin

\* The relay starts, or starts again, from the epoch block at the head.  One
\* that starts from an earlier epoch block applies the headers since then.
Boot ==
    /\ full.number % Epoch = 0
    /\ full.number > origin
    /\ booted' = BootSnapshot(full.number)
    /\ origin' = full.number
    /\ UNCHANGED <<headers, full>>

Next == Seal \/ Boot

Spec == Init /\ [][Next]_vars

-----------------------------------------------------------------------------
(* Properties.                                                             *)

SnapshotType(s) ==
    /\ DOMAIN s = {"number", "validators", "candidates", "recents", "turn",
                   "nextTurn"}
    /\ s.number \in Nat
    /\ {s.validators, s.candidates} \subseteq Sets
    /\ {s.turn, s.nextTurn} \subseteq 1 .. MaxTurn
    /\ s.recents \in [DOMAIN s.recents -> Validators]
    /\ DOMAIN s.recents \subseteq
           s.number - CheckLen(s.validators, s.turn) .. s.number

\* The variables have their types; the history of a snapshot is no longer than
\* what the rule looks at, whatever sets and turns have changed.
TypeOK ==
    /\ \A n \in DOMAIN headers : headers[n] \in Headers(n)
    /\ SnapshotType(full)
    /\ booted \in {NotBooted, Rejected} \/ SnapshotType(booted)
    /\ origin \in Nat

\* A snapshot booted from headers accepts every block that the chain has: its
\* shorter history never makes it stricter than the node.
BootAccepts == booted # Rejected

\* It knows the validators and turns in force and announced, as if it had
\* applied every block.
BootAgrees ==
    booted.number >= 0 =>
        /\ booted.number = full.number
        /\ booted.validators = full.validators
        /\ booted.candidates = full.candidates
        /\ booted.turn = full.turn
        /\ booted.nextTurn = full.nextTurn

\* It judges the next sealer as the full snapshot does, from the first block
\* on while a turn is one block, and else once the blocks since the boot make
\* up the history.
BootCatchesUp ==
    (/\ booted.number >= 0
     /\ \/ booted.turn = 1
        \/ booted.number - origin >= CheckLen(booted.validators, booted.turn)) =>
        \A v \in Validators : MaySeal(booted, v) <=> MaySeal(full, v)

\* The rule never locks every validator out, also when the set changes.
SomeoneMaySeal == \E v \in Validators : MaySeal(full, v)
=============================================================================
