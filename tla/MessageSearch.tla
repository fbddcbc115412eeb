--------------------------- MODULE MessageSearch ----------------------------
(***************************************************************************)
(* The search for BTP messages over a range of finalized blocks            *)
(* (chain/bsc2/client.go): the node is asked for windows of the range,     *)
(* newest first, since it limits the blocks of one query.                  *)
(* sent gives the number of the block of each sequence number.             *)
(***************************************************************************)
EXTENDS Naturals, SequencesExt

CONSTANT MaxQueryRange    \* maxQueryRange (2048)

ASSUME SearchAssumption == MaxQueryRange \in Nat \ {0}

\* Faulty: one block short of the window.
WindowAfter(start, end) ==
    IF end - start > MaxQueryRange THEN end - MaxQueryRange + 1 ELSE start

\* The first block of the window that ends at `end'.  start <= end: below it the
\* difference of the code, a uint64, wraps.
WindowStart(start, end) ==
    IF end - start > MaxQueryRange THEN end - MaxQueryRange ELSE start

\* The events of one query, in the order of the chain, beyond a sequence number.
EventsIn(sent, first, last, sequence) ==
    LET found == {s \in DOMAIN sent : sent[s] \in first .. last /\ s > sequence}
    IN  CHOOSE events \in [1 .. Cardinality(found) -> found] :
            \A i, j \in DOMAIN events : i < j => events[i] < events[j]

\* Faulty: a later window goes behind the earlier ones.
NewestFirst(older, newer) == newer \o older

\* append(tmp, msgs...): an older window goes before the newer ones.
OldestFirst(older, newer) == older \o newer

\* MessagesAfterSequence.  A window ends where the newer one begins, so that the
\* messages of the block between them are listed twice; the last window is the
\* first block alone.
MessagesAfterSequence(sent, start, end, sequence) ==
    LET Upto[ep \in start .. end] ==
            LET sp == WindowStart(start, ep)
                found == EventsIn(sent, sp, ep, sequence)
            IN  IF sp = ep THEN found ELSE OldestFirst(Upto[sp], found)
    IN  Upto[end]

NoBlock == 0

\* MessageBySequence: the block of a message.  The node answers a window without
\* the message by an empty list, which ends the search: NoBlock.
MessageBySequence(sent, start, end, sequence) ==
    IF sent[sequence] \in WindowStart(start, end) .. end
    THEN sent[sequence] ELSE NoBlock
=============================================================================
