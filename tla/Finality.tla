------------------------------ MODULE Finality ------------------------------
(***************************************************************************)
(* Fast finality as the relay computes it: the attestation a snapshot      *)
(* carries (snapshot.go, updateAttestation) and the block finality         *)
(* calculator (calculator.go).  The body of a block has a field att: the   *)
(* attestation of the snapshot made from it.  Source and target are        *)
(* numbers: a vote that is kept names ancestors of the block.              *)
(***************************************************************************)
EXTENDS Blocks, FiniteSets, FiniteSetsExt

NoAttestation == [source |-> 0, target |-> 0]

AttestationOf(b) == IF b = Genesis THEN NoAttestation ELSE Body(b).att

\* updateAttestation: the header of number n carries a vote or not.  A vote
\* targets the parent; its source is the justified block of the parent, the
\* target of the attestation so far.  The source moves only when source and
\* target are consecutive.
UpdateAttestation(att, n, vote) ==
    LET tn == n - 1
        sn == att.target
    IN  IF ~vote        THEN att
        ELSE IF sn + 1 # tn THEN [att EXCEPT !.target = tn]
        ELSE [source |-> sn, target |-> tn]

Consecutive(att) == att.target = att.source + 1

-----------------------------------------------------------------------------
(* The calculator: the last finality (checkpoint) and the blocks fed since.*)

Calculator(checkpoint, feeds) == [checkpoint |-> checkpoint, feeds |-> feeds]

\* Faulty: the source counts as final before its child is justified.
CalculateEagerly(checkpoint, b) ==
    LET source == AttestationOf(b).target
    IN  IF source < Number(checkpoint) THEN checkpoint
        ELSE AncestorAt(b, source)

\* calculate: from block b back to the checkpoint, the first attestation that
\* decides.  One whose source is below the checkpoint ends the walk with
\* nothing; one with consecutive source and target finalizes its source.
Calculate(checkpoint, b) ==
    LET Att(n) == AttestationOf(AncestorAt(b, n))
        TooOld(n) == Att(n).source < Number(checkpoint)
        Decides(n) == TooOld(n) \/ Consecutive(Att(n))
        finals == {n \in Number(checkpoint) + 1 .. Number(b) :
                      /\ Consecutive(Att(n)) /\ ~TooOld(n)
                      /\ \A m \in n + 1 .. Number(b) : ~Decides(m)}
    IN  IF finals = {} THEN checkpoint
        ELSE AncestorAt(b, Att(CHOOSE n \in finals : TRUE).source)

\* feed: the feeds up to the new finality are returned and forgotten.
Feed(calc, b) ==
    LET feeds == Append(calc.feeds, b)
        finality == Calculate(calc.checkpoint, b)
        hits == {i \in DOMAIN feeds : feeds[i] = finality}
        cut == IF hits = {} THEN 0 ELSE Min(hits)
    IN  [finalities |-> SubSeq(feeds, 1, cut),
         calc |-> Calculator(finality, SubSeq(feeds, cut + 1, Len(feeds)))]
=============================================================================
