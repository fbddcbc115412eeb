-------------------------- MODULE TransactorProofs --------------------------
(***************************************************************************)
(* Theorems about the message transactor, for any set of messages, any     *)
(* retry limits and a chain of any height.  The strengthening IInv adds to *)
(* the checked invariants: where the finalities lie on the canonical       *)
(* chain (ChainInv), how far the pass over waitings is (SweepInv), that a  *)
(* message is in one place only (QueueInv, WaitInv), and what the link has *)
(* been told of a message in each place (MessageInv).                      *)
(***************************************************************************)
EXTENDS Transactor, BlocksProofs

ChainInv ==
    /\ IsAncestor(final, chain)
    /\ \A f \in finals : IsAncestor(f, final)
    /\ sweep.on => IsAncestor(sweep.final, final)

SweepInv ==
    /\ sweep.k < sweep.i
    /\ sweep.on => sweep.i <= Len(waitings) + 1

QueueInv ==
    /\ \A a \in 1 .. Len(transition) : place[transition[a]] = "queue"
    /\ \A a, b \in 1 .. Len(transition) :
          transition[a] = transition[b] => a = b

\* WaitingsIntact, with its set equality as two inclusions.
WaitInv ==
    /\ \A a \in LiveSlots : place[waitings[a]] = "waiting"
    /\ \A a, b \in LiveSlots : waitings[a] = waitings[b] => a = b
    /\ \A m \in Messages :
          place[m] = "waiting" => \E a \in LiveSlots : waitings[a] = m

KindInv(m) ==
    /\ place[m] \in {"queue", "estimate", "submit", "poll", "receipt", "execute"}
          => kind[m] \notin Settled
    /\ place[m] = "send" => kind[m] # "Finalized"
    /\ place[m] \in {"lock", "waiting"} => receipt[m].ok

RepliesInv(m) ==
    /\ place[m] \notin {"lock", "waiting", "done"} => replies[m] = << >>
    /\ place[m] \in {"lock", "waiting"} => replies[m] = <<"Executed">>
    /\ place[m] = "done" =>
          \/ replies[m] = <<"Faulted">>
          \/ replies[m] = <<"Dropped">>
          \/ replies[m] = <<"Executed">>
          \/ /\ replies[m] = <<"Executed", "Finalized">>
             /\ receipt[m].ok
             /\ IsAncestor(receipt[m].hash, final)
          \/ /\ replies[m] = <<"Executed", "Dropped">>
             /\ Len(receipt[m].hash) <= Len(final)
             /\ ~IsAncestor(receipt[m].hash, final)

\* A receipt that tells success names a block that executed the message.
ReceiptInv(m) ==
    receipt[m].ok => /\ Len(receipt[m].hash) > 0
                     /\ m \in Body(receipt[m].hash).ok

MessageInv(m) == KindInv(m) /\ RepliesInv(m) /\ ReceiptInv(m)

IInv ==
    /\ TypeOK
    /\ ChainInv
    /\ SweepInv
    /\ QueueInv
    /\ WaitInv
    /\ \A m \in Messages : MessageInv(m)

USE DEF Settled

-----------------------------------------------------------------------------

\* The invariant holds of an idle transactor and an empty chain.
LEMMA InitIInv == Init => IInv
  <1> SUFFICES ASSUME Init PROVE IInv
    OBVIOUS
  <1>1. TypeOK
    BY ConstantsAssumption, EmptySeq
       DEF Init, TypeOK, Kinds, Places, NoReceipt, Idle, Genesis
  <1>2. ChainInv /\ SweepInv /\ QueueInv /\ WaitInv
    BY DEF Init, ChainInv, SweepInv, QueueInv, WaitInv, LiveSlots, IsAncestor,
           Idle, Genesis
  <1>3. ASSUME NEW m \in Messages PROVE MessageInv(m)
    BY DEF Init, MessageInv, KindInv, RepliesInv, ReceiptInv, NoReceipt
  <1> QED
    BY <1>1, <1>2, <1>3 DEF IInv

\* What the channel and the counting part of the slice hold.
LEMMA SlotsHoldMessages ==
    ASSUME IInv
    PROVE  /\ LiveSlots \subseteq 1 .. Len(waitings)
           /\ \A a \in LiveSlots : waitings[a] \in Messages
           /\ \A a \in 1 .. Len(transition) : transition[a] \in Messages
  <1>1. LiveSlots \subseteq 1 .. Len(waitings)
    BY LenProperties DEF IInv, TypeOK, LiveSlots, SweepInv
  <1> QED
    BY <1>1, ElementOfSeq DEF IInv, TypeOK

\* The places of a message whose Transit runs.
TransitPlaces == {"estimate", "submit", "poll", "receipt", "execute"}

\* Whatever Transit of a message does, it may only rename, move and give a
\* receipt to that message.
MovesTo(m, t, p, r) ==
    /\ place[m] \in TransitPlaces
    /\ t \in Kinds
    /\ p \in TransitPlaces \cup {"send"}
    /\ p = "send" => t # "Finalized"
    /\ p # "send" => t \notin Settled
    /\ r \in [hash : Seq(Bodies), ok : BOOLEAN]
    /\ r.ok => Len(r.hash) > 0 /\ m \in Body(r.hash).ok
    /\ kind' = [kind EXCEPT ![m] = t]
    /\ place' = [place EXCEPT ![m] = p]
    /\ receipt' = [receipt EXCEPT ![m] = r]
    /\ attempt' \in [Messages -> Nat]
    /\ sent' \subseteq Messages
    /\ UNCHANGED alive
    /\ InTransit

\* A step of Transit that leaves the channels, the slice and the answers alone
\* keeps the invariant, given what it does to its own message.
LEMMA TransitPreserves ==
    ASSUME IInv, NEW m \in Messages, NEW t, NEW p, NEW r, MovesTo(m, t, p, r)
    PROVE  IInv'
  <1> USE DEF TransitPlaces, MovesTo
  <1>1. TypeOK'
    BY DEF IInv, TypeOK, InTransit, Places
  <1>2. ChainInv' /\ SweepInv'
    BY DEF IInv, ChainInv, SweepInv, InTransit
  <1>3. QueueInv'
    <2>1. \A a \in 1 .. Len(transition) : transition[a] \in Messages
      BY SlotsHoldMessages
    <2> QED
      BY <2>1 DEF IInv, TypeOK, QueueInv, InTransit
  <1>4. WaitInv'
    <2>1. LiveSlots' = LiveSlots
      BY DEF LiveSlots, InTransit
    <2>2. \A n \in Messages : (place'[n] = "waiting") <=> (place[n] = "waiting")
      BY DEF IInv, TypeOK
    <2>3. \A a \in LiveSlots : waitings[a] \in Messages
      BY SlotsHoldMessages
    <2> QED
      BY <2>1, <2>2, <2>3 DEF IInv, WaitInv, InTransit
  <1>5. ASSUME NEW n \in Messages PROVE MessageInv(n)'
    <2>1. MessageInv(n)
      BY DEF IInv
    <2>2. CASE n = m
      BY <2>1, <2>2 DEF IInv, TypeOK, MessageInv, KindInv, RepliesInv,
                        ReceiptInv, InTransit
    <2>3. CASE n # m
      BY <2>1, <2>3 DEF IInv, TypeOK, MessageInv, KindInv, RepliesInv,
                        ReceiptInv, InTransit
    <2> QED
      BY <2>2, <2>3
  <1> QED
    BY <1>1, <1>2, <1>3, <1>4, <1>5 DEF IInv

\* The receipt of a block of the canonical chain is well formed.
LEMMA ReceiptNamesInclusion ==
    ASSUME TypeOK, NEW m \in Messages, NEW n \in InclusionHeights(m)
    PROVE  /\ ReceiptAt(m, n) \in [hash : Seq(Bodies), ok : BOOLEAN]
           /\ ReceiptAt(m, n).ok => /\ Len(ReceiptAt(m, n).hash) > 0
                                    /\ m \in Body(ReceiptAt(m, n).hash).ok
  <1>1. /\ chain \in Seq(Bodies)
        /\ n \in 1 .. Len(chain)
        /\ n \in 0 .. Len(chain)
        /\ n > 0
    BY DEF InclusionHeights, TypeOK
  <1>2. /\ AncestorAt(chain, n) \in Seq(Bodies)
        /\ Len(AncestorAt(chain, n)) = n
        /\ \A i \in 1 .. n : AncestorAt(chain, n)[i] = chain[i]
    BY <1>1, AncestorAtIsAncestor
  <1>3. AncestorAt(chain, n)[n] = chain[n]
    BY <1>1, <1>2
  <1> DEFINE h == AncestorAt(chain, n)
             b == m \in chain[n].ok
  <1>4. h \in Seq(Bodies) /\ Len(h) > 0 /\ Body(h) = chain[n]
    BY <1>1, <1>2, <1>3 DEF Body
  <1>5. b \in BOOLEAN /\ (b => m \in Body(h).ok)
    BY <1>4
  <1>6. ReceiptAt(m, n) = [hash |-> h, ok |-> b]
    BY DEF ReceiptAt
  <1> HIDE DEF h, b
  <1> QED
    BY <1>4, <1>5, <1>6

\* Every disjunct of Transit keeps the invariant.
LEMMA TransitStep ==
    ASSUME IInv, NEW m \in Messages, Transit(m), UNCHANGED alive
    PROVE  IInv'
  <1> USE DEF TransitPlaces, Kinds, Leave, Become, InTransit, TypeOK
  <1>t. /\ TypeOK
        /\ receipt[m] \in [hash : Seq(Bodies), ok : BOOLEAN]
        /\ receipt[m].ok => /\ Len(receipt[m].hash) > 0
                            /\ m \in Body(receipt[m].hash).ok
        /\ KindInv(m)
        /\ receipt = [receipt EXCEPT ![m] = receipt[m]]
        /\ kind = [kind EXCEPT ![m] = kind[m]]
        /\ place = [place EXCEPT ![m] = place[m]]
        /\ kind[m] \in Kinds
        /\ \A k \in Nat : [attempt EXCEPT ![m] = k] \in [Messages -> Nat]
        /\ [attempt EXCEPT ![m] = @ + 1] \in [Messages -> Nat]
    BY DEF IInv, MessageInv, ReceiptInv
  <1>1. CASE EstimateFails(m)
    <2>1. CASE attempt[m] >= GasRetries /\ Leave(m, "Dropped")
      <3>1. MovesTo(m, "Dropped", "send", receipt[m])
        BY <1>t, <1>1, <2>1 DEF MovesTo, EstimateFails
      <3> QED
        BY <3>1, TransitPreserves
    <2>2. CASE UNCHANGED <<kind, place>>
      <3>1. attempt' \in [Messages -> Nat]
        BY <1>t, <1>1, <2>2 DEF EstimateFails
      <3>2. MovesTo(m, kind[m], place[m], receipt[m])
        BY <1>t, <1>1, <2>2, <3>1 DEF MovesTo, EstimateFails, KindInv
      <3> QED
        BY <3>2, TransitPreserves
    <2> QED
      BY <1>1, <2>1, <2>2 DEF EstimateFails
  <1>2. CASE Estimate(m)
    <2>1. MovesTo(m, kind[m], "submit", receipt[m])
      BY <1>t, <1>2 DEF MovesTo, Estimate, KindInv
    <2> QED
      BY <2>1, TransitPreserves
  <1>3. CASE Submit(m)
    <2>1. MovesTo(m, "Pending", "send", receipt[m])
      BY <1>t, <1>3 DEF MovesTo, Submit
    <2> QED
      BY <2>1, TransitPreserves
  <1>4. CASE SubmitFails(m)
    <2>1. MovesTo(m, "Dropped", "send", receipt[m])
      BY <1>t, <1>4 DEF MovesTo, SubmitFails
    <2> QED
      BY <2>1, TransitPreserves
  <1>5. CASE PollPending(m)
    <2>1. MovesTo(m, kind[m], place[m], receipt[m])
      BY <1>t, <1>5 DEF MovesTo, PollPending, Polling, KindInv
    <2> QED
      BY <2>1, TransitPreserves
  <1>6. CASE PollMined(m)
    <2>1. MovesTo(m, kind[m], "receipt", receipt[m])
      BY <1>t, <1>6 DEF MovesTo, PollMined, Polling, QueryReceipt, KindInv
    <2> QED
      BY <2>1, TransitPreserves
  <1>7. CASE PollNotFound(m)
    <2>1. CASE QueryReceipt(m)
      <3>1. MovesTo(m, kind[m], "receipt", receipt[m])
        BY <1>t, <1>7, <2>1
           DEF MovesTo, PollNotFound, Polling, QueryReceipt, KindInv
      <3> QED
        BY <3>1, TransitPreserves
    <2>2. CASE Leave(m, "Dropped")
      <3>1. MovesTo(m, "Dropped", "send", receipt[m])
        BY <1>t, <1>7, <2>2 DEF MovesTo, PollNotFound, Polling
      <3> QED
        BY <3>1, TransitPreserves
    <2> QED
      BY <1>7, <2>1, <2>2 DEF PollNotFound
  <1>8. CASE PollFails(m)
    <2>1. MovesTo(m, "Faulted", "send", receipt[m])
      BY <1>t, <1>8 DEF MovesTo, PollFails, Polling
    <2> QED
      BY <2>1, TransitPreserves
  <1>9. CASE PollTimeout(m)
    <2>1. MovesTo(m, "Faulted", "send", receipt[m])
      BY <1>t, <1>9 DEF MovesTo, PollTimeout
    <2> QED
      BY <2>1, TransitPreserves
  <1>10. CASE ReceiptFound(m)
    <2>1. PICK n \in InclusionHeights(m) :
             receipt' = [receipt EXCEPT ![m] = ReceiptAt(m, n)]
      BY <1>10 DEF ReceiptFound
    <2>2. /\ ReceiptAt(m, n) \in [hash : Seq(Bodies), ok : BOOLEAN]
          /\ ReceiptAt(m, n).ok => /\ Len(ReceiptAt(m, n).hash) > 0
                                   /\ m \in Body(ReceiptAt(m, n).hash).ok
      BY <1>t, ReceiptNamesInclusion
    <2>3. MovesTo(m, "Executing", "send", ReceiptAt(m, n))
      BY <1>t, <1>10, <2>1, <2>2 DEF MovesTo, ReceiptFound
    <2> QED
      BY <2>3, TransitPreserves
  <1>11. CASE ReceiptFails(m)
    <2>1. MovesTo(m, "Faulted", "send", receipt[m])
      BY <1>t, <1>11 DEF MovesTo, ReceiptFails
    <2> QED
      BY <2>1, TransitPreserves
  <1>12. CASE Execute(m)
    <2>1. MovesTo(m, "Executed", "send", receipt[m])
      BY <1>t, <1>12 DEF MovesTo, Execute
    <2> QED
      BY <2>1, TransitPreserves
  <1>13. CASE ExecuteFails(m)
    <2>1. MovesTo(m, "Faulted", "send", receipt[m])
      BY <1>t, <1>13 DEF MovesTo, ExecuteFails
    <2> QED
      BY <2>1, TransitPreserves
  <1> QED
    BY <1>1, <1>2, <1>3, <1>4, <1>5, <1>6, <1>7, <1>8, <1>9, <1>10, <1>11,
       <1>12, <1>13 DEF Transit

-----------------------------------------------------------------------------
(* The link's call and the channels.                                       *)

\* sender.Relay keeps the invariant: the message is new to the transactor.
LEMMA RelayStep ==
    ASSUME IInv, NEW m \in Messages, Relay(m), UNCHANGED alive
    PROVE  IInv'
  <1> USE DEF Relay, Become, node
  <1>1. TypeOK'
    BY DEF IInv, TypeOK, Kinds, Places
  <1>2. ChainInv' /\ SweepInv'
    BY DEF IInv, ChainInv, SweepInv
  <1>3. QueueInv' /\ WaitInv'
    <2>1. /\ \A a \in 1 .. Len(transition) : transition[a] \in Messages
          /\ \A a \in LiveSlots : waitings[a] \in Messages
      BY SlotsHoldMessages
    <2>2. LiveSlots' = LiveSlots
      BY DEF LiveSlots
    <2>3. QueueInv'
      BY <2>1 DEF IInv, TypeOK, QueueInv
    <2>4. WaitInv'
      BY <2>1, <2>2 DEF IInv, TypeOK, WaitInv
    <2> QED
      BY <2>3, <2>4
  <1>4. ASSUME NEW n \in Messages PROVE MessageInv(n)'
    BY DEF IInv, TypeOK, MessageInv, KindInv, RepliesInv, ReceiptInv
  <1> QED
    BY <1>1, <1>2, <1>3, <1>4 DEF IInv

\* Send to the transition channel keeps the invariant and the capacity.
LEMMA EnqueueStep ==
    ASSUME IInv, NEW m \in Messages, Enqueue(m), UNCHANGED alive
    PROVE  IInv'
  <1> USE DEF Enqueue, Busy, node
  <1>1. TypeOK'
    BY ConstantsAssumption DEF IInv, TypeOK, Places
  <1>2. ChainInv' /\ SweepInv'
    BY DEF IInv, ChainInv, SweepInv
  <1>3. QueueInv' /\ WaitInv'
    <2>1. /\ \A a \in 1 .. Len(transition) : transition[a] \in Messages
          /\ \A a \in LiveSlots : waitings[a] \in Messages
      BY SlotsHoldMessages
    <2>2. LiveSlots' = LiveSlots
      BY DEF LiveSlots
    <2>3. /\ Len(transition') = Len(transition) + 1
          /\ transition'[Len(transition) + 1] = m
          /\ \A a \in 1 .. Len(transition) : transition'[a] = transition[a]
          /\ Len(transition) \in Nat
      BY DEF IInv, TypeOK
    <2>q. \A a \in 1 .. Len(transition) : place[transition[a]] = "queue"
      BY DEF IInv, QueueInv
    <2>s. place[m] = "send"
      OBVIOUS
    <2>4. ASSUME NEW a \in 1 .. Len(transition)
          PROVE  place[transition[a]] = "queue" /\ transition[a] # m
      BY <2>q, <2>s
    <2>p. \A n \in Messages :
             place'[n] = IF n = m THEN "queue" ELSE place[n]
      BY DEF IInv, TypeOK
    <2>5. ASSUME NEW a \in 1 .. Len(transition')
          PROVE  place'[transition'[a]] = "queue"
      <3>1. CASE a = Len(transition) + 1
        BY <2>3, <2>p, <3>1
      <3>2. CASE a \in 1 .. Len(transition)
        BY <2>1, <2>3, <2>4, <2>p, <3>2
      <3> QED
        BY <2>3, <3>1, <3>2
    <2>6. \A a, b \in 1 .. Len(transition') :
             transition'[a] = transition'[b] => a = b
      BY <2>3, <2>4 DEF IInv, QueueInv
    <2>7. QueueInv'
      BY <2>5, <2>6 DEF QueueInv
    <2>8. WaitInv'
      BY <2>1, <2>2 DEF IInv, TypeOK, WaitInv
    <2> QED
      BY <2>7, <2>8
  <1>4. ASSUME NEW n \in Messages PROVE MessageInv(n)'
    BY DEF IInv, TypeOK, MessageInv, KindInv, RepliesInv, ReceiptInv
  <1> QED
    BY <1>1, <1>2, <1>3, <1>4 DEF IInv

\* Send to the replies channel keeps the invariant: the first answer, or the
\* first and the last.
LEMMA ReplyStep ==
    ASSUME IInv, NEW m \in Messages, Reply(m), UNCHANGED alive
    PROVE  IInv'
  <1> USE DEF Reply, node
  <1>1. TypeOK'
    BY DEF IInv, TypeOK, Places
  <1>2. ChainInv' /\ SweepInv'
    BY DEF IInv, ChainInv, SweepInv
  <1>3. QueueInv' /\ WaitInv'
    <2>1. /\ \A a \in 1 .. Len(transition) : transition[a] \in Messages
          /\ \A a \in LiveSlots : waitings[a] \in Messages
      BY SlotsHoldMessages
    <2>2. LiveSlots' = LiveSlots
      BY DEF LiveSlots
    <2>3. QueueInv'
      BY <2>1 DEF IInv, TypeOK, QueueInv
    <2>4. WaitInv'
      BY <2>1, <2>2 DEF IInv, TypeOK, WaitInv
    <2> QED
      BY <2>3, <2>4
  <1>4. ASSUME NEW n \in Messages PROVE MessageInv(n)'
    <2>1. MessageInv(n) /\ TypeOK
      BY DEF IInv
    <2>2. CASE n = m
      <3>1. replies'[m] = <<kind[m]>> /\ kind[m] # "Finalized"
        BY <2>1, <2>2 DEF TypeOK, MessageInv, RepliesInv, KindInv
      <3> QED
        BY <2>1, <2>2, <3>1
           DEF TypeOK, MessageInv, KindInv, RepliesInv, ReceiptInv
    <2>3. CASE n # m
      BY <2>1, <2>3 DEF TypeOK, MessageInv, KindInv, RepliesInv, ReceiptInv
    <2> QED
      BY <2>2, <2>3
  <1> QED
    BY <1>1, <1>2, <1>3, <1>4 DEF IInv

\* The append to waitings adds one counting slot and one waiting message.
LEMMA AddWaitingStep ==
    ASSUME IInv, NEW m \in Messages, AddWaiting(m), UNCHANGED alive
    PROVE  IInv'
  <1> USE DEF AddWaiting, node
  <1>1. TypeOK'
    BY DEF IInv, TypeOK, Places
  <1>2. ChainInv' /\ SweepInv'
    BY DEF IInv, ChainInv, SweepInv
  <1>3. QueueInv'
    <2>1. \A a \in 1 .. Len(transition) : transition[a] \in Messages
      BY SlotsHoldMessages
    <2> QED
      BY <2>1 DEF IInv, TypeOK, QueueInv
  <1>4. WaitInv'
    <2>1. /\ LiveSlots = 1 .. Len(waitings)
          /\ LiveSlots' = 1 .. Len(waitings) + 1
          /\ \A a \in 1 .. Len(waitings) : waitings[a] \in Messages
      BY ElementOfSeq DEF IInv, TypeOK, LiveSlots
    <2>2. /\ waitings'[Len(waitings) + 1] = m
          /\ \A a \in 1 .. Len(waitings) : waitings'[a] = waitings[a]
          /\ Len(waitings) \in Nat
      BY DEF IInv, TypeOK
    <2>3. \A a \in LiveSlots : waitings[a] # m
      BY <2>1 DEF IInv, WaitInv
    <2>4. \A a \in LiveSlots' : place'[waitings'[a]] = "waiting"
      <3>1. place'[m] = "waiting" /\ \A n \in Messages \ {m} : place'[n] = place[n]
        BY DEF IInv, TypeOK
      <3>2. \A a \in LiveSlots : place[waitings[a]] = "waiting"
        BY DEF IInv, WaitInv
      <3>3. ASSUME NEW a \in LiveSlots'
            PROVE  place'[waitings'[a]] = "waiting"
        <4>1. CASE a = Len(waitings) + 1
          BY ONLY <2>2, <3>1, <4>1
        <4>2. CASE a # Len(waitings) + 1
          <5>1. a \in LiveSlots /\ a \in 1 .. Len(waitings)
            BY ONLY <2>1, <2>2, <3>3, <4>2
          <5> QED
            BY ONLY <2>1, <2>2, <2>3, <3>1, <3>2, <5>1
        <4> QED
          BY ONLY <4>1, <4>2
      <3> QED
        BY ONLY <3>3
    <2>5. \A a, b \in LiveSlots' : waitings'[a] = waitings'[b] => a = b
      <3>1. \A a, b \in LiveSlots : waitings[a] = waitings[b] => a = b
        BY DEF IInv, WaitInv
      <3> QED
        BY ONLY <2>1, <2>2, <2>3, <3>1
    <2>6. ASSUME NEW n \in Messages, place'[n] = "waiting"
          PROVE  \E a \in LiveSlots' : waitings'[a] = n
      <3>1. CASE n = m
        BY <2>1, <2>2, <3>1
      <3>2. CASE n # m
        <4>1. PICK a \in LiveSlots : waitings[a] = n
          BY <2>6, <3>2 DEF IInv, TypeOK, WaitInv
        <4> QED
          BY <2>1, <2>2, <4>1
      <3> QED
        BY <3>1, <3>2
    <2> QED
      BY <2>4, <2>5, <2>6 DEF WaitInv
  <1>5. ASSUME NEW n \in Messages PROVE MessageInv(n)'
    BY DEF IInv, TypeOK, MessageInv, KindInv, RepliesInv, ReceiptInv
  <1> QED
    BY <1>1, <1>2, <1>3, <1>4, <1>5 DEF IInv

\* Run takes a message out of the channel and starts its Transit.
LEMMA DispatchStep ==
    ASSUME IInv, Dispatch, UNCHANGED alive
    PROVE  IInv'
  <1> USE DEF Dispatch, node, EntryOf
  <1> DEFINE m == Head(transition)
  <1>1. /\ transition \in Seq(Messages)
        /\ m = transition[1]
        /\ m \in Messages
        /\ Tail(transition) \in Seq(Messages)
        /\ Len(Tail(transition)) = Len(transition) - 1
        /\ \A a \in 1 .. Len(Tail(transition)) :
              Tail(transition)[a] = transition[a + 1]
        /\ Len(transition) \in Nat \ {0}
    BY HeadTailProperties, EmptySeq DEF IInv, TypeOK
  <1>2. /\ place[m] = "queue"
        /\ place' = [place EXCEPT ![m] = EntryOf(kind[m])]
        /\ EntryOf(kind[m]) \in {"estimate", "submit", "poll", "execute"}
        /\ kind[m] \notin Settled
    BY <1>1 DEF IInv, QueueInv, MessageInv, KindInv
  <1> HIDE DEF m, EntryOf
  <1>3. TypeOK'
    <2>1. EntryOf(kind[m]) \in Places
      BY <1>2 DEF Places
    <2>2. /\ place' \in [Messages -> Places]
          /\ Len(transition') <= Capacity
      BY <1>1, <1>2, <2>1, ConstantsAssumption DEF IInv, TypeOK
    <2> QED
      BY <1>1, <2>2 DEF IInv, TypeOK
  <1>4. ChainInv' /\ SweepInv'
    BY DEF IInv, ChainInv, SweepInv
  <1>5. QueueInv'
    <2>1. \A a \in 1 .. Len(transition) : transition[a] \in Messages
      BY SlotsHoldMessages
    <2>2. \A a \in 1 .. Len(transition') :
             /\ transition'[a] = transition[a + 1]
             /\ a + 1 \in 1 .. Len(transition)
             /\ transition[a + 1] # m
             /\ place[transition[a + 1]] = "queue"
      BY <1>1 DEF IInv, QueueInv
    <2>3. \A a \in 1 .. Len(transition') : place'[transition'[a]] = "queue"
      BY <1>1, <1>2, <2>1, <2>2 DEF IInv, TypeOK
    <2>4. ASSUME NEW a \in 1 .. Len(transition'),
                 NEW b \in 1 .. Len(transition'),
                 transition'[a] = transition'[b]
          PROVE  a = b
      <3>1. a + 1 = b + 1
        BY <2>2, <2>4 DEF IInv, QueueInv
      <3> QED
        BY <3>1
    <2> QED
      BY <2>3, <2>4 DEF QueueInv
  <1>6. WaitInv'
    <2>1. \A a \in LiveSlots : waitings[a] \in Messages
      BY SlotsHoldMessages
    <2>2. LiveSlots' = LiveSlots
      BY DEF LiveSlots
    <2>3. \A n \in Messages : place'[n] = "waiting" <=> place[n] = "waiting"
      BY <1>1, <1>2 DEF IInv, TypeOK
    <2>4. waitings' = waitings /\ WaitInv
      BY DEF IInv
    <2> QED
      BY ONLY <2>1, <2>2, <2>3, <2>4 DEF WaitInv
  <1>7. ASSUME NEW n \in Messages PROVE MessageInv(n)'
    BY <1>1, <1>2
       DEF IInv, TypeOK, MessageInv, KindInv, RepliesInv, ReceiptInv
  <1> QED
    BY <1>3, <1>4, <1>5, <1>6, <1>7 DEF IInv

-----------------------------------------------------------------------------
(* The pass over waitings.                                                 *)

\* A pass begins with every slot of waitings unvisited.
LEMMA SweepBeginStep ==
    ASSUME IInv, SweepBegin, UNCHANGED alive
    PROVE  IInv'
  <1> USE DEF SweepBegin, Sweeping, node
  <1>1. PICK f \in finals :
           /\ sweep' = [on |-> TRUE, final |-> f, i |-> 1, k |-> 0]
           /\ finals' = finals \ {f}
    OBVIOUS
  <1>2. f \in Seq(Bodies) /\ IsAncestor(f, final)
    BY DEF IInv, TypeOK, ChainInv
  <1>3. TypeOK'
    BY <1>1, <1>2 DEF IInv, TypeOK
  <1>4. ChainInv' /\ SweepInv'
    BY <1>1, <1>2, LenProperties DEF IInv, TypeOK, ChainInv, SweepInv
  <1>5. QueueInv'
    BY DEF IInv, QueueInv
  <1>6. WaitInv'
    <2>1. LiveSlots = 1 .. Len(waitings)
      BY DEF LiveSlots
    <2>2. LiveSlots' = (1 .. 0) \cup (1 .. Len(waitings))
      BY <1>1 DEF LiveSlots
    <2>3. LiveSlots' = LiveSlots
      BY <2>1, <2>2
    <2> QED
      BY <2>3 DEF IInv, WaitInv
  <1>7. ASSUME NEW n \in Messages PROVE MessageInv(n)'
    BY DEF IInv, MessageInv, KindInv, RepliesInv, ReceiptInv
  <1> QED
    BY <1>3, <1>4, <1>5, <1>6, <1>7 DEF IInv

\* Moving a kept message to slot k renames one counting slot.
LEMMA SweepKeepStep ==
    ASSUME IInv, SweepKeep, UNCHANGED alive
    PROVE  IInv'
  <1> USE DEF SweepKeep, Sweeping, node
  <1> DEFINE i == sweep.i
             k == sweep.k
  <1>1. /\ i \in 1 .. Len(waitings) /\ k \in Nat /\ k < i
        /\ k + 1 \in 1 .. Len(waitings)
        /\ waitings[i] \in Messages
        /\ Len(waitings) \in Nat
        /\ i \in LiveSlots
    <2>1. /\ sweep.on /\ i \in Nat \ {0} /\ k \in Nat /\ k < i
          /\ i <= Len(waitings)
          /\ Len(waitings) \in Nat
          /\ waitings \in Seq(Messages)
      BY LenProperties DEF IInv, TypeOK, SweepInv
    <2>2. i \in 1 .. Len(waitings) /\ k + 1 \in 1 .. Len(waitings)
      BY <2>1
    <2>3. waitings[i] \in Messages
      BY <2>1, <2>2, ElementOfSeq
    <2> QED
      BY <2>1, <2>2, <2>3 DEF LiveSlots
  <1>2. /\ sweep'.on /\ sweep'.i = i + 1 /\ sweep'.k = k + 1
        /\ sweep'.final = sweep.final
        /\ sweep' \in [on : BOOLEAN, final : Seq(Bodies), i : Nat \ {0}, k : Nat]
    <2>1. /\ sweep \in [on : BOOLEAN, final : Seq(Bodies), i : Nat \ {0}, k : Nat]
          /\ sweep.on
          /\ sweep' = [on |-> TRUE, final |-> sweep.final, i |-> i + 1,
                        k |-> k + 1]
      BY <1>1 DEF IInv, TypeOK, Visited
    <2> HIDE DEF SweepKeep
    <2> QED
      BY <1>1, <2>1
  <1>3. /\ waitings' \in Seq(Messages)
        /\ Len(waitings') = Len(waitings)
        /\ waitings'[k + 1] = waitings[i]
        /\ \A a \in 1 .. Len(waitings) :
              a # k + 1 => waitings'[a] = waitings[a]
    BY <1>1, ExceptSeq DEF IInv, TypeOK
  <1>4. /\ LiveSlots = (1 .. k) \cup (i .. Len(waitings))
        /\ LiveSlots' = (1 .. k + 1) \cup (i + 1 .. Len(waitings))
    BY <1>1, <1>2, <1>3 DEF LiveSlots
  <1> HIDE DEF i, k, SweepKeep
  <1>5. TypeOK'
    BY <1>2, <1>3 DEF IInv, TypeOK, SweepKeep
  <1>6. ChainInv' /\ SweepInv' /\ QueueInv'
    BY <1>1, <1>2, <1>3
       DEF IInv, ChainInv, SweepInv, QueueInv, SweepKeep
  <1>7. WaitInv'
    <2>1. place' = place
      BY DEF SweepKeep
    <2>2. ASSUME NEW a \in LiveSlots'
          PROVE  waitings'[a] = waitings[IF a = k + 1 THEN i ELSE a]
      BY <1>1, <1>3, <1>4
    <2>3. ASSUME NEW a \in LiveSlots'
          PROVE  (IF a = k + 1 THEN i ELSE a) \in LiveSlots
      BY <1>1, <1>4
    <2>4. \A a \in LiveSlots' : place'[waitings'[a]] = "waiting"
      BY <2>1, <2>2, <2>3 DEF IInv, WaitInv
    <2>5. ASSUME NEW a \in LiveSlots', NEW b \in LiveSlots',
                 waitings'[a] = waitings'[b]
          PROVE  a = b
      <3>1. (IF a = k + 1 THEN i ELSE a) = (IF b = k + 1 THEN i ELSE b)
        BY <2>2, <2>3, <2>5 DEF IInv, WaitInv
      <3> QED
        BY <1>1, <1>4, <3>1
    <2>6. ASSUME NEW n \in Messages, place'[n] = "waiting"
          PROVE  \E a \in LiveSlots' : waitings'[a] = n
      <3>1. PICK a \in LiveSlots : waitings[a] = n
        BY <2>1, <2>6 DEF IInv, WaitInv
      <3>2. CASE a = i
        BY <1>1, <1>3, <1>4, <3>1, <3>2
      <3>3. CASE a # i
        BY <1>1, <1>3, <1>4, <3>1, <3>3
      <3> QED
        BY <3>2, <3>3
    <2> QED
      BY <2>4, <2>5, <2>6 DEF WaitInv
  <1>8. ASSUME NEW n \in Messages PROVE MessageInv(n)'
    BY DEF IInv, MessageInv, KindInv, RepliesInv, ReceiptInv, SweepKeep
  <1> QED
    BY <1>5, <1>6, <1>7, <1>8 DEF IInv

\* A pass ends with the kept prefix, which is what waitings is cut to.
LEMMA SweepEndStep ==
    ASSUME IInv, SweepEnd, UNCHANGED alive
    PROVE  IInv'
  <1> USE DEF SweepEnd, Sweeping, node, Idle
  <1>1. /\ sweep.k \in Nat /\ sweep.k <= Len(waitings)
        /\ Len(waitings) \in Nat
        /\ LiveSlots = 1 .. sweep.k
    BY LenProperties DEF IInv, TypeOK, SweepInv, LiveSlots
  <1>2. \A a \in 1 .. sweep.k : waitings[a] \in Messages
    BY <1>1, SlotsHoldMessages
  <1>3. /\ waitings' \in Seq(Messages)
        /\ Len(waitings') = sweep.k
        /\ \A a \in 1 .. sweep.k : waitings'[a] = waitings[a]
    <2>1. /\ SubSeq(waitings, 1, sweep.k) \in Seq(Messages)
          /\ Len(SubSeq(waitings, 1, sweep.k)) =
                IF 1 <= sweep.k THEN sweep.k - 1 + 1 ELSE 0
          /\ \A a \in 1 .. sweep.k - 1 + 1 :
                SubSeq(waitings, 1, sweep.k)[a] = waitings[1 + a - 1]
      BY <1>1, <1>2, SubSeqProperties
    <2> QED
      BY <1>1, <2>1
  <1>4. LiveSlots' = LiveSlots
    BY <1>1, <1>3 DEF LiveSlots
  <1>5. TypeOK'
    BY <1>3, EmptySeq DEF IInv, TypeOK, Genesis
  <1>6. ChainInv' /\ SweepInv' /\ QueueInv'
    BY DEF IInv, ChainInv, SweepInv, QueueInv
  <1>7. WaitInv'
    BY <1>1, <1>3, <1>4 DEF IInv, WaitInv
  <1>8. ASSUME NEW n \in Messages PROVE MessageInv(n)'
    BY DEF IInv, MessageInv, KindInv, RepliesInv, ReceiptInv
  <1> QED
    BY <1>5, <1>6, <1>7, <1>8 DEF IInv

\* The test of tryFinalizeInLock decides whether the block of the receipt is
\* on the chain of the finality.
LEMMA TryFinalizeIsSound ==
    ASSUME IInv, sweep.on, NEW m \in Messages,
           TryFinalize(sweep.final, m) # "Executed"
    PROVE  /\ Len(receipt[m].hash) <= Len(final)
           /\ TryFinalize(sweep.final, m) = "Finalized"
                 => IsAncestor(receipt[m].hash, final)
           /\ TryFinalize(sweep.final, m) # "Finalized"
                 => /\ TryFinalize(sweep.final, m) = "Dropped"
                    /\ ~IsAncestor(receipt[m].hash, final)
  <1> DEFINE h == receipt[m].hash
             f == sweep.final
  <1>1. /\ h \in Seq(Bodies) /\ f \in Seq(Bodies) /\ final \in Seq(Bodies)
        /\ IsAncestor(f, final)
        /\ Len(h) \in Nat /\ Len(f) \in Nat /\ Len(final) \in Nat
    BY LenProperties DEF IInv, TypeOK, ChainInv
  <1>2. Len(h) <= Len(f)
    BY <1>1 DEF TryFinalize, Number
  <1>3. Len(f) <= Len(final)
    BY <1>1 DEF IsAncestor
  <1>4. IsAncestor(h, f) <=> h = AncestorAt(f, Len(h))
    BY <1>1, <1>2, WalkDecidesAncestry
  <1>5. IsAncestor(h, f) => IsAncestor(h, final)
    BY <1>1, AncestorTransitive
  <1>6. IsAncestor(h, final) => IsAncestor(h, f)
    BY <1>1, <1>2, AncestorsAreComparable
  <1>7. /\ h = AncestorAt(f, Len(h)) => TryFinalize(f, m) = "Finalized"
        /\ h # AncestorAt(f, Len(h)) => TryFinalize(f, m) = "Dropped"
    BY <1>1, <1>2 DEF TryFinalize, Number
  <1> HIDE DEF h, f
  <1>8. Len(h) <= Len(final)
    BY <1>1, <1>2, <1>3
  <1>9. TryFinalize(f, m) = "Finalized" => IsAncestor(h, final)
    BY <1>4, <1>5, <1>7
  <1>10. TryFinalize(f, m) # "Finalized"
            => TryFinalize(f, m) = "Dropped" /\ ~IsAncestor(h, final)
    BY <1>4, <1>6, <1>7
  <1> QED
    BY <1>8, <1>9, <1>10 DEF h, f

\* The second answer is the last: the sequence of answers is Executed, then it.
LEMMA SecondReply ==
    ASSUME NEW a, NEW b
    PROVE  Append(<<a>>, b) = <<a, b>>
  <1> DEFINE S == {a, b}
  <1>1. <<a>> \in Seq(S) /\ Len(<<a>>) = 1 /\ <<a>>[1] = a
    OBVIOUS
  <1>2. /\ Append(<<a>>, b) \in Seq(S)
        /\ Len(Append(<<a>>, b)) = 2
        /\ Append(<<a>>, b)[1] = a
        /\ Append(<<a>>, b)[2] = b
    BY <1>1
  <1>3. /\ <<a, b>> \in Seq(S)
        /\ Len(<<a, b>>) = 2
        /\ <<a, b>>[1] = a
        /\ <<a, b>>[2] = b
    OBVIOUS
  <1>4. \A n \in 1 .. 2 : Append(<<a>>, b)[n] = <<a, b>>[n]
    <2>1. \A n \in 1 .. 2 : n = 1 \/ n = 2
      OBVIOUS
    <2> QED
      BY <1>2, <1>3, <2>1
  <1> QED
    BY <1>2, <1>3, <1>4, SeqEqual

\* A settled message leaves the counting slots and gets its last answer.
LEMMA SweepSettleStep ==
    ASSUME IInv, SweepSettle, UNCHANGED alive
    PROVE  IInv'
  <1> USE DEF Sweeping, node
  <1> DEFINE i == sweep.i
             m == waitings[i]
             t == TryFinalize(sweep.final, m)
  <1>1. /\ sweep.on /\ i \in Nat \ {0} /\ i <= Len(waitings)
        /\ Len(waitings) \in Nat /\ sweep.k \in Nat /\ sweep.k < i
        /\ i \in 1 .. Len(waitings) /\ i \in LiveSlots
        /\ waitings \in Seq(Messages)
    <2>1. /\ sweep.on /\ i \in Nat \ {0} /\ sweep.k \in Nat /\ sweep.k < i
          /\ i <= Len(waitings)
          /\ Len(waitings) \in Nat
          /\ waitings \in Seq(Messages)
      BY LenProperties DEF IInv, TypeOK, SweepInv, SweepSettle
    <2>2. i \in 1 .. Len(waitings)
      BY <2>1
    <2> QED
      BY <2>1, <2>2 DEF LiveSlots
  <1>2. m \in Messages /\ place[m] = "waiting"
    BY <1>1, SlotsHoldMessages DEF IInv, WaitInv
  <1>3. /\ t \in {"Dropped", "Finalized"}
        /\ Len(receipt[m].hash) <= Len(final)
        /\ t = "Finalized" => IsAncestor(receipt[m].hash, final)
        /\ t = "Dropped" => ~IsAncestor(receipt[m].hash, final)
    BY <1>1, <1>2, TryFinalizeIsSound DEF SweepSettle
  <1>4. /\ kind' = [kind EXCEPT ![m] = t]
        /\ place' = [place EXCEPT ![m] = "done"]
        /\ replies' = [replies EXCEPT ![m] = Append(@, t)]
        /\ Visited(sweep.k)
        /\ UNCHANGED <<waitings, finals, attempt, receipt, transition, node,
                       final>>
    BY DEF SweepSettle, Become
  <1>5. MessageInv(m)
    BY <1>2 DEF IInv
  <1>6. /\ sweep'.on /\ sweep'.i = i + 1 /\ sweep'.k = sweep.k
        /\ sweep'.final = sweep.final
        /\ sweep' \in [on : BOOLEAN, final : Seq(Bodies), i : Nat \ {0}, k : Nat]
    <2>1. /\ sweep \in [on : BOOLEAN, final : Seq(Bodies), i : Nat \ {0}, k : Nat]
          /\ sweep' = [on |-> TRUE, final |-> sweep.final, i |-> i + 1,
                        k |-> sweep.k]
      BY <1>1, <1>4 DEF IInv, TypeOK, Visited
    <2> QED
      BY <1>1, <2>1
  <1>7. /\ LiveSlots = (1 .. sweep.k) \cup (i .. Len(waitings))
        /\ LiveSlots' = (1 .. sweep.k) \cup (i + 1 .. Len(waitings))
        /\ LiveSlots' = LiveSlots \ {i}
    BY <1>1, <1>4, <1>6 DEF LiveSlots
  <1> HIDE DEF i, m, t
  <1>8. /\ \A n \in Messages : n # m => /\ place'[n] = place[n]
                                        /\ kind'[n] = kind[n]
                                        /\ replies'[n] = replies[n]
        /\ place'[m] = "done" /\ kind'[m] = t
        /\ replies'[m] = Append(replies[m], t)
    BY <1>2, <1>4 DEF IInv, TypeOK
  <1>9. replies'[m] = <<"Executed", t>>
    <2>1. replies[m] = <<"Executed">>
      BY <1>2, <1>5 DEF MessageInv, RepliesInv
    <2>2. Append(<<"Executed">>, t) = <<"Executed", t>>
      BY <1>3, SecondReply
    <2> QED
      BY <1>3, <1>8, <2>1, <2>2
  <1>10. TypeOK'
    <2>1. replies' \in [Messages -> Seq(Settled)]
      BY <1>2, <1>3, <1>4 DEF IInv, TypeOK
    <2>2. kind' \in [Messages -> Kinds] /\ place' \in [Messages -> Places]
      BY <1>2, <1>3, <1>4 DEF IInv, TypeOK, Kinds, Places
    <2> QED
      BY <1>4, <1>6, <2>1, <2>2 DEF IInv, TypeOK
  <1>11. ChainInv' /\ SweepInv'
    BY <1>1, <1>4, <1>6 DEF IInv, ChainInv, SweepInv
  <1>12. QueueInv'
    <2>1. \A a \in 1 .. Len(transition) :
             /\ transition[a] \in Messages
             /\ place[transition[a]] = "queue"
             /\ transition[a] # m
      BY <1>2, SlotsHoldMessages DEF IInv, QueueInv
    <2> QED
      BY <1>4, <1>8, <2>1 DEF IInv, QueueInv
  <1>13. WaitInv'
    <2>1. \A a \in LiveSlots' : /\ a \in LiveSlots
                                /\ waitings[a] \in Messages
                                /\ waitings[a] # m
      BY <1>1, <1>7, SlotsHoldMessages DEF IInv, WaitInv, m
    <2>2. \A a \in LiveSlots' : place'[waitings'[a]] = "waiting"
      BY <1>4, <1>8, <2>1 DEF IInv, WaitInv
    <2>3. \A a, b \in LiveSlots' : waitings'[a] = waitings'[b] => a = b
      BY <1>4, <2>1 DEF IInv, WaitInv
    <2>4. ASSUME NEW n \in Messages, place'[n] = "waiting"
          PROVE  \E a \in LiveSlots' : waitings'[a] = n
      <3>1. n # m /\ place[n] = "waiting"
        BY <1>8, <2>4
      <3>2. PICK a \in LiveSlots : waitings[a] = n
        BY <3>1 DEF IInv, WaitInv
      <3>3. a \in LiveSlots'
        BY <1>7, <3>1, <3>2 DEF m
      <3> QED
        BY <1>4, <3>2, <3>3
    <2> QED
      BY <2>2, <2>3, <2>4 DEF WaitInv
  <1>14. ASSUME NEW n \in Messages PROVE MessageInv(n)'
    <2>1. MessageInv(n)
      BY DEF IInv
    <2>2. CASE n = m
      BY <1>2, <1>3, <1>4, <1>5, <1>8, <1>9, <2>2
         DEF MessageInv, KindInv, RepliesInv, ReceiptInv
    <2>3. CASE n # m
      BY <1>4, <1>8, <2>1, <2>3
         DEF MessageInv, KindInv, RepliesInv, ReceiptInv
    <2> QED
      BY <2>2, <2>3
  <1> QED
    BY <1>10, <1>11, <1>12, <1>13, <1>14 DEF IInv

-----------------------------------------------------------------------------
(* The node and the finalities.                                            *)

\* The transactor's own state is untouched and final can only grow.
LEMMA MessagesSurviveFinality ==
    ASSUME IInv, UNCHANGED <<kind, place, receipt, replies>>,
           final' \in Seq(Bodies), IsAncestor(final, final'),
           NEW n \in Messages
    PROVE  MessageInv(n)'
  <1>1. /\ MessageInv(n)
        /\ receipt[n].hash \in Seq(Bodies)
        /\ final \in Seq(Bodies)
        /\ Len(final) \in Nat /\ Len(final') \in Nat
        /\ Len(receipt[n].hash) \in Nat
    BY LenProperties DEF IInv, TypeOK
  <1>2. IsAncestor(receipt[n].hash, final) => IsAncestor(receipt[n].hash, final')
    BY <1>1, AncestorTransitive
  <1>3. ASSUME Len(receipt[n].hash) <= Len(final),
               IsAncestor(receipt[n].hash, final')
        PROVE  IsAncestor(receipt[n].hash, final)
    BY <1>1, <1>3, AncestorsAreComparable
  <1>4. Len(final) <= Len(final')
    BY DEF IsAncestor
  <1>5. KindInv(n)' /\ ReceiptInv(n)'
    BY <1>1 DEF MessageInv, KindInv, ReceiptInv
  <1>6. RepliesInv(n)'
    BY <1>1, <1>2, <1>3, <1>4 DEF MessageInv, RepliesInv
  <1> QED
    BY <1>5, <1>6 DEF MessageInv

\* The node seals or abandons blocks above the finalized one only.
LEMMA NodeStep ==
    ASSUME IInv, Node, UNCHANGED alive
    PROVE  IInv'
  <1> USE DEF NodeOnly, progress
  <1>t. /\ chain \in Seq(Bodies) /\ final \in Seq(Bodies)
        /\ IsAncestor(final, chain)
        /\ Len(chain) \in Nat /\ Len(final) \in Nat
        /\ Len(final) <= Len(chain)
    BY LenProperties DEF IInv, TypeOK, ChainInv, IsAncestor
  <1>1. chain' \in Seq(Bodies) /\ IsAncestor(final, chain')
    <2>1. CASE Mine
      <3>1. PICK body \in Bodies : chain' = Append(chain, body)
        BY <2>1 DEF Mine, Bodies, Unmined, IInv, TypeOK
      <3> QED
        BY <1>t, <3>1, AncestorOfChild
    <2>2. CASE Reorg
      <3>1. PICK n \in Len(final) .. Len(chain) - 1 :
               chain' = AncestorAt(chain, n)
        BY <2>2 DEF Reorg
      <3>2. n \in 0 .. Len(chain) /\ Len(final) <= n
        BY <1>t, <3>1
      <3> QED
        BY <1>t, <3>1, <3>2, AncestorAtIsAncestor, AncestorOfCut
    <2> QED
      BY <2>1, <2>2 DEF Node
  <1>2. /\ UNCHANGED <<kind, place, attempt, receipt, transition, waitings,
                       sweep, finals, replies, alive, sent, final>>
    BY DEF Node, Mine, Reorg
  <1>3. TypeOK'
    BY <1>1, <1>2 DEF IInv, TypeOK
  <1>4. ChainInv' /\ SweepInv' /\ QueueInv'
    BY <1>1, <1>2 DEF IInv, ChainInv, SweepInv, QueueInv
  <1>5. WaitInv'
    BY <1>2 DEF IInv, WaitInv, LiveSlots
  <1>6. \A n \in Messages : MessageInv(n)'
    BY <1>2, <1>t, AncestorReflexive, MessagesSurviveFinality
  <1> QED
    BY <1>3, <1>4, <1>5, <1>6 DEF IInv

\* A new finality extends the finalized chain and adds a pass.
LEMMA NotifyFinalityStep ==
    ASSUME IInv, NotifyFinality, UNCHANGED alive
    PROVE  IInv'
  <1> USE DEF progress, node
  <1>t. /\ chain \in Seq(Bodies) /\ final \in Seq(Bodies)
        /\ IsAncestor(final, chain)
        /\ Len(chain) \in Nat /\ Len(final) \in Nat
    BY LenProperties DEF IInv, TypeOK, ChainInv
  <1>1. PICK n \in Len(final) + 1 .. Len(chain) :
           /\ final' = AncestorAt(chain, n)
           /\ finals' = finals \cup {final'}
    BY DEF NotifyFinality
  <1>2. UNCHANGED <<kind, place, attempt, receipt, transition, waitings,
                    sweep, replies, alive, sent, chain>>
    BY DEF NotifyFinality
  <1>3. n \in 0 .. Len(chain) /\ Len(final) <= n
    BY <1>t, <1>1
  <1>4. /\ final' \in Seq(Bodies)
        /\ IsAncestor(final', chain)
        /\ IsAncestor(final, final')
    BY <1>t, <1>1, <1>3, AncestorAtIsAncestor, AncestorOfCut
  <1>5. TypeOK'
    BY <1>1, <1>2, <1>4 DEF IInv, TypeOK
  <1>6. ChainInv'
    <2>1. ASSUME NEW f \in Seq(Bodies), IsAncestor(f, final)
          PROVE  IsAncestor(f, final')
      BY <1>t, <1>4, <2>1, AncestorTransitive
    <2>2. \A f \in finals' : IsAncestor(f, final')
      BY <1>1, <1>4, <2>1, AncestorReflexive DEF IInv, TypeOK, ChainInv
    <2>3. sweep.on => IsAncestor(sweep.final, final')
      BY <2>1 DEF IInv, TypeOK, ChainInv
    <2> QED
      BY <1>2, <1>4, <2>2, <2>3 DEF ChainInv
  <1>7. SweepInv' /\ QueueInv'
    BY <1>2 DEF IInv, SweepInv, QueueInv
  <1>8. WaitInv'
    BY <1>2 DEF IInv, WaitInv, LiveSlots
  <1>9. \A m \in Messages : MessageInv(m)'
    BY <1>2, <1>4, MessagesSurviveFinality
  <1> QED
    BY <1>5, <1>6, <1>7, <1>8, <1>9 DEF IInv

\* The invariant reads nothing but the variables.
LEMMA StutterStep ==
    ASSUME IInv, alive' \in BOOLEAN,
           UNCHANGED <<kind, place, attempt, receipt, transition, waitings,
                       sweep, finals, replies, sent, chain, final>>
    PROVE  IInv'
  <1>1. TypeOK'
    BY DEF IInv, TypeOK
  <1>2. ChainInv' /\ SweepInv' /\ QueueInv'
    BY DEF IInv, ChainInv, SweepInv, QueueInv
  <1>3. WaitInv'
    BY DEF IInv, WaitInv, LiveSlots
  <1>4. \A m \in Messages : MessageInv(m)'
    BY DEF IInv, MessageInv, KindInv, RepliesInv, ReceiptInv
  <1> QED
    BY <1>1, <1>2, <1>3, <1>4 DEF IInv

-----------------------------------------------------------------------------

\* The invariant is inductive.
LEMMA NextIInv == IInv /\ [Next]_vars => IInv'
  <1> SUFFICES ASSUME IInv, [Next]_vars PROVE IInv'
    OBVIOUS
  <1>1. ASSUME UNCHANGED alive, NEW m \in Messages,
               Relay(m) \/ Send(m) \/ Transit(m)
        PROVE  IInv'
    BY <1>1, RelayStep, EnqueueStep, ReplyStep, AddWaitingStep, TransitStep
       DEF Send
  <1>2. ASSUME UNCHANGED alive, Run
        PROVE  IInv'
    BY <1>2, DispatchStep, SweepBeginStep, SweepKeepStep, SweepSettleStep,
       SweepEndStep, NotifyFinalityStep DEF Run, Sweep
  <1>3. ASSUME UNCHANGED alive, Node
        PROVE  IInv'
    BY <1>3, NodeStep
  <1>4. CASE Panic
    BY <1>4, StutterStep DEF Panic, progress, node
  <1>5. CASE UNCHANGED vars
    BY <1>5, StutterStep DEF vars, IInv, TypeOK
  <1> QED
    BY <1>1, <1>2, <1>3, <1>4, <1>5 DEF Next

\* The strengthened invariant holds in every reachable state.
THEOREM Invariance == Safe => []IInv
  BY InitIInv, NextIInv, PTL DEF Safe

\* Every variable keeps its type, and the transition channel its capacity.
THEOREM TypeCorrect == Safe => []TypeOK
  <1>1. IInv => TypeOK
    BY DEF IInv
  <1> QED
    BY <1>1, Invariance, PTL

\* A message the link was told is finalized is on the finalized chain, for any
\* number of messages, reorganisations and finality goroutines
\* (tryFinalizeInLock).
THEOREM FinalizedSafety == Safe => []FinalizedIsFinal
  <1>1. IInv => FinalizedIsFinal
    <2> SUFFICES ASSUME IInv, NEW m \in Messages, Told(m, "Finalized")
                 PROVE  /\ receipt[m].ok
                        /\ IsAncestor(receipt[m].hash, final)
                        /\ m \in chain[Number(receipt[m].hash)].ok
      BY DEF FinalizedIsFinal
    <2>1. MessageInv(m) /\ TypeOK /\ ChainInv
      BY DEF IInv
    <2>2. /\ receipt[m].hash \in Seq(Bodies)
          /\ final \in Seq(Bodies) /\ chain \in Seq(Bodies)
      BY <2>1 DEF TypeOK
    <2>3. replies[m] = <<"Executed", "Finalized">> /\ place[m] = "done"
      BY <2>1 DEF MessageInv, RepliesInv, Told
    <2>4. receipt[m].ok /\ IsAncestor(receipt[m].hash, final)
      BY <2>1, <2>3 DEF MessageInv, RepliesInv
    <2>5. IsAncestor(receipt[m].hash, chain)
      BY <2>1, <2>2, <2>4, AncestorTransitive DEF ChainInv
    <2>6. m \in Body(receipt[m].hash).ok /\ Len(receipt[m].hash) > 0
      BY <2>1, <2>4 DEF MessageInv, ReceiptInv
    <2> QED
      BY <2>2, <2>4, <2>5, <2>6, LenProperties DEF IsAncestor, Body, Number
  <1> QED
    BY <1>1, Invariance, PTL

\* A message dropped after its execution was told is not on the finalized
\* chain, and never will be: the chain already has another block there.
THEOREM DroppedSafety == Safe => []DroppedIsOrphaned
  <1>1. IInv => DroppedIsOrphaned
    <2> SUFFICES ASSUME IInv, NEW m \in Messages,
                        Told(m, "Executed"), Told(m, "Dropped")
                 PROVE  /\ Number(receipt[m].hash) <= Number(final)
                        /\ ~IsAncestor(receipt[m].hash, final)
      BY DEF DroppedIsOrphaned
    <2>1. MessageInv(m)
      BY DEF IInv
    <2>2. replies[m] = <<"Executed", "Dropped">> /\ place[m] = "done"
      BY <2>1 DEF MessageInv, RepliesInv, Told
    <2> QED
      BY <2>1, <2>2 DEF MessageInv, RepliesInv, Number
  <1> QED
    BY <1>1, Invariance, PTL

\* The in-place compaction of waitings neither loses nor doubles a message,
\* whatever number of messages waits.
THEOREM WaitingsSafety == Safe => []WaitingsIntact
  <1>1. IInv => WaitingsIntact
    <2> SUFFICES ASSUME IInv PROVE WaitingsIntact
      OBVIOUS
    <2>1. \A a \in LiveSlots : waitings[a] \in Messages
      BY SlotsHoldMessages
    <2> QED
      BY <2>1 DEF IInv, WaitInv, WaitingsIntact
  <1> QED
    BY <1>1, Invariance, PTL

-----------------------------------------------------------------------------
(* The promise to the link: each step is one of RelayLifecycle, or changes *)
(* nothing that the link may know.                                         *)

AtOf(m) == IF Told(m, "Executed") THEN receipt[m].hash ELSE Genesis

Answer(r, t) == \E i \in 1 .. Len(r) : r[i] = t

\* StatusOf, of what it reads: the place of the message, the answers so far,
\* and the receipt.
StatusFrom(p, r, c) ==
    IF p = "outside"                THEN "unknown"
    ELSE IF Answer(r, "Finalized")  THEN "finalized"
    ELSE IF Answer(r, "Faulted")    THEN "faulted"
    ELSE IF Answer(r, "Dropped")    THEN IF Answer(r, "Executed") THEN "orphaned" ELSE "dropped"
    ELSE IF ~Answer(r, "Executed")  THEN "accepted"
    ELSE IF c.ok                    THEN "executed" ELSE "reverted"

\* The status of a message, before and after a step.
LEMMA StatusReads ==
    ASSUME NEW m
    PROVE  /\ StatusOf(m) = StatusFrom(place[m], replies[m], receipt[m])
           /\ StatusOf(m)' = StatusFrom(place'[m], replies'[m], receipt'[m])
           /\ Told(m, "Executed") <=> Answer(replies[m], "Executed")
           /\ Told(m, "Executed")' <=> Answer(replies'[m], "Executed")
  BY DEF StatusOf, StatusFrom, Told, Answer

\* The answers that are given, and what the link knows by them.
LEMMA AnswersOf ==
    /\ \A t : ~Answer(<< >>, t)
    /\ \A a, t : Answer(<<a>>, t) <=> t = a
    /\ \A a, b, t : Answer(<<a, b>>, t) <=> t = a \/ t = b
  <1>1. \A t : ~Answer(<< >>, t)
    BY DEF Answer
  <1>2. \A a, t : Answer(<<a>>, t) <=> t = a
    BY DEF Answer
  <1>3. ASSUME NEW a, NEW b, NEW t
        PROVE  Answer(<<a, b>>, t) <=> t = a \/ t = b
    <2>1. Len(<<a, b>>) = 2 /\ <<a, b>>[1] = a /\ <<a, b>>[2] = b
      OBVIOUS
    <2>2. \A i : i \in 1 .. 2 <=> i = 1 \/ i = 2
      OBVIOUS
    <2> QED
      BY <2>1, <2>2 DEF Answer
  <1> QED
    BY <1>1, <1>2, <1>3

\* What the link knows, for each sequence of answers there is.
LEMMA StatusCases ==
    ASSUME NEW p, NEW c
    PROVE  /\ \A r : p = "outside" => StatusFrom(p, r, c) = "unknown"
           /\ p # "outside" =>
                 /\ StatusFrom(p, << >>, c) = "accepted"
                 /\ StatusFrom(p, <<"Faulted">>, c) = "faulted"
                 /\ StatusFrom(p, <<"Dropped">>, c) = "dropped"
                 /\ c.ok => StatusFrom(p, <<"Executed">>, c) = "executed"
                 /\ ~c.ok => StatusFrom(p, <<"Executed">>, c) = "reverted"
                 /\ StatusFrom(p, <<"Executed", "Finalized">>, c) = "finalized"
                 /\ StatusFrom(p, <<"Executed", "Dropped">>, c) = "orphaned"
  <1>1. \A r : p = "outside" => StatusFrom(p, r, c) = "unknown"
    BY DEF StatusFrom
  <1>2. ASSUME p # "outside" PROVE StatusFrom(p, << >>, c) = "accepted"
    <2> DEFINE r == << >>
    <2>1. \A t \in {"Finalized", "Faulted", "Dropped", "Executed"} :
             Answer(r, t) <=> FALSE
      BY AnswersOf
    <2> HIDE DEF r
    <2>2. StatusFrom(p, r, c) = "accepted"
      BY <1>2, <2>1 DEF StatusFrom
    <2> QED
      BY <2>2 DEF r
  <1>3. ASSUME p # "outside" PROVE StatusFrom(p, <<"Faulted">>, c) = "faulted"
    <2> DEFINE r == <<"Faulted">>
    <2>1. \A t \in {"Finalized", "Faulted", "Dropped", "Executed"} :
             Answer(r, t) <=> t = "Faulted"
      BY AnswersOf
    <2> HIDE DEF r
    <2>2. StatusFrom(p, r, c) = "faulted"
      BY <1>3, <2>1 DEF StatusFrom
    <2> QED
      BY <2>2 DEF r
  <1>4. ASSUME p # "outside" PROVE StatusFrom(p, <<"Dropped">>, c) = "dropped"
    <2> DEFINE r == <<"Dropped">>
    <2>1. \A t \in {"Finalized", "Faulted", "Dropped", "Executed"} :
             Answer(r, t) <=> t = "Dropped"
      BY AnswersOf
    <2> HIDE DEF r
    <2>2. StatusFrom(p, r, c) = "dropped"
      BY <1>4, <2>1 DEF StatusFrom
    <2> QED
      BY <2>2 DEF r
  <1>5. ASSUME p # "outside", c.ok PROVE StatusFrom(p, <<"Executed">>, c) = "executed"
    <2> DEFINE r == <<"Executed">>
    <2>1. \A t \in {"Finalized", "Faulted", "Dropped", "Executed"} :
             Answer(r, t) <=> t = "Executed"
      BY AnswersOf
    <2> HIDE DEF r
    <2>2. StatusFrom(p, r, c) = "executed"
      BY <1>5, <2>1 DEF StatusFrom
    <2> QED
      BY <2>2 DEF r
  <1>6. ASSUME p # "outside", ~c.ok PROVE StatusFrom(p, <<"Executed">>, c) = "reverted"
    <2> DEFINE r == <<"Executed">>
    <2>1. \A t \in {"Finalized", "Faulted", "Dropped", "Executed"} :
             Answer(r, t) <=> t = "Executed"
      BY AnswersOf
    <2> HIDE DEF r
    <2>2. StatusFrom(p, r, c) = "reverted"
      BY <1>6, <2>1 DEF StatusFrom
    <2> QED
      BY <2>2 DEF r
  <1>7. ASSUME p # "outside" PROVE StatusFrom(p, <<"Executed", "Finalized">>, c) = "finalized"
    <2> DEFINE r == <<"Executed", "Finalized">>
    <2>1. \A t \in {"Finalized", "Faulted", "Dropped", "Executed"} :
             Answer(r, t) <=> t = "Executed" \/ t = "Finalized"
      BY AnswersOf
    <2> HIDE DEF r
    <2>2. StatusFrom(p, r, c) = "finalized"
      BY <1>7, <2>1 DEF StatusFrom
    <2> QED
      BY <2>2 DEF r
  <1>8. ASSUME p # "outside" PROVE StatusFrom(p, <<"Executed", "Dropped">>, c) = "orphaned"
    <2> DEFINE r == <<"Executed", "Dropped">>
    <2>1. \A t \in {"Finalized", "Faulted", "Dropped", "Executed"} :
             Answer(r, t) <=> t = "Executed" \/ t = "Dropped"
      BY AnswersOf
    <2> HIDE DEF r
    <2>2. StatusFrom(p, r, c) = "orphaned"
      BY <1>8, <2>1 DEF StatusFrom
    <2> QED
      BY <2>2 DEF r
  <1> QED
    BY <1>1, <1>2, <1>3, <1>4, <1>5, <1>6, <1>7, <1>8

\* A step that the link does not see in message m.
Unseen(m) ==
    /\ place'[m] = "outside" <=> place[m] = "outside"
    /\ replies'[m] = replies[m]
    /\ replies[m] # << >> => receipt'[m] = receipt[m]

\* The link knows the same of it after such a step.
LEMMA UnseenKeeps ==
    ASSUME IInv, NEW m \in Messages, Unseen(m)
    PROVE  StatusOf(m)' = StatusOf(m) /\ AtOf(m)' = AtOf(m)
  <1>1. CASE replies[m] = << >>
    <2>1. ~Told(m, "Executed") /\ ~Told(m, "Executed")'
      BY <1>1, AnswersOf, StatusReads DEF Unseen
    <2>2. StatusFrom(place[m], << >>, receipt[m]) = StatusFrom(place'[m], << >>, receipt'[m])
      BY StatusCases DEF Unseen
    <2> QED
      BY <1>1, <2>1, <2>2, StatusReads DEF Unseen, AtOf
  <1>2. CASE replies[m] # << >>
    <2>1. replies'[m] = replies[m] /\ receipt'[m] = receipt[m]
      BY <1>2 DEF Unseen
    <2>2. CASE place[m] = "outside"
      BY <2>1, <2>2, StatusReads, StatusCases DEF AtOf, Unseen
    <2>3. CASE place[m] # "outside"
      <3>1. place'[m] # "outside"
        BY <2>3 DEF Unseen
      <3>2. StatusFrom(place[m], replies[m], receipt[m])
               = StatusFrom(place'[m], replies[m], receipt[m])
        BY <2>3, <3>1 DEF StatusFrom
      <3> QED
        BY <2>1, <3>2, StatusReads DEF AtOf
    <2> QED
      BY <2>2, <2>3
  <1> QED
    BY <1>1, <1>2

\* A step that the link sees in one message only.
LEMMA SeenOnce ==
    ASSUME NEW m \in Messages, NEW from, NEW to,
           StatusOf(m) = from, StatusOf(m)' = to,
           \A n \in Messages \ {m} : StatusOf(n)' = StatusOf(n)
    PROVE  Lifecycle!Move(m, from, to)
  BY DEF Lifecycle!Move

\* What the link cannot see is a stutter.
LEMMA AllUnseen ==
    ASSUME IInv, \A m \in Messages : Unseen(m), final' = final
    PROVE  UNCHANGED Lifecycle!lifecycleVars
  <1>1. \A m \in Messages : StatusOf(m)' = StatusOf(m) /\ AtOf(m)' = AtOf(m)
    BY UnseenKeeps
  <1> QED
    BY <1>1 DEF Lifecycle!lifecycleVars, AtOf

\* The abstract state of a step that tells the link one more answer of m.
LEMMA OneAnswer ==
    ASSUME IInv, NEW m \in Messages, NEW t \in Settled,
           replies' = [replies EXCEPT ![m] = Append(@, t)],
           place' = [place EXCEPT ![m] = place'[m]],
           receipt' = receipt
    PROVE  /\ \A n \in Messages \ {m} : StatusOf(n)' = StatusOf(n)
           /\ \A n \in Messages \ {m} : AtOf(n)' = AtOf(n)
           /\ replies'[m] = Append(replies[m], t)
  <1>1. \A n \in Messages \ {m} : Unseen(n)
    BY DEF IInv, TypeOK, Unseen
  <1>2. replies'[m] = Append(replies[m], t)
    BY DEF IInv, TypeOK
  <1> QED
    BY <1>1, <1>2, UnseenKeeps

\* Relay: the message is accepted.
LEMMA RelayRefines ==
    ASSUME IInv, NEW m \in Messages, Relay(m)
    PROVE  Lifecycle!Accept(m)
  <1>1. /\ place[m] = "outside" /\ place' = [place EXCEPT ![m] = "send"]
        /\ replies' = replies /\ receipt' = receipt /\ final' = final
    BY DEF Relay, Become
  <1>2. replies[m] = << >> /\ place'[m] = "send"
    BY <1>1 DEF IInv, MessageInv, RepliesInv, TypeOK
  <1>3. StatusOf(m) = "unknown" /\ StatusOf(m)' = "accepted"
    BY <1>1, <1>2, StatusReads, StatusCases
  <1>4. \A n \in Messages \ {m} : Unseen(n)
    BY <1>1 DEF Unseen, IInv, TypeOK
  <1>5. \A n \in Messages \ {m} : StatusOf(n)' = StatusOf(n)
    BY <1>4, UnseenKeeps
  <1>6. \A n \in Messages : AtOf(n)' = AtOf(n)
    BY <1>1 DEF AtOf, Told
  <1>7. Lifecycle!Move(m, "unknown", "accepted")
    BY <1>3, <1>5, SeenOnce
  <1> QED
    BY <1>1, <1>6, <1>7 DEF Lifecycle!Accept, AtOf

\* Send of a message of type t: it is refused, or reported as executed.
LEMMA ReplyOf ==
    ASSUME IInv, NEW m \in Messages, NEW t \in Settled \ {"Finalized"},
           Reply(m), kind[m] = t
    PROVE  Lifecycle!Refuse(m) \/ Lifecycle!Report(m)
  <1>1. place[m] = "send" /\ replies[m] = << >>
    BY DEF Reply, IInv, MessageInv, RepliesInv
  <1>2. /\ replies' = [replies EXCEPT ![m] = Append(@, t)]
        /\ receipt' = receipt /\ final' = final
        /\ place' = [place EXCEPT ![m] = place'[m]]
        /\ place'[m] \in {"lock", "done"}
    BY DEF Reply, IInv, TypeOK
  <1>3. /\ \A n \in Messages \ {m} : StatusOf(n)' = StatusOf(n)
        /\ \A n \in Messages \ {m} : AtOf(n)' = AtOf(n)
        /\ replies'[m] = <<t>>
    <2>1. Append(<< >>, t) = <<t>>
      OBVIOUS
    <2> QED
      BY <1>1, <1>2, <2>1, OneAnswer
  <1>4. StatusOf(m) = "accepted"
    BY <1>1, StatusReads, StatusCases
  <1>5. /\ StatusOf(m)' = StatusFrom(place'[m], <<t>>, receipt'[m])
        /\ Told(m, "Executed")' <=> t = "Executed"
        /\ ~Told(m, "Executed")
    BY <1>1, <1>3, StatusReads, AnswersOf
  <1>6. CASE t = "Executed"
    <2>1. StatusOf(m)' \in {"executed", "reverted"}
      BY <1>2, <1>5, <1>6, StatusCases
    <2>2. \/ Lifecycle!Move(m, "accepted", "executed")
          \/ Lifecycle!Move(m, "accepted", "reverted")
      BY <1>3, <1>4, <2>1, SeenOnce
    <2>3. [n \in Messages |-> AtOf(n)']
             = [[n \in Messages |-> AtOf(n)] EXCEPT ![m] = [n \in Messages |-> AtOf(n)'][m]]
      BY <1>3
    <2> QED
      BY <1>2, <2>2, <2>3 DEF Lifecycle!Report, AtOf
  <1>7. CASE t \in {"Dropped", "Faulted"}
    <2>1. StatusOf(m)' = IF t = "Dropped" THEN "dropped" ELSE "faulted"
      BY <1>2, <1>5, <1>7, StatusCases
    <2>2. \/ Lifecycle!Move(m, "accepted", "dropped")
          \/ Lifecycle!Move(m, "accepted", "faulted")
      BY <1>3, <1>4, <1>7, <2>1, SeenOnce
    <2>3. \A n \in Messages : AtOf(n)' = AtOf(n)
      BY <1>3, <1>5, <1>7 DEF AtOf
    <2> QED
      BY <1>2, <2>2, <2>3 DEF Lifecycle!Refuse, AtOf
  <1> QED
    BY <1>6, <1>7 DEF Settled

\* Send of a settled message.
LEMMA ReplyRefines ==
    ASSUME IInv, NEW m \in Messages, Reply(m)
    PROVE  Lifecycle!Refuse(m) \/ Lifecycle!Report(m)
  <1>1. kind[m] \in Settled /\ kind[m] # "Finalized"
    BY DEF Reply, IInv, MessageInv, KindInv
  <1>2. PICK t \in Settled \ {"Finalized"} : kind[m] = t
    BY <1>1
  <1> QED
    BY <1>2, ReplyOf

\* A waiting message m gets its last answer t from the pass: it is finalized
\* with its block, or orphaned when the finalized chain has another block.
LEMMA SettleOf ==
    ASSUME IInv, NEW m \in Messages, NEW t \in {"Dropped", "Finalized"},
           place[m] = "waiting",
           place' = [place EXCEPT ![m] = "done"],
           replies' = [replies EXCEPT ![m] = Append(@, t)],
           receipt' = receipt, final' = final,
           Len(receipt[m].hash) <= Len(final),
           t = "Finalized" <=> IsAncestor(receipt[m].hash, final)
    PROVE  Lifecycle!Finalize(m) \/ Lifecycle!Orphan(m)
  <1>1. replies[m] = <<"Executed">> /\ receipt[m].ok
    BY DEF IInv, MessageInv, RepliesInv, KindInv
  <1>2. place'[m] = "done" /\ place' = [place EXCEPT ![m] = place'[m]]
    BY DEF IInv, TypeOK
  <1>3. /\ \A n \in Messages \ {m} : StatusOf(n)' = StatusOf(n)
        /\ \A n \in Messages \ {m} : AtOf(n)' = AtOf(n)
        /\ replies'[m] = <<"Executed", t>>
    <2>1. t \in Settled
      BY DEF Settled
    <2>2. /\ \A n \in Messages \ {m} : StatusOf(n)' = StatusOf(n)
          /\ \A n \in Messages \ {m} : AtOf(n)' = AtOf(n)
          /\ replies'[m] = Append(replies[m], t)
      BY <1>2, <2>1, OneAnswer
    <2>3. Append(<<"Executed">>, t) = <<"Executed", t>>
      BY SecondReply
    <2>4. Append(replies[m], t) = <<"Executed", t>>
      BY ONLY <1>1, <2>3, Zenon
    <2> QED
      BY ONLY <2>2, <2>4, Zenon
  <1>4. StatusOf(m) = "executed" /\ AtOf(m) = receipt[m].hash
    BY <1>1, StatusReads, StatusCases, AnswersOf DEF AtOf
  <1>5. /\ StatusOf(m)' = StatusFrom(place'[m], <<"Executed", t>>, receipt'[m])
        /\ Told(m, "Executed")'
    <2>1. Answer(<<"Executed", t>>, "Executed")
      BY ONLY AnswersOf, Zenon
    <2>2. replies'[m] = <<"Executed", t>>
      BY <1>3
    <2> QED
      BY ONLY <2>1, <2>2, StatusReads, Zenon
  <1>6. AtOf(m)' = AtOf(m)
    BY <1>4, <1>5 DEF AtOf
  <1>7. \A n \in Messages : AtOf(n)' = AtOf(n)
    BY <1>3, <1>6
  <1>8. CASE t = "Finalized"
    <2>1. StatusOf(m)' = "finalized"
      BY <1>2, <1>5, <1>8, StatusCases
    <2>2. Lifecycle!Move(m, "executed", "finalized")
      BY <1>3, <1>4, <2>1, SeenOnce
    <2> QED
      BY <1>4, <1>7, <1>8, <2>2 DEF Lifecycle!Finalize, Lifecycle!IsAncestor, IsAncestor, AtOf
  <1>9. CASE t = "Dropped"
    <2>1. StatusOf(m)' = "orphaned"
      BY <1>2, <1>5, <1>9, StatusCases
    <2>2. Lifecycle!Move(m, "executed", "orphaned")
      BY <1>3, <1>4, <2>1, SeenOnce
    <2> QED
      BY <1>4, <1>7, <1>9, <2>2
         DEF Lifecycle!Orphan, Lifecycle!IsAncestor, Lifecycle!Number, IsAncestor, AtOf
  <1> QED
    BY <1>8, <1>9

\* The pass over waitings.
LEMMA SettleRefines ==
    ASSUME IInv, SweepSettle
    PROVE  \E m \in Messages : Lifecycle!Finalize(m) \/ Lifecycle!Orphan(m)
  <1>1. /\ sweep.on /\ sweep.i \in LiveSlots
        /\ TryFinalize(sweep.final, waitings[sweep.i]) # "Executed"
    BY LenProperties DEF IInv, TypeOK, SweepInv, SweepSettle, LiveSlots
  <1>2. waitings[sweep.i] \in Messages /\ place[waitings[sweep.i]] = "waiting"
    BY <1>1, SlotsHoldMessages DEF IInv, WaitInv
  <1>3. PICK m \in Messages : m = waitings[sweep.i]
    BY <1>2
  <1>4. /\ TryFinalize(sweep.final, m) \in {"Dropped", "Finalized"}
        /\ Len(receipt[m].hash) <= Len(final)
        /\ TryFinalize(sweep.final, m) = "Finalized" => IsAncestor(receipt[m].hash, final)
        /\ TryFinalize(sweep.final, m) = "Dropped" => ~IsAncestor(receipt[m].hash, final)
    BY <1>1, <1>2, <1>3, TryFinalizeIsSound
  <1>5. PICK t \in {"Dropped", "Finalized"} : t = TryFinalize(sweep.final, m)
    BY <1>4
  <1>6. /\ place' = [place EXCEPT ![m] = "done"]
        /\ replies' = [replies EXCEPT ![m] = Append(@, t)]
        /\ receipt' = receipt /\ final' = final
    BY <1>3, <1>5 DEF SweepSettle, Become, Sweeping
  <1> QED
    BY <1>2, <1>3, <1>4, <1>5, <1>6, SettleOf

\* A new finality.
LEMMA NotifyRefines ==
    ASSUME IInv, NotifyFinality
    PROVE  Lifecycle!Advance
  <1>1. /\ chain \in Seq(Bodies) /\ final \in Seq(Bodies) /\ IsAncestor(final, chain)
        /\ Len(chain) \in Nat /\ Len(final) \in Nat
    BY LenProperties DEF IInv, TypeOK, ChainInv
  <1>2. PICK n \in Len(final) + 1 .. Len(chain) : final' = AncestorAt(chain, n)
    BY DEF NotifyFinality
  <1>3. n \in 0 .. Len(chain) /\ Len(final) < n
    BY <1>1, <1>2
  <1>4. Len(final') = n /\ IsAncestor(final, final')
    BY <1>1, <1>2, <1>3, AncestorAtIsAncestor, AncestorOfCut
  <1>5. final' # final
    BY <1>3, <1>4
  <1>6. \A m \in Messages : StatusOf(m)' = StatusOf(m) /\ AtOf(m)' = AtOf(m)
    BY DEF NotifyFinality, progress, StatusOf, AtOf, Told
  <1> QED
    BY <1>4, <1>5, <1>6 DEF Lifecycle!Advance, Lifecycle!IsAncestor, IsAncestor, AtOf

\* Every other step is hidden from the link.
LEMMA HiddenStep ==
    ASSUME IInv, final' = final, replies' = replies,
           \A m \in Messages : /\ place'[m] = "outside" <=> place[m] = "outside"
                               /\ place[m] \notin TransitPlaces => receipt'[m] = receipt[m]
    PROVE  UNCHANGED Lifecycle!lifecycleVars
  <1>1. ASSUME NEW m \in Messages
        PROVE  Unseen(m)
    <2>1. place[m] \in TransitPlaces => replies[m] = << >>
      BY DEF IInv, MessageInv, RepliesInv, TransitPlaces
    <2> QED
      BY <2>1 DEF Unseen
  <1> QED
    BY <1>1, AllUnseen

\* The node, the finality goroutines that keep or compact, and the goroutines
\* of messages until they are settled.
LEMMA HiddenSteps ==
    ASSUME IInv, \/ \E m \in Messages : Enqueue(m) \/ AddWaiting(m) \/ Transit(m)
                 \/ Dispatch \/ SweepBegin \/ SweepKeep \/ SweepEnd
                 \/ Node \/ Panic \/ UNCHANGED vars
    PROVE  UNCHANGED Lifecycle!lifecycleVars
  <1> USE DEF TransitPlaces
  <1>1. CASE Node \/ Panic \/ UNCHANGED vars \/ SweepBegin \/ SweepKeep \/ SweepEnd
    <2>1. final' = final /\ replies' = replies /\ place' = place /\ receipt' = receipt
      BY <1>1 DEF Node, Mine, Reorg, NodeOnly, Panic, vars, SweepBegin, SweepKeep,
                  SweepEnd, Sweeping, progress
    <2> QED
      BY <2>1, HiddenStep
  <1>2. CASE Dispatch
    <2>1. Head(transition) \in Messages /\ place[Head(transition)] = "queue"
      <3>1. transition \in Seq(Messages) /\ transition # << >>
        BY <1>2 DEF Dispatch, IInv, TypeOK
      <3>2. 1 \in 1 .. Len(transition) /\ Head(transition) = transition[1]
        BY <3>1, EmptySeq, LenProperties
      <3> QED
        BY <3>1, <3>2, SlotsHoldMessages DEF IInv, QueueInv
    <2>2. /\ place' = [place EXCEPT ![Head(transition)] = EntryOf(kind[Head(transition)])]
          /\ EntryOf(kind[Head(transition)]) # "outside"
          /\ receipt' = receipt /\ replies' = replies /\ final' = final
      BY <1>2 DEF Dispatch, EntryOf
    <2> QED
      BY <2>1, <2>2, HiddenStep DEF IInv, TypeOK
  <1>3. ASSUME NEW m \in Messages, Enqueue(m) \/ AddWaiting(m)
        PROVE  UNCHANGED Lifecycle!lifecycleVars
    <2>1. PICK p \in {"queue", "waiting"} : place' = [place EXCEPT ![m] = p]
      BY <1>3 DEF Enqueue, AddWaiting
    <2>2. /\ place[m] # "outside" /\ receipt' = receipt /\ replies' = replies /\ final' = final
      BY <1>3 DEF Enqueue, AddWaiting
    <2> QED
      BY <2>1, <2>2, HiddenStep DEF IInv, TypeOK
  <1>4. ASSUME NEW m \in Messages, Transit(m)
        PROVE  UNCHANGED Lifecycle!lifecycleVars
    <2>1. /\ place[m] \in TransitPlaces /\ replies' = replies /\ final' = final
          /\ \E p \in {"send"} \cup TransitPlaces : place' = [place EXCEPT ![m] = p]
          /\ \E r : receipt' = [receipt EXCEPT ![m] = r]
      <3>1. place' = place => place' = [place EXCEPT ![m] = place[m]]
        BY DEF IInv, TypeOK
      <3>2. receipt' = receipt => receipt' = [receipt EXCEPT ![m] = receipt[m]]
        BY DEF IInv, TypeOK
      <3> USE DEF Leave, Become, InTransit
      <3>3. CASE EstimateFails(m) \/ Estimate(m) \/ Submit(m) \/ SubmitFails(m)
        BY <3>1, <3>2, <3>3 DEF EstimateFails, Estimate, Submit, SubmitFails
      <3>4. CASE PollPending(m) \/ PollMined(m) \/ PollNotFound(m) \/ PollFails(m)
                 \/ PollTimeout(m)
        BY <3>1, <3>2, <3>4 DEF PollPending, PollMined, PollNotFound, PollFails,
                                PollTimeout, Polling, QueryReceipt
      <3>5. CASE ReceiptFound(m) \/ ReceiptFails(m) \/ Execute(m) \/ ExecuteFails(m)
        BY <3>2, <3>5 DEF ReceiptFound, ReceiptFails, Execute, ExecuteFails
      <3> QED
        BY <1>4, <3>3, <3>4, <3>5 DEF Transit
    <2>2. \A n \in Messages : n # m => place'[n] = place[n] /\ receipt'[n] = receipt[n]
      BY <2>1 DEF IInv, TypeOK
    <2>3. place[m] # "outside" /\ place'[m] # "outside"
      BY <2>1 DEF IInv, TypeOK
    <2> QED
      BY <2>1, <2>2, <2>3, HiddenStep
  <1> QED
    BY <1>1, <1>2, <1>3, <1>4

\* A step of the transactor is a step of the promise, or the link cannot see it.
LEMMA StepRefines ==
    ASSUME IInv, [Next]_vars
    PROVE  Lifecycle!Next \/ UNCHANGED Lifecycle!lifecycleVars
  <1>1. ASSUME NEW m \in Messages, Relay(m) \/ Send(m) \/ Transit(m)
        PROVE  Lifecycle!Next \/ UNCHANGED Lifecycle!lifecycleVars
    <2>1. CASE Relay(m)
      BY <2>1, RelayRefines DEF Lifecycle!Next
    <2>2. CASE Reply(m)
      BY <2>2, ReplyRefines DEF Lifecycle!Next
    <2>3. CASE Enqueue(m) \/ AddWaiting(m) \/ Transit(m)
      BY <2>3, HiddenSteps
    <2> QED
      BY <1>1, <2>1, <2>2, <2>3 DEF Send
  <1>2. CASE Run
    <2>1. CASE SweepSettle
      BY <2>1, SettleRefines DEF Lifecycle!Next
    <2>2. CASE NotifyFinality
      BY <2>2, NotifyRefines DEF Lifecycle!Next
    <2>3. CASE Dispatch \/ SweepBegin \/ SweepKeep \/ SweepEnd
      BY <2>3, HiddenSteps
    <2> QED
      BY <1>2, <2>1, <2>2, <2>3 DEF Run, Sweep
  <1>3. CASE Node \/ Panic \/ UNCHANGED vars
    BY <1>3, HiddenSteps
  <1> QED
    BY <1>1, <1>2, <1>3 DEF Next

\* At first the link knows nothing.
LEMMA InitRefines == Init => Lifecycle!Init
  <1> SUFFICES ASSUME Init PROVE Lifecycle!Init
    OBVIOUS
  <1>1. ASSUME NEW m \in Messages
        PROVE  StatusOf(m) = "unknown" /\ AtOf(m) = Genesis
    BY AnswersOf, StatusReads, StatusCases DEF Init, AtOf
  <1> QED
    BY <1>1 DEF Init, Lifecycle!Init, Lifecycle!Genesis, Genesis, AtOf

\* The transactor implements the promise to the link: whatever the messages,
\* reorganisations, passes and failures, the link is told what RelayLifecycle
\* allows, in that order, and nothing after the last answer (transactor.go, Send).
THEOREM Refinement == Safe => KeepsPromise
  <1>1. IInv /\ [Next]_vars => [Lifecycle!Next]_(Lifecycle!lifecycleVars)
    BY StepRefines
  <1> QED
    BY <1>1, InitRefines, Invariance, PTL DEF Safe, KeepsPromise, Lifecycle!Spec
=============================================================================
