------------------------------- MODULE Sender -------------------------------
(***************************************************************************)
(* The part of the sender (chain/bsc2/sender.go) that tells the message    *)
(* transactor which blocks are final: prepare, Start and                   *)
(* watchBlockFinalities.  The loop takes the headers of the node from a    *)
(* subscription, computes finalities and starts again, with a new          *)
(* subscription, when a header does not extend the last one.  Any other    *)
(* error ends it.                                                          *)
(***************************************************************************)
EXTENDS Finality, Subscription

CONSTANTS
    Epoch,      \* blocks of an epoch (200)
    MaxHeight,  \* bound: the highest block of the node
    MaxReorgs,  \* bound: reorganisations of the node's chain
    MaxSilent,  \* bound: blocks of a chain that carry no vote
    MaxFaults   \* bound: queries that fail

ASSUME ConstantsAssumption ==
    /\ Epoch \in Nat \ {0}
    /\ {MaxHeight, MaxReorgs, MaxSilent, MaxFaults} \subseteq Nat

VARIABLES
    chain,     \* node: the canonical head
    finalized, \* node: the highest block finalized by votes
    reorgs,    \* node: reorganisations so far
    faults,    \* failed queries so far
    loop,      \* watchBlockFinalities: where it is, and its local variables
    finality,  \* o.finality
    notified   \* the finalities given to the transactor

node == <<chain, finalized, reorgs>>
watch == <<sub, strays>>
vars == <<sub, strays, chain, finalized, reorgs, faults, loop, finality,
          notified>>

Idle == [pc |-> "start", latest |-> 0, head |-> Genesis, snap |-> Genesis,
         calc |-> Calculator(Genesis, << >>), final |-> Genesis]

Init ==
    /\ chain = Genesis
    /\ finalized = Genesis
    /\ reorgs = 0
    /\ faults = 0
    /\ sub = NoSubscription
    /\ strays = {}
    /\ loop = Idle
    /\ finality = Genesis
    /\ notified = << >>

-----------------------------------------------------------------------------
(* The node.                                                               *)

SenderStays == UNCHANGED <<watch, faults, loop, finality, notified>>

HasVote(b) == AttestationOf(b) # AttestationOf(Parent(b))

Silent(b) == Cardinality({n \in 1 .. Len(b) : ~HasVote(AncestorAt(b, n))})

\* A validator seals the next block.
Mine ==
    /\ Len(chain) < MaxHeight
    /\ \E vote \in BOOLEAN :
          LET att == UpdateAttestation(AttestationOf(chain), Len(chain) + 1, vote)
          IN  /\ chain' = Append(chain, [att |-> att, fork |-> reorgs])
              /\ Silent(chain') <= MaxSilent
              /\ finalized' = IF att.source > Number(finalized)
                              THEN AncestorAt(chain, att.source) ELSE finalized
    /\ UNCHANGED reorgs
    /\ SenderStays

\* The head is abandoned for a rival branch, never a finalized block.
Reorg ==
    /\ reorgs < MaxReorgs
    /\ \E n \in Number(finalized) .. Len(chain) - 1 :
          chain' = AncestorAt(chain, n)
    /\ reorgs' = reorgs + 1
    /\ UNCHANGED finalized
    /\ SenderStays

-----------------------------------------------------------------------------
(* The goroutines of the subscriptions.                                    *)

Watch ==
    /\ \E p \in Produce(sub, chain) : sub' = p
    /\ UNCHANGED <<strays, node, faults, loop, finality, notified>>

WatchStray ==
    /\ \E p \in strays : \E q \in Produce(p, chain) : StrayBecomes(p, q)
    /\ UNCHANGED <<sub, node, faults, loop, finality, notified>>

WatchFails ==
    /\ faults < MaxFaults
    /\ faults' = faults + 1
    /\ \/ \E p \in Fails(sub) : sub' = p /\ UNCHANGED strays
       \/ \E p \in strays : \E q \in Fails(p) :
             StrayBecomes(p, q) /\ UNCHANGED sub
    /\ UNCHANGED <<node, loop, finality, notified>>

-----------------------------------------------------------------------------
(* prepare.                                                                *)

\* The number of the latest header.
Latest ==
    /\ loop.pc = "start"
    /\ Len(chain) >= Epoch
    /\ loop' = [loop EXCEPT !.pc = "prepare", !.latest = Len(chain)]
    /\ UNCHANGED <<node, watch, faults, finality, notified>>

EpochBlock(latest) == latest - (latest % Epoch)

\* watchBlockFinalities is entered with block b as the finality.
EnterLoop(b) ==
    [pc |-> "recv", latest |-> 0, head |-> Genesis, snap |-> b,
     calc |-> Calculator(b, << >>), final |-> Genesis]

\* The snapshot of the nearest epoch block becomes the finality.  Without a
\* vote in its header there is a null attestation and the process panics;
\* without the block Start returns an error.
Prepare ==
    /\ loop.pc = "prepare"
    /\ LET n == EpochBlock(loop.latest)
           base == AncestorAt(chain, n)
       IN  IF n <= Len(chain) /\ HasVote(base)
           THEN /\ finality' = base
                /\ loop' = EnterLoop(base)
                /\ sub' = NewSubscription(n + 1)
           ELSE /\ loop' = [loop EXCEPT !.pc = "dead"]
                /\ UNCHANGED <<finality, sub>>
    /\ UNCHANGED <<node, strays, faults, notified>>

-----------------------------------------------------------------------------
(* watchBlockFinalities.                                                   *)

Receive ==
    /\ loop.pc = "recv"
    /\ Take
    /\ loop' = [loop EXCEPT !.pc = "apply", !.head = sub.head]
    /\ UNCHANGED <<strays, node, faults, finality, notified>>

\* The error of the watcher is not recoverable: the loop ends for good.
WatcherError ==
    /\ loop.pc = "recv"
    /\ Hear
    /\ loop' = [loop EXCEPT !.pc = "dead"]
    /\ UNCHANGED <<strays, node, faults, finality, notified>>

\* The head extends the last one; the feed may bring finalities.
Apply ==
    /\ loop.pc = "apply"
    /\ Parent(loop.head) = loop.snap
    /\ \E fed \in {Feed(loop.calc, loop.head)} :
       LET next == [loop EXCEPT !.snap = loop.head, !.head = Genesis,
                                !.calc = fed.calc]
       IN  loop' = IF fed.finalities = << >>
                   THEN [next EXCEPT !.pc = "recv"]
                   ELSE [next EXCEPT !.pc = "notify",
                            !.final = fed.finalities[Len(fed.finalities)]]
    /\ UNCHANGED <<node, watch, faults, finality, notified>>

\* Faulty: o.finality stays behind.
NotifyFinalityOnly ==
    /\ loop.pc = "notify"
    /\ notified' = Append(notified, loop.final)
    /\ loop' = [loop EXCEPT !.pc = "recv", !.final = Genesis]
    /\ UNCHANGED <<node, watch, faults, finality>>

\* The transactor takes the latest finality, then o.finality moves.
NotifyFinality ==
    /\ loop.pc = "notify"
    /\ notified' = Append(notified, loop.final)
    /\ finality' = loop.final
    /\ loop' = [loop EXCEPT !.pc = "recv", !.final = Genesis]
    /\ UNCHANGED <<node, watch, faults>>

\* The head does not extend the last one, or a snapshot cannot be had.
ApplyFails ==
    /\ loop.pc = "apply"
    /\ \/ /\ Parent(loop.head) # loop.snap
          /\ loop' = [loop EXCEPT !.pc = "inconsistent"]
          /\ UNCHANGED faults
       \/ /\ Parent(loop.head) = loop.snap
          /\ faults < MaxFaults
          /\ faults' = faults + 1
          /\ loop' = [loop EXCEPT !.pc = "error"]
    /\ UNCHANGED <<node, watch, finality, notified>>

\* Faulty: the loop is entered again with its subscription still on.
RecoverSubscribed ==
    /\ loop.pc = "inconsistent"
    /\ CanUnsubscribe
    /\ strays' = strays \cup {sub}
    /\ sub' = NewSubscription(Number(finality) + 1)
    /\ loop' = EnterLoop(finality)
    /\ UNCHANGED <<node, faults, finality, notified>>

\* Faulty: the loop goes on where it was instead of at the finality.
RecoverAtHead ==
    /\ loop.pc = "inconsistent"
    /\ CanUnsubscribe
    /\ LeaveFor(NewSubscription(Number(loop.snap) + 1))
    /\ loop' = EnterLoop(loop.snap)
    /\ UNCHANGED <<node, faults, finality, notified>>

\* Unsubscribe, and recoverable: the loop is entered again at the finality.
Recover ==
    /\ loop.pc = "inconsistent"
    /\ CanUnsubscribe
    /\ LeaveFor(NewSubscription(Number(finality) + 1))
    /\ loop' = EnterLoop(finality)
    /\ UNCHANGED <<node, faults, finality, notified>>

\* Unsubscribe, and not recoverable: the loop ends for good.
GiveUp ==
    /\ loop.pc = "error"
    /\ CanUnsubscribe
    /\ LeaveFor(NoSubscription)
    /\ loop' = [loop EXCEPT !.pc = "dead"]
    /\ UNCHANGED <<node, faults, finality, notified>>

Loop == Latest \/ Prepare \/ Receive \/ WatcherError \/ Apply \/ NotifyFinality
            \/ Recover \/ GiveUp \/ ApplyFails

Node == Mine \/ Reorg

Next == Node \/ Watch \/ WatchStray \/ WatchFails \/ Loop

Safe == Init /\ [][Next]_vars

\* The goroutines are scheduled fairly, the node answers, and Run takes what
\* NotifyFinality sends.  No block need be sealed and no query need fail.
Fairness == WF_vars(Watch) /\ WF_vars(WatchStray) /\ WF_vars(Loop)

Spec == Safe /\ Fairness

-----------------------------------------------------------------------------
(* Properties.                                                             *)

\* Blocks, as sequences of bodies.
Bodies == [att : [source : Nat, target : Nat], fork : Nat]
Block == Seq(Bodies)

Producer == [pc : {"test", "query", "hand", "fail", "report", "ended"},
             want : Nat, head : Block, unsubed : BOOLEAN]

\* The variables have their types; a goroutine left behind has been told to
\* quit, and is not in the middle of a report.
TypeOK ==
    /\ chain \in Block /\ finalized \in Block
    /\ reorgs \in 0 .. MaxReorgs /\ faults \in 0 .. MaxFaults
    /\ sub \in Producer
    /\ strays \subseteq {p \in Producer : p.unsubed /\ p.pc # "report"}
    /\ loop \in [pc : {"start", "prepare", "recv", "apply", "notify",
                       "inconsistent", "error", "dead"},
                 latest : Nat, head : Block, snap : Block,
                 calc : [checkpoint : Block, feeds : Seq(Block)],
                 final : Block]
    /\ finality \in Block
    /\ notified \in Seq(Block)

\* The transactor is told of finalized blocks only, each above the one before,
\* through reorganisations and re-entries of the loop: what Transactor assumes
\* of the finalities it is given.
FinalitiesAscend ==
    \A i \in DOMAIN notified :
        /\ IsAncestor(notified[i], finalized)
        /\ i > 1 => Number(notified[i - 1]) < Number(notified[i])

\* Goroutines left behind stop polling the node, unless the loop is entered for
\* ever from a block that is not canonical.  (They may stay blocked with a
\* header that nobody takes.)
StraysStop ==
    <>[]IsAncestor(finality, chain) => <>[](\A p \in strays : p.pc = "hand")

\* Block n is final by what the headers of the canonical chain show.
ShownFinal(n) ==
    \E m \in n .. Len(chain) :
        LET att == AttestationOf(AncestorAt(chain, m))
        IN  att.source = n /\ Consecutive(att)

\* The canonical chain has what the loop took, or is longer: a rival branch is
\* not noticed before it has a block of the next number.
Outgrown == IsAncestor(loop.snap, chain) \/ Number(loop.snap) < Len(chain)

\* The producer sends an error and the loop wants to unsubscribe: each waits
\* for the other.
Deadlocked == loop.pc \in {"inconsistent", "error"} /\ ~CanUnsubscribe

\* As long as the block the sender started from stays canonical, finalities
\* reach the transactor.  There are two ways to stop, and no third: an error
\* ends the loop, and the loop and the producer wait for each other.
FinalitiesFollow ==
    \A n \in 1 .. MaxHeight :
        <>[](n > Epoch /\ ShownFinal(n) /\ Outgrown /\ IsAncestor(finality, chain)) =>
            <>(n <= Number(finality) \/ loop.pc = "dead" \/ Deadlocked)

\* sender.go:95: an inconsistent block is recovered, the loop is entered again
\* ("RecoverableErr", errors.go:7).
InconsistentIsRecovered == loop.pc = "inconsistent" ~> loop.pc = "recv"
=============================================================================
