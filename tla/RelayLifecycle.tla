--------------------------- MODULE RelayLifecycle ---------------------------
(***************************************************************************)
(* What the sender promises the link about a relay message: it is accepted *)
(* once; it is then dropped, faulted or reported as executed in a block;   *)
(* only a successful execution is followed by one more answer, which is    *)
(* finalized when the block is on the finalized chain and a drop when the  *)
(* finalized chain has another block at that height.  No answer follows    *)
(* those.                                                                  *)
(***************************************************************************)
EXTENDS Blocks

CONSTANT Messages

VARIABLES
    status,   \* status[m]: the last the link knows of m
    at,       \* at[m]: the block m was reported as executed in
    final     \* the finalized block

lifecycleVars == <<status, at, final>>

Init ==
    /\ status = [m \in Messages |-> "unknown"]
    /\ at = [m \in Messages |-> Genesis]
    /\ final = Genesis

Move(m, from, to) ==
    /\ status[m] = from
    /\ status' = [status EXCEPT ![m] = to]

Accept(m) == Move(m, "unknown", "accepted") /\ UNCHANGED <<at, final>>

Refuse(m) ==
    /\ Move(m, "accepted", "dropped") \/ Move(m, "accepted", "faulted")
    /\ UNCHANGED <<at, final>>

\* The block is free: the receipt of the node names it.
Report(m) ==
    /\ Move(m, "accepted", "executed") \/ Move(m, "accepted", "reverted")
    /\ at' = [at EXCEPT ![m] = at'[m]]
    /\ UNCHANGED final

Finalize(m) ==
    /\ IsAncestor(at[m], final)
    /\ Move(m, "executed", "finalized")
    /\ UNCHANGED <<at, final>>

Orphan(m) ==
    /\ Number(at[m]) <= Number(final)
    /\ ~IsAncestor(at[m], final)
    /\ Move(m, "executed", "orphaned")
    /\ UNCHANGED <<at, final>>

Advance ==
    /\ final' # final
    /\ IsAncestor(final, final')
    /\ UNCHANGED <<status, at>>

Next ==
    \/ \E m \in Messages :
          Accept(m) \/ Refuse(m) \/ Report(m) \/ Finalize(m) \/ Orphan(m)
    \/ Advance

Spec == Init /\ [][Next]_lifecycleVars
=============================================================================
