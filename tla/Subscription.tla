---------------------------- MODULE Subscription ----------------------------
(***************************************************************************)
(* Subscription (chain/bsc2/subscription.go) with the producer that        *)
(* Client.WatchHeader gives it: a goroutine that polls the node for the    *)
(* next header and hands it over on an unbuffered channel, until it is     *)
(* told to quit or a query fails.                                          *)
(*                                                                         *)
(* A goroutine is a record.  pc "test": looks at quit; "query": asks the   *)
(* node; "hand": sends a header; "fail": has an error, mu not taken yet;   *)
(* "report": holds mu and sends the error; "ended".  A loop that leaves    *)
(* does not wait for the goroutine it leaves behind.                       *)
(***************************************************************************)
EXTENDS Blocks

VARIABLES
    sub,    \* the goroutine of the subscription in use
    strays  \* the goroutines of those left behind; alike ones count once

NewSubscription(number) ==
    [pc |-> "test", want |-> number, head |-> Genesis, unsubed |-> FALSE]

NoSubscription == [NewSubscription(0) EXCEPT !.pc = "ended"]

-----------------------------------------------------------------------------
(* What a goroutine p may become by a step of its own, given the canonical *)
(* chain of the node.                                                      *)

\* Faulty: quit is not looked at.
TestQuitNever(p) ==
    IF p.pc # "test" THEN {} ELSE {[p EXCEPT !.pc = "query"]}

TestQuit(p) ==
    IF p.pc # "test" THEN {}
    ELSE {[p EXCEPT !.pc = IF p.unsubed THEN "ended" ELSE "query"]}

\* HeaderByNumber: the header, or not found, and the number is asked again.
Answered(p, chain) ==
    IF p.pc # "query" THEN {}
    ELSE IF p.want > Len(chain) THEN {[p EXCEPT !.pc = "test"]}
    ELSE {[p EXCEPT !.pc = "hand", !.want = @ + 1,
                    !.head = AncestorAt(chain, p.want)]}

\* The producer returns an error.  It is reported, under mu, unless the
\* subscription was ended.
Report(p) ==
    IF p.pc # "fail" THEN {}
    ELSE {[p EXCEPT !.pc = IF p.unsubed THEN "ended" ELSE "report"]}

\* HeaderByNumber fails.
Fails(p) == IF p.pc # "query" THEN {} ELSE {[p EXCEPT !.pc = "fail"]}

Produce(p, chain) == TestQuit(p) \cup Answered(p, chain) \cup Report(p)

\* The goroutine p left behind becomes q; one that ended is gone.
StrayBecomes(p, q) ==
    strays' = (strays \ {p}) \cup (IF q.pc = "ended" THEN {} ELSE {q})

-----------------------------------------------------------------------------
(* The consumer.                                                           *)

\* headCh: the goroutine goes on with the next number.
Take ==
    /\ sub.pc = "hand"
    /\ sub' = [sub EXCEPT !.pc = "test", !.head = Genesis]

\* Err(): the goroutine ends.
Hear ==
    /\ sub.pc = "report"
    /\ sub' = [sub EXCEPT !.pc = "ended", !.unsubed = TRUE]

\* mu is held while an error is sent: Unsubscribe waits for it.
CanUnsubscribe == sub.pc # "report"

\* Unsubscribe; the subscription is left for another one.
LeaveFor(next) ==
    /\ strays' = strays \cup
          (IF sub.pc = "ended" THEN {} ELSE {[sub EXCEPT !.unsubed = TRUE]})
    /\ sub' = next
=============================================================================
