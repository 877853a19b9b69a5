---------------------------- MODULE FlushContract ----------------------------
(***************************************************************************)
(* What the tracker of delivery.rs promises a caller of flush, with no     *)
(* counter, ticket or wake-up in it. The publishes that the broker has not *)
(* answered are a set, and a break of the link loses that whole set. A     *)
(* flush ends in a report only after a moment at which the set was empty,  *)
(* and the report counts every loss of the time it was open, together with *)
(* the ones it found untold.                                               *)
(***************************************************************************)
EXTENDS Naturals, FiniteSets

CONSTANTS Pubs, Flushers

VARIABLES
    out,      \* the publishes that the broker still owes an answer for
    untold,   \* how many losses no report has covered
    open,     \* open[f]: a flush of f is under way
    seen,     \* seen[f]: the losses that the flush of f has to report
    drained,  \* drained[f]: nothing was outstanding at some point of that flush
    result    \* result[f]: what the last flush of f returned

vars == <<out, untold, open, seen, drained, result>>

Outcome(kind, count) == [kind |-> kind, count |-> count]

Init ==
    /\ out = {} /\ untold = 0
    /\ open = [f \in Flushers |-> FALSE] /\ drained = [f \in Flushers |-> FALSE]
    /\ seen = [f \in Flushers |-> 0]
    /\ result = [f \in Flushers |-> Outcome("none", 0)]

flushes == <<untold, open, seen, drained, result>>

Publish(p) == p \notin out /\ out' = out \cup {p} /\ UNCHANGED flushes

\* The broker acknowledges the publish, or it never went out.
Settle(p) == p \in out /\ out' = out \ {p} /\ UNCHANGED flushes

\* Every publish that waits for its answer is lost at once.
LoseAll ==
    /\ out' = {}
    /\ untold' = untold + Cardinality(out)
    /\ seen' = [f \in Flushers |-> IF open[f] THEN seen[f] + Cardinality(out) ELSE seen[f]]
    /\ UNCHANGED <<open, drained, result>>

Open(f) ==
    /\ ~open[f]
    /\ open' = [open EXCEPT ![f] = TRUE]
    /\ seen' = [seen EXCEPT ![f] = untold]
    /\ result' = [result EXCEPT ![f] = Outcome("none", 0)]
    /\ UNCHANGED <<out, untold, drained>>

Drain(f) ==
    /\ open[f] /\ ~drained[f] /\ out = {}
    /\ drained' = [drained EXCEPT ![f] = TRUE]
    /\ UNCHANGED <<out, untold, open, seen, result>>

Close(f, outcome) ==
    /\ open' = [open EXCEPT ![f] = FALSE]
    /\ result' = [result EXCEPT ![f] = outcome]
    /\ UNCHANGED <<out, seen>>

Report(f) ==
    /\ drained[f]
    /\ drained' = [drained EXCEPT ![f] = FALSE]
    /\ untold' = 0
    /\ Close(f, Outcome(IF seen[f] = 0 THEN "ok" ELSE "lost", seen[f]))

\* The timer fires, or the caller drops the future. Either takes no loss along.
GiveUp(f) ==
    /\ open[f] /\ ~drained[f]
    /\ \/ Close(f, Outcome("timeout", Cardinality(out)))
       \/ Close(f, result[f])
    /\ UNCHANGED <<untold, drained>>

Next ==
    \/ \E p \in Pubs : Publish(p) \/ Settle(p)
    \/ LoseAll
    \/ \E f \in Flushers : Open(f) \/ Drain(f) \/ Report(f) \/ GiveUp(f)

Spec == Init /\ [][Next]_vars
=============================================================================
