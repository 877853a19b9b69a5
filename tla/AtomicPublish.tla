--------------------------- MODULE AtomicPublish ---------------------------
(***************************************************************************)
(* What the gate of seq.rs promises, with no gate in it: each publish for  *)
(* an edge node is one step that draws the number and hands the message    *)
(* over. A publish that is cut off after the MQTT client took a message    *)
(* leaves that message on the wire and the count where it was.             *)
(***************************************************************************)
EXTENDS Naturals, Sequences

CONSTANTS EdgeNodes, SeqMod

VARIABLES
    count,  \* count[n]: the number of the last kept message of n
    wire    \* wire[n]: the messages of n that the client took

vars == <<count, wire>>

Successor(s) == (s + 1) % SeqMod
Entry(ty, s, k) == [type |-> ty, seq |-> s, kept |-> k]

Init ==
    /\ count = [n \in EdgeNodes |-> 0]
    /\ wire = [n \in EdgeNodes |-> <<>>]

\* Messages ms go out for n, and the count of n reads s afterwards.
Send(n, ms, s) ==
    /\ wire' = [wire EXCEPT ![n] = @ \o ms]
    /\ count' = [count EXCEPT ![n] = s]

Data(n) == LET s == Successor(count[n]) IN Send(n, <<Entry("DATA", s, TRUE)>>, s)
NBirth(n) == Send(n, <<Entry("NBIRTH", 0, TRUE)>>, 0)
Birth(n) == Send(n, <<Entry("NBIRTH", 0, TRUE), Entry("DBIRTH", 1, TRUE)>>, 1)

\* A publish that is cut off after the client took its message, or a birth cut
\* off after one of its two messages or both.
CutOff(n) ==
    \E ms \in { <<Entry("DATA", Successor(count[n]), FALSE)>>,
                <<Entry("NBIRTH", 0, FALSE)>>,
                <<Entry("NBIRTH", 0, FALSE), Entry("DBIRTH", 1, FALSE)>> } :
        Send(n, ms, count[n])

Next == \E n \in EdgeNodes : Data(n) \/ NBirth(n) \/ Birth(n) \/ CutOff(n)

Spec == Init /\ [][Next]_vars
=============================================================================
