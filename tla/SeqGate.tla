------------------------------ MODULE SeqGate ------------------------------
(***************************************************************************)
(* The seq numbers of a SparkplugClient: src/src/sparkplug/seq.rs and the  *)
(* publish path of src/src/sparkplug/client/publish.rs that holds a        *)
(* reservation across the call to the MQTT client.                         *)
(*                                                                         *)
(* A task that publishes waits for the gate of its edge node, draws a      *)
(* number, hands the message to the MQTT client and releases the gate.     *)
(* The MQTT client takes a message when its bounded request channel has    *)
(* room; otherwise the publish future waits, and the caller may cancel it. *)
(*                                                                         *)
(* An await is the only place where a call can be cancelled, so a task     *)
(* that runs between two awaits ("send") cannot be.                        *)
(***************************************************************************)
EXTENDS Naturals, Sequences

CONSTANTS
    Tasks,         \* the tasks that share one client
    EdgeNodes,     \* the {group}/{node} pairs they publish for
    OwnNode,       \* the edge node of an edge-node client, NoNode for a publisher
    NoTask, NoNode,
    SeqMod,        \* seq holds one byte: 256 in the code
    Capacity,      \* slots of the request channel: 10 in the code
    CancelWindow,  \* may a cancellation meet a message the client just took?
    MaxWire        \* bound: no new call once an edge node sent this many

ASSUME SeqModAssumption == SeqMod \in Nat /\ SeqMod >= 2
ASSUME CapacityAssumption == Capacity \in Nat \ {0}
ASSUME MaxWireAssumption == MaxWire \in Nat
ASSUME NoTaskAssumption == NoTask \notin Tasks
ASSUME NoNodeAssumption == NoNode \notin EdgeNodes
ASSUME OwnNodeAssumption == OwnNode \in EdgeNodes \cup {NoNode}
ASSUME CancelWindowAssumption == CancelWindow \in BOOLEAN

VARIABLES
    gate,     \* gate[n]: the task whose reservation holds the gate of n
    count,    \* count[n]: the number behind the gate; 0 for an unseen edge node
    pc,       \* where the future of each task stands
    call,     \* call[t]: the edge node and the kind of publish t runs
    msg,      \* msg[t]: the message t hands over, its payload already encoded
    restore,  \* restore[t]: SeqReservation::restore_to
    took,     \* took[t]: how many messages of the running call the client took
    queued,   \* how many requests the channel holds
    closed,   \* the event loop is gone, so the channel has no receiver
    wire      \* wire[n]: every message of n the client took, in that order

vars == <<gate, count, pc, call, msg, restore, took, queued, closed, wire>>

SeqNumber == 0 .. (SeqMod - 1)
Kinds == {"data", "nbirth", "birth"}
Types == {"NBIRTH", "DBIRTH", "DATA"}
Message == [type : Types, seq : SeqNumber]

\* What the MQTT client took. kept turns FALSE when the call that sent the
\* message ends without committing its reservation.
Taken == [type : Types, seq : SeqNumber, kept : BOOLEAN]

NoCall == [node |-> NoNode, kind |-> "none"]
NoMsg == [type |-> "DATA", seq |-> 0]

\* Mutant: the count is not one byte.
SuccessorNoWrap(s) == s + 1

\* u8::wrapping_add(1)
Successor(s) == (s + 1) % SeqMod

\* The node whose gate t waits for or holds.
Node(t) == call[t].node

TypeOK ==
    /\ gate \in [EdgeNodes -> Tasks \cup {NoTask}]
    /\ count \in [EdgeNodes -> SeqNumber]
    /\ pc \in [Tasks -> {"idle", "gate", "send", "full", "taken"}]
    /\ call \in [Tasks -> [node : EdgeNodes, kind : Kinds] \cup {NoCall}]
    /\ msg \in [Tasks -> Message]
    /\ restore \in [Tasks -> SeqNumber]
    /\ took \in [Tasks -> 0 .. 2]
    /\ queued \in 0 .. Capacity
    /\ closed \in BOOLEAN
    /\ wire \in [EdgeNodes -> Seq(Taken)]

Init ==
    /\ gate = [n \in EdgeNodes |-> NoTask]
    /\ count = [n \in EdgeNodes |-> 0]
    /\ pc = [t \in Tasks |-> "idle"]
    /\ call = [t \in Tasks |-> NoCall]
    /\ msg = [t \in Tasks |-> NoMsg]
    /\ restore = [t \in Tasks |-> 0]
    /\ took = [t \in Tasks |-> 0]
    /\ queued = 0
    /\ closed = FALSE
    /\ wire = [n \in EdgeNodes |-> <<>>]

----------------------------------------------------------------------------
(* The publish path.                                                       *)

\* A caller enters publish_metric, publish_metrics, their _to forms ("data",
\* or "nbirth" when the topic names an NBIRTH) or publish_birth ("birth").
\* A publisher's publish_birth and a host topic return an error before they
\* touch any state.
Call(t, n, k) ==
    /\ pc[t] = "idle"
    /\ k = "birth" => n = OwnNode
    /\ Len(wire[n]) < MaxWire
    /\ call' = [call EXCEPT ![t] = [node |-> n, kind |-> k]]
    /\ pc' = [pc EXCEPT ![t] = "gate"]
    /\ UNCHANGED <<gate, count, msg, restore, took, queued, closed, wire>>

\* The future of the call is gone, and its locals with it.
EndCall(t) ==
    /\ pc' = [pc EXCEPT ![t] = "idle"]
    /\ call' = [call EXCEPT ![t] = NoCall]
    /\ msg' = [msg EXCEPT ![t] = NoMsg]
    /\ restore' = [restore EXCEPT ![t] = 0]
    /\ took' = [took EXCEPT ![t] = 0]

\* The number of the next message: an NBIRTH resets, everything else adds 1.
Step(k, previous) == IF k = "data" THEN Successor(previous) ELSE 0

\* Mutants: one gate over the whole map, and a rollback with no gate (both are
\* options ADR-0005 rejects).
OneGateForAll(n) == \A m \in EdgeNodes : gate[m] = NoTask
NoGate(n) == n \in EdgeNodes

\* Each edge node has a gate of its own.
GateFree(n) == gate[n] = NoTask

\* reserve_seq and reserve_with: take the gate, write the new count, remember
\* the previous one; the payload is encoded with the number just drawn.
Reserve(t) ==
    LET n == Node(t)
        s == Step(call[t].kind, count[n])
    IN  /\ pc[t] = "gate"
        /\ GateFree(n)
        /\ gate' = [gate EXCEPT ![n] = t]
        /\ count' = [count EXCEPT ![n] = s]
        /\ restore' = [restore EXCEPT ![t] = count[n]]
        /\ msg' = [msg EXCEPT ![t] =
                     [type |-> IF call[t].kind = "data" THEN "DATA" ELSE "NBIRTH",
                      seq |-> s]]
        /\ pc' = [pc EXCEPT ![t] = "send"]
        /\ UNCHANGED <<call, took, queued, closed, wire>>

\* The client's channel holds the message of t from now on.
Took(t) ==
    wire' = [wire EXCEPT ![Node(t)] =
                Append(@, [type |-> msg[t].type, seq |-> msg[t].seq, kept |-> TRUE])]

\* The first message of publish_birth went through: the call goes on with the
\* DBIRTH under the same reservation (SeqReservation::next).
MoreToSend(t) == call[t].kind = "birth" /\ msg[t].type = "NBIRTH"

NextMessage(t) ==
    LET s == Successor(count[Node(t)])
    IN  /\ count' = [count EXCEPT ![Node(t)] = s]
        /\ msg' = [msg EXCEPT ![t] = [type |-> "DBIRTH", seq |-> s]]
        /\ took' = [took EXCEPT ![t] = 1]
        /\ pc' = [pc EXCEPT ![t] = "send"]
        /\ UNCHANGED <<gate, call, restore>>

\* SeqReservation::commit, then the drop that releases the gate.
CommitAndDrop(t) ==
    /\ gate' = [gate EXCEPT ![Node(t)] = NoTask]
    /\ EndCall(t)
    /\ UNCHANGED count

\* publish_message(..).await returned Ok.
Continue(t) == IF MoreToSend(t) THEN NextMessage(t) ELSE CommitAndDrop(t)

CutLast(s, m) ==
    [i \in 1 .. Len(s) |-> IF i + m > Len(s) THEN [s[i] EXCEPT !.kept = FALSE]
                                              ELSE s[i]]

\* Mutants: the drop writes nothing back; the drop leaks the gate.
DropKeepsCount(t) ==
    /\ gate' = [gate EXCEPT ![Node(t)] = NoTask]
    /\ wire' = [wire EXCEPT ![Node(t)] = CutLast(@, took[t])]
    /\ EndCall(t)
    /\ UNCHANGED <<count, queued, closed>>
DropKeepsGate(t) ==
    /\ count' = [count EXCEPT ![Node(t)] = restore[t]]
    /\ wire' = [wire EXCEPT ![Node(t)] = CutLast(@, took[t])]
    /\ EndCall(t)
    /\ UNCHANGED <<gate, queued, closed>>

\* Drop for SeqReservation with restore_to still set: write the previous count
\* back, then release the gate. Whatever this call sent stays sent.
DropUncommitted(t) ==
    /\ count' = [count EXCEPT ![Node(t)] = restore[t]]
    /\ gate' = [gate EXCEPT ![Node(t)] = NoTask]
    /\ wire' = [wire EXCEPT ![Node(t)] = CutLast(@, took[t])]
    /\ EndCall(t)
    /\ UNCHANGED <<queued, closed>>

\* The publish future finds room: the client takes the message, and the task
\* goes on in the same poll.
SendWithRoom(t) ==
    /\ pc[t] = "send"
    /\ ~closed
    /\ queued < Capacity
    /\ Took(t)
    /\ queued' = queued + 1
    /\ Continue(t)
    /\ UNCHANGED closed

\* Mutant: the number is drawn under the gate, the wait for a slot is not (the
\* code before ADR-0005).
SendWaitsOutsideGate(t) ==
    /\ pc[t] = "send"
    /\ ~closed
    /\ queued = Capacity
    /\ pc' = [pc EXCEPT ![t] = "full"]
    /\ gate' = [gate EXCEPT ![Node(t)] = NoTask]
    /\ UNCHANGED <<count, call, msg, restore, took, queued, closed, wire>>

\* The publish future finds the channel full and waits for a slot.
SendFindsFull(t) ==
    /\ pc[t] = "send"
    /\ ~closed
    /\ queued = Capacity
    /\ pc' = [pc EXCEPT ![t] = "full"]
    /\ UNCHANGED <<gate, count, call, msg, restore, took, queued, closed, wire>>

\* The client refuses the message: the ? of publish_metrics_on and
\* publish_birth drops the reservation.
Refused(t) ==
    /\ pc[t] \in {"send", "full"}
    /\ closed
    /\ DropUncommitted(t)

\* The waiting future is polled after the channel took its message.
Resume(t) ==
    /\ pc[t] = "taken"
    /\ Continue(t)
    /\ UNCHANGED <<queued, closed, wire>>

\* The caller drops the publish future while it waits for the gate. No
\* reservation exists yet.
CancelAtGate(t) ==
    /\ pc[t] = "gate"
    /\ EndCall(t)
    /\ UNCHANGED <<gate, count, queued, closed, wire>>

\* The caller drops the publish future while it waits for a slot.
CancelWaiting(t) ==
    /\ pc[t] = "full"
    /\ DropUncommitted(t)

\* The caller drops the publish future after the channel took the message and
\* before the future was polled again: the window ADR-0005 leaves open.
CancelTaken(t) ==
    /\ CancelWindow
    /\ pc[t] = "taken"
    /\ DropUncommitted(t)

----------------------------------------------------------------------------
(* The receiving end of the request channel: rumqttc's event loop.         *)

\* The loop takes one request, and no publish waits for the slot.
Drain ==
    /\ ~closed
    /\ queued > 0
    /\ \A t \in Tasks : pc[t] # "full"
    /\ queued' = queued - 1
    /\ UNCHANGED <<gate, count, pc, call, msg, restore, took, closed, wire>>

\* The loop looks for a request, and the message of a publish that waits goes
\* into a free slot, or into the one the loop frees: it leaves the future before
\* the future is polled.
Pull(t) ==
    /\ ~closed
    /\ pc[t] = "full"
    /\ Took(t)
    /\ queued' \in {queued, queued + 1} \cap 0 .. Capacity
    /\ took' = [took EXCEPT ![t] = @ + 1]
    /\ pc' = [pc EXCEPT ![t] = "taken"]
    /\ UNCHANGED <<gate, count, call, msg, restore, closed>>

\* The link breaks: what the channel holds goes, and a publish that waits for a
\* slot goes on waiting.
Discard ==
    /\ ~closed
    /\ queued > 0
    /\ queued' = 0
    /\ UNCHANGED <<gate, count, pc, call, msg, restore, took, closed, wire>>

\* The event loop task ends, which drops the receiver.
Close ==
    /\ ~closed
    /\ closed' = TRUE
    /\ UNCHANGED <<gate, count, pc, call, msg, restore, took, queued, wire>>

TaskStep(t) ==
    \/ Reserve(t)
    \/ SendWithRoom(t)
    \/ SendFindsFull(t)
    \/ Refused(t)
    \/ Resume(t)

Cancel(t) == CancelAtGate(t) \/ CancelWaiting(t) \/ CancelTaken(t)

Next ==
    \/ \E t \in Tasks :
        \/ \E n \in EdgeNodes, k \in Kinds : Call(t, n, k)
        \/ TaskStep(t)
        \/ Cancel(t)
        \/ Pull(t)
    \/ Drain
    \/ Discard
    \/ Close

Spec == Init /\ [][Next]_vars

----------------------------------------------------------------------------
(* Safety.                                                                 *)

\* Message b is the one that counts on from number s. A DBIRTH counts on from
\* the NBIRTH before it, whatever became of that call.
CountsOn(b, s) ==
    CASE b.type = "NBIRTH" -> b.seq = 0
      [] b.type = "DBIRTH" -> b.seq = 1
      [] b.type = "DATA"   -> b.seq = Successor(s)

\* Of the first j - 1 messages of w, i is the last one that was kept.
LastKeptBefore(w, i, j) ==
    /\ i < j
    /\ w[i].kept
    /\ \A k \in (i + 1) .. (j - 1) : ~w[k].kept

NoneKeptBefore(w, j) == \A k \in 1 .. (j - 1) : ~w[k].kept

NumbersFollow(w) ==
    \A j \in 1 .. Len(w) :
        /\ \A i \in 1 .. Len(w) : LastKeptBefore(w, i, j) => CountsOn(w[j], w[i].seq)
        /\ NoneKeptBefore(w, j) => CountsOn(w[j], 0)

\* The number a message carries is one more than the number of the last
\* message whose publish was kept, or 0 when it is an NBIRTH, whatever calls
\* were refused, cancelled or interleaved in between (seq.rs, "the number a
\* message carries and the order it reaches the client agree").
NumberFollowsLastKept == \A n \in EdgeNodes : NumbersFollow(wire[n])

BirthsPaired(w) ==
    \A j \in 1 .. Len(w) : w[j].type = "DBIRTH" => j > 1 /\ w[j - 1].type = "NBIRTH"

\* A DBIRTH of publish_birth comes straight after its NBIRTH: no other publish
\* for that edge node slips a message between the two (publish_birth holds one
\* reservation across both).
BirthPairTogether == \A n \in EdgeNodes : BirthsPaired(wire[n])

\* What seq.rs:130 says a host application reads, even when a publish is
\* refused or cancelled: every message but an NBIRTH carries the number after
\* the one of the message before it.
HostReadsNoGap ==
    \A n \in EdgeNodes : \A j \in 2 .. Len(wire[n]) :
        wire[n][j].type # "NBIRTH" => wire[n][j].seq = Successor(wire[n][j - 1].seq)

Holding == {"send", "full", "taken"}

\* The call of t hands over its first message, or the second one of a birth.
OnFirstMessage(t) ==
    /\ msg[t] = [type |-> IF call[t].kind = "data" THEN "DATA" ELSE "NBIRTH",
                 seq |-> Step(call[t].kind, restore[t])]
    /\ took[t] = IF pc[t] = "taken" THEN 1 ELSE 0
OnSecondMessage(t) ==
    /\ call[t].kind = "birth"
    /\ msg[t] = [type |-> "DBIRTH", seq |-> 1]
    /\ took[t] = IF pc[t] = "taken" THEN 2 ELSE 1

CallOK(t) ==
    /\ pc[t] # "idle" => Node(t) \in EdgeNodes
    /\ pc[t] \notin Holding => took[t] = 0
    /\ pc[t] \in Holding =>
          /\ gate[Node(t)] = t
          /\ count[Node(t)] = msg[t].seq
          /\ OnFirstMessage(t) \/ OnSecondMessage(t)

\* A gate is held exactly by the call that is between its draw and its commit
\* or rollback, and as long as it is held nobody else moves the count: it is
\* the number of the message in hand, drawn from the count that a rollback
\* would restore (seq.rs:132, "no other publish for that edge node can draw a
\* number while this one waits for the client").
GateInv ==
    /\ \A t \in Tasks : CallOK(t)
    /\ \A n \in EdgeNodes : gate[n] # NoTask =>
          pc[gate[n]] \in Holding /\ Node(gate[n]) = n

----------------------------------------------------------------------------
(* Refinement: seen from outside the gate, a publish is one step.          *)

\* Messages of a call that has neither committed nor dropped its reservation.
Pending(n) == IF gate[n] = NoTask THEN 0 ELSE took[gate[n]]

settledWire == [n \in EdgeNodes |-> SubSeq(wire[n], 1, Len(wire[n]) - Pending(n))]
settledCount == [n \in EdgeNodes |->
                    IF gate[n] = NoTask THEN count[n] ELSE restore[gate[n]]]

Atomic == INSTANCE AtomicPublish WITH count <- settledCount, wire <- settledWire

\* The gate makes every publish of an edge node take effect at one point in
\* time: its messages side by side, its number drawn from the count that the
\* last kept publish left (ADR-0005).
AtomicSpec == Atomic!Spec

----------------------------------------------------------------------------
(* Liveness.                                                               *)

\* The runtime polls a woken task, and tokio's mutex serves its waiters first
\* come first served. Nobody owes the system a call, a cancellation or an end
\* of the event loop.
TasksArePolled ==
    \A t \in Tasks :
        /\ SF_vars(Reserve(t))
        /\ WF_vars(SendWithRoom(t) \/ SendFindsFull(t))
        /\ WF_vars(Refused(t))
        /\ WF_vars(Resume(t))

FairSpec == Spec /\ TasksArePolled

\* The event loop keeps taking requests, because the link comes up again and
\* again, and flume's channel serves its waiters first come first served.
LoopTakesRequests == WF_vars(Drain) /\ \A t \in Tasks : SF_vars(Pull(t))

\* While the loop takes requests every publish ends: it is sent, refused or
\* cancelled. Nobody waits for a gate that its holder never releases (ADR-0005,
\* "no part of that hold waits for the broker to answer").
EveryCallEnds ==
    LoopTakesRequests => \A t \in Tasks : pc[t] # "idle" ~> pc[t] = "idle"

Busy(u, n) == pc[u] # "idle" /\ Node(u) = n

\* Even if the loop never takes a request again, a publish gets past the gate unless
\* another publish of the same edge node is under way: one slow edge node does
\* not stop the others (seq.rs, "Publishes for different edge nodes take
\* different gates and do not wait for each other").
WaitsOnlyForItsOwnNode ==
    \A t \in Tasks, n \in EdgeNodes :
        (pc[t] = "gate" /\ Node(t) = n)
            ~> (pc[t] # "gate" \/ \E u \in Tasks \ {t} : Busy(u, n))
=============================================================================
