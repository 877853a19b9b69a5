-------------------------- MODULE SparkplugClient --------------------------
(***************************************************************************)
(* A publisher's SparkplugClient at work: SeqGate and DeliveryTracker as   *)
(* its publish path composes them (publish_metrics_on holds a reservation  *)
(* around publish_with_options, which holds a guard of the tracker around  *)
(* the MQTT client), the event loop that feeds the tracker, the link, and  *)
(* what the broker is sent.                                                *)
(*                                                                         *)
(* Every message of a publisher is tracked. Where one poll of the code     *)
(* moves both components, their actions are conjoined. The MQTT client is  *)
(* external: its channel, its link, and the broker that answers.           *)
(***************************************************************************)
EXTENDS Naturals, Sequences, FiniteSets

CONSTANTS
    Pubs,            \* the tasks that publish
    Flushers,        \* the tasks that flush
    EdgeNodes, NoPub, NoNode, Loop,
    SeqMod,          \* 256 in the code
    Capacity,        \* slots of the request channel: 10 in the code
    MaxInflight,     \* publishes written and not answered: 100 in the code
    CancelWindow,    \* may a cancellation meet a message the client just took?
    MaxWire,         \* bound: no new call once the client took this many
    MaxDisconnects,  \* bound: breaks, DISCONNECTs and failed attempts; the
                     \* last one ends no session, and no call comes after it
    FlushAgain       \* bound: may a task flush again after a flush returned?

ASSUME PubsAssumption == IsFiniteSet(Pubs) /\ NoPub \notin Pubs /\ Loop \notin Pubs
ASSUME NoNodeAssumption == NoNode \notin EdgeNodes
ASSUME SeqModAssumption == SeqMod \in Nat /\ SeqMod >= 2
ASSUME CapacityAssumption == Capacity \in Nat \ {0}
ASSUME MaxInflightAssumption == MaxInflight \in Nat \ {0}
ASSUME CancelWindowAssumption == CancelWindow \in BOOLEAN
ASSUME BoundsAssumption ==
    MaxWire \in Nat /\ MaxDisconnects \in Nat /\ FlushAgain \in BOOLEAN

VARIABLES
    \* SeqGate
    gate, count, pc, call, msg, restore, took, closed, wire,
    \* DeliveryTracker
    st, pub, ticket, fate, notifying, fpc, wake, opened, result,
    unreported, stray, owed, window,
    \* The MQTT client and the loop that polls it
    link,      \* the connection
    chan,      \* the request channel
    inflight,  \* the messages written and not answered
    event,     \* the event the loop has in hand
    heard,     \* heard[n]: which messages of n were written in this session
    answered   \* history: the messages whose PubAck reached the loop

G == INSTANCE SeqGate WITH
        Tasks <- Pubs, NoTask <- NoPub, OwnNode <- NoNode, queued <- Len(chan)
T == INSTANCE DeliveryTracker WITH Survives <- TRUE

gateVars == <<gate, count, pc, call, msg, restore, took, closed, wire>>
trackerVars == <<st, pub, ticket, fate, notifying, fpc, wake, opened, result,
                 unreported, stray, owed, window>>
linkVars == <<link, chan, inflight, event, heard, answered>>
vars == <<gateVars, trackerVars, linkVars>>

\* The messages that the client took, as edge node and place in wire.
AllTaken == UNION {{n} \X (1 .. Len(wire[n])) : n \in EdgeNodes}

\* A message in the channel or in flight: who published it, and its place in
\* wire.
Entries == [by : Pubs, node : EdgeNodes, at : Nat]
Message(e) == <<e.node, e.at>>

TypeOK ==
    /\ G!TypeOK /\ T!TypeOK
    /\ link \in {"down", "up", "closing"}
    /\ chan \in Seq(Entries) /\ Len(chan) <= Capacity
    /\ inflight \subseteq Entries /\ Cardinality(inflight) <= MaxInflight
    /\ event \in {"none", "down"}
    /\ heard \in [EdgeNodes -> Seq(Nat)]
    /\ answered \subseteq EdgeNodes \X Nat

\* connect_with hands out the client after the first ConnAck.
Init ==
    /\ link = "up" /\ chan = <<>> /\ inflight = {} /\ event = "none"
    /\ heard = [n \in EdgeNodes |-> <<>>] /\ answered = {}
    /\ G!Init /\ T!Init

----------------------------------------------------------------------------
(* A publish.                                                              *)

\* The bounds of a run.
MayCall == Cardinality(AllTaken) < MaxWire /\ st.generation < MaxDisconnects
MayGoDown ==
    st.generation + (IF link = "up" THEN 1 ELSE 0) < MaxDisconnects
MayFlush(f) == FlushAgain \/ (fpc[f] = "idle" => result[f] = T!NoResult)

\* The next call of a task, whose last publish is over and done with.
Call(p, n, k) ==
    /\ MayCall
    /\ UNCHANGED linkVars
    /\ G!Call(p, n, k)
    /\ IF pub[p] = "new" THEN UNCHANGED trackerVars ELSE T!Again(p)

Reserve(p) == UNCHANGED linkVars /\ G!Reserve(p) /\ UNCHANGED trackerVars

\* publish_with_options counts the message before the client is polled.
Count(p) ==
    /\ pc[p] = "send"
    /\ T!Count(p)
    /\ UNCHANGED <<gateVars, linkVars>>

Counted(p) == pub[p] = "counted"

Enters(p) ==
    [by |-> p, node |-> call[p].node, at |-> Len(wire[call[p].node]) + 1]

SendWithRoom(p) ==
    /\ Counted(p)
    /\ chan' = Append(chan, Enters(p))
    /\ G!SendWithRoom(p) /\ T!Take(p)
    /\ UNCHANGED <<link, inflight, event, heard, answered>>

\* PublishInFlight::keep, in the poll that found room.
Keep(p) == pc[p] = "idle" /\ T!Keep(p) /\ UNCHANGED <<gateVars, linkVars>>

SendFindsFull(p) ==
    /\ Counted(p)
    /\ UNCHANGED linkVars
    /\ G!SendFindsFull(p) /\ UNCHANGED trackerVars

Refused(p) == UNCHANGED linkVars /\ G!Refused(p) /\ T!Fail(p)

\* The future of a waiting publish is polled: the guard is kept, then the
\* reservation is committed.
Resume(p) == UNCHANGED linkVars /\ G!Resume(p) /\ T!Keep(p)

CancelAtGate(p) == UNCHANGED linkVars /\ G!CancelAtGate(p) /\ UNCHANGED trackerVars

\* The caller drops the future: the guard of the tracker goes first, then the
\* reservation around it.
CancelWaiting(p) == UNCHANGED linkVars /\ G!CancelWaiting(p) /\ T!Fail(p)
CancelTaken(p) == UNCHANGED linkVars /\ G!CancelTaken(p) /\ T!CancelTaken(p)

PublishStep(p) ==
    \/ \E n \in EdgeNodes, k \in {"data", "nbirth"} : Call(p, n, k)
    \/ Reserve(p) \/ Count(p) \/ SendWithRoom(p) \/ Keep(p) \/ SendFindsFull(p)
    \/ Refused(p) \/ Resume(p) \/ CancelAtGate(p) \/ CancelWaiting(p) \/ CancelTaken(p)

----------------------------------------------------------------------------
(* rumqttc's EventLoop::poll (external).                                   *)

Polls == event = "none" /\ ~closed /\ T!LoopFree
LinkEvent == event' = "down" /\ MayGoDown

\* mqtt_options sets clean_session: the new session knows no old message, and
\* what sits in the channel is still to be written.
ConnectsAgain ==
    /\ Polls /\ link = "down"
    /\ link' = "up"
    /\ heard' = [n \in EdgeNodes |-> <<>>]
    /\ UNCHANGED <<chan, inflight, event, answered, gateVars, trackerVars>>

\* An attempt to connect that fails leaves the channel alone.
AttemptFails ==
    /\ Polls /\ link = "down" /\ LinkEvent
    /\ UNCHANGED <<link, chan, inflight, heard, answered, gateVars, trackerVars>>

\* The connection ends: what was in the channel or in flight is dropped.
LinkBreaks ==
    /\ Polls /\ link # "down" /\ LinkEvent
    /\ link' = "down" /\ chan' = <<>> /\ inflight' = {}
    /\ IF chan = <<>> THEN UNCHANGED gateVars ELSE G!Discard
    /\ UNCHANGED <<heard, answered, trackerVars>>

\* The broker's DISCONNECT comes before the end of the connection.
BrokerDisconnects ==
    /\ Polls /\ link = "up" /\ LinkEvent
    /\ link' = "closing" /\ inflight' = {}
    /\ UNCHANGED <<chan, heard, answered, gateVars, trackerVars>>

\* The loop writes the first request, unless too many wait for an answer
\* (set_inflight). A waiting publish gets the slot.
Writes(e) ==
    /\ link = "up" /\ Cardinality(inflight) < MaxInflight
    /\ inflight' = inflight \cup {e}
    /\ heard' = [heard EXCEPT ![e.node] = Append(@, e.at)]

WritesRequest ==
    /\ Polls /\ chan # <<>>
    /\ Writes(Head(chan))
    /\ chan' = Tail(chan)
    /\ G!Drain
    /\ UNCHANGED <<link, event, answered, trackerVars>>

WritesAndPulls(p) ==
    /\ Polls /\ chan # <<>> /\ pc[p] = "full"
    /\ Writes(Head(chan))
    /\ chan' = Append(Tail(chan), Enters(p))
    /\ G!Pull(p) /\ T!Take(p)
    /\ UNCHANGED <<link, event, answered>>

\* After a break a publish still waits, and the channel has room.
Pulls(p) ==
    /\ Polls /\ link = "up" /\ Len(chan) < Capacity /\ pc[p] = "full"
    /\ chan' = Append(chan, Enters(p))
    /\ G!Pull(p) /\ T!Take(p)
    /\ UNCHANGED <<link, inflight, event, heard, answered>>

----------------------------------------------------------------------------
(* The event loop: run and apply_event.                                    *)

\* A PubAck
Ack(e) ==
    /\ Polls /\ link = "up" /\ e \in inflight
    /\ T!Ack(e.by)
    /\ inflight' = inflight \ {e} /\ answered' = answered \cup {Message(e)}
    /\ UNCHANGED <<link, chan, event, heard, gateVars>>

\* An error or a DISCONNECT: what sits in the channel by now stays there.
ApplyDown ==
    /\ event = "down"
    /\ T!Disconnect({chan[i].by : i \in 1 .. Len(chan)})
    /\ event' = "none"
    /\ UNCHANGED <<link, chan, inflight, heard, answered, gateVars>>

\* The loop task panics, and the receiver of the channel goes with it.
LoopDies ==
    /\ UNCHANGED linkVars
    /\ event = "none" /\ G!Close
    /\ UNCHANGED trackerVars

LoopStep ==
    \/ ConnectsAgain \/ AttemptFails \/ LinkBreaks \/ BrokerDisconnects
    \/ WritesRequest \/ ApplyDown \/ LoopDies
    \/ \E p \in Pubs : WritesAndPulls(p) \/ Pulls(p)
    \/ \E e \in inflight : Ack(e)

FlushStep ==
    /\ \/ \E f \in Flushers : MayFlush(f) /\ T!FlushStep(f)
       \/ \E a \in Pubs \cup {Loop} : T!NotifyWaiters(a)
    /\ UNCHANGED <<gateVars, linkVars>>

Next == (\E p \in Pubs : PublishStep(p)) \/ LoopStep \/ FlushStep

Spec == Init /\ [][Next]_vars

----------------------------------------------------------------------------
(* Safety.                                                                 *)

\* Within one session the broker is sent the messages of an edge node under
\* numbers without a gap, although publishes wait across breaks and the ones
\* in the channel are dropped: after a message whose publish was not cut off
\* comes the next number, or an NBIRTH (seq.rs, "a host application reads no
\* gap").
SessionReadsNoGap ==
    \A n \in EdgeNodes : \A j \in 2 .. Len(heard[n]) :
        LET a == wire[n][heard[n][j - 1]]
            b == wire[n][heard[n][j]]
        IN  a.kept => b.type = "NBIRTH" \/ b.seq = G!Successor(a.seq)

\* The messages whose publish was not cut off.
KeptMessages == {m \in AllTaken : wire[m[1]][m[2]].kept}

\* The messages that are on their way, and the ones that were dropped although
\* their caller was told Ok, or still waits to be.
Carried == inflight \cup {chan[i] : i \in 1 .. Len(chan)}
OnTheWay == {Message(e) : e \in Carried}
Dropped == KeptMessages \ (answered \cup OnTheWay)

\* What the link drops is recorded: when the loop has no event in hand, the
\* losses that flush told of or will tell of are as many as the messages that
\* were dropped, late answers, survivors of a break and waiting publishes
\* included (README.md:177, "instead of hiding it"). The counter has no names, so
\* one kind of loss is missed: the PubAck of a message whose publish was cut off
\* may clear the count of another publish, and a break that drops that one then
\* records nothing. There are no more of those than such PubAcks.
LossesAreRecorded ==
    event = "none" =>
        Cardinality(Dropped)
            <= st.lost + st.reported + Cardinality(answered \ KeptMessages)

\* When the loop has no event in hand, the tracker counts the publishes that
\* wait for the client, the ones in the channel and the ones in flight, unless
\* a message outlived its count.
CountMatchesTheLink ==
    (event = "none" /\ ~stray)
        => st.unacked = Len(chan) + Cardinality(inflight)
                          + Cardinality({p \in Pubs : Counted(p) /\ ticket[p] = st.generation})

\* delivery.rs:162, "Wait until the broker has acknowledged every publish,
\* then report", of the client as a whole.
FlushOkMeansAcked == T!FlushOkMeansAcked
=============================================================================
