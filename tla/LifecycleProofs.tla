-------------------------- MODULE LifecycleProofs --------------------------
(***************************************************************************)
(* Proofs about ClientLifecycle, for any capacity of the channel, any      *)
(* number of publishes and link events, both roles, and a loop task that   *)
(* may die.                                                                *)
(*                                                                         *)
(* The argument for shutdown: each tracked publish is counted once and is  *)
(* acknowledged, still counted, waiting to be reported, or reported. So a  *)
(* flush that drains with nothing to report leaves only acknowledged ones, *)
(* unless an earlier flush reported the others.                            *)
(***************************************************************************)
EXTENDS ClientLifecycle, DeliveryStateProofs, FiniteSetTheorems, SequenceTheorems, TLAPS

\* The event in hand tells how the link stands: the next poll comes only after
\* the loop is done with it.
EventInv ==
    /\ lpc \in {"tracker", "health", "react"} =>
          /\ event # "none"
          /\ event = "err" => link = "down"
          /\ event = "indisc" => link = "closing"
          /\ event \notin {"err", "indisc"} => link = "up"
    /\ link # "up" => inflight = 0

\* Between the poll and apply_health the watch channel may lag; before and after
\* it does not claim a link that is not there.
HealthInv ==
    (lpc \in {"none", "poll", "backoff", "react"} /\ health = "Connected") => link = "up"

\* connect is released by a ConnAck that the loop applied.
ReadyInv ==
    /\ ready = "sent" => greeted
    /\ (lpc = "react" /\ event = "connack") => greeted
    /\ cpc \in {"open", "flush", "subscribe", "request", "wait"}
          => greeted \/ lpc = "stopped"
    /\ cpc = "start" => lpc = "none"
    /\ lpc = "none" => cpc \in {"start", "done"}

\* A PubAck that the loop has polled and the tracker has not counted.
AckInHand == IF lpc = "tracker" /\ event = "puback" THEN 1 ELSE 0

\* What the broker still has to answer was counted once, and each answer is one
\* of them; a message that is not tracked is never answered.
OwedInv ==
    /\ acked + inflight + QueuedQos1 <= tracked1
    /\ tracked1 <= pubs
    /\ role = "Publisher" => tracked1 = pubs

\* Unless a message outlived its count, the tracker is never off by more than
\* the event in hand, and what it counted adds up.
CountInv ==
    ~stray =>
        /\ (lpc = "tracker" /\ event \in {"indisc", "err"})
              \/ st.unacked = inflight + QueuedQos1 + AckInHand
        /\ tracked1 + AckInHand = acked + st.unacked + st.lost + st.reported
        /\ ~told => st.reported = 0

\* The verdict of shutdown rests on a flush that drained, after the last publish.
VerdictInv ==
    /\ cpc \in {"subscribe", "request", "wait"} => flushed # "none"
    /\ outcome \in {"ok", "shutdownTimeout", "refused"} => flushed = "ok" /\ cpc = "done"
    /\ flushed # "none" => cpc \in {"subscribe", "request", "wait", "done"}
    /\ (flushed = "ok" /\ ~told /\ ~stray) => acked = tracked1

IInv == TypeOK /\ EventInv /\ HealthInv /\ ReadyInv /\ OwedInv /\ CountInv /\ VerdictInv

----------------------------------------------------------------------------
(* Counting in the request channel.                                        *)

Qos1At(s) == {i \in 1 .. Len(s) : s[i] = "qos1"}

\* The number of QoS 1 publishes in a channel that holds nothing is zero.
LEMMA QueueType ==
    /\ \A s \in Seq(Requests) : IsFiniteSet(Qos1At(s)) /\ Cardinality(Qos1At(s)) \in Nat
    /\ Cardinality(Qos1At(<<>>)) = 0
<1>1. ASSUME NEW s \in Seq(Requests)
      PROVE  IsFiniteSet(Qos1At(s)) /\ Cardinality(Qos1At(s)) \in Nat
  <2>1. Len(s) \in Nat
    OBVIOUS
  <2>2. IsFiniteSet(1 .. Len(s))
    BY <2>1, FS_Interval
  <2>3. Qos1At(s) \in SUBSET (1 .. Len(s))
    BY DEF Qos1At
  <2> QED BY <2>2, <2>3, FS_Subset, FS_CardinalityType
<1>2. Qos1At(<<>>) = {}
  BY DEF Qos1At
<1> QED BY <1>1, <1>2, FS_EmptySet

\* A request that enters the channel is counted if it is one.
LEMMA QueueAppend ==
    ASSUME NEW s \in Seq(Requests), NEW r \in Requests
    PROVE  Cardinality(Qos1At(Append(s, r))) =
              Cardinality(Qos1At(s)) + (IF r = "qos1" THEN 1 ELSE 0)
<1>1. Len(s) \in Nat /\ Len(Append(s, r)) = Len(s) + 1
  OBVIOUS
<1>2. \A i \in 1 .. Len(s) : Append(s, r)[i] = s[i]
  OBVIOUS
<1>3. Append(s, r)[Len(s) + 1] = r
  OBVIOUS
<1>4. CASE r = "qos1"
  <2>1. Qos1At(Append(s, r)) = Qos1At(s) \cup {Len(s) + 1} /\ Len(s) + 1 \notin Qos1At(s)
    BY <1>1, <1>2, <1>3, <1>4 DEF Qos1At
  <2> QED BY <1>4, <2>1, QueueType, FS_AddElement
<1>5. CASE r # "qos1"
  <2>1. Qos1At(Append(s, r)) = Qos1At(s)
    BY <1>1, <1>2, <1>3, <1>5 DEF Qos1At
  <2> QED BY <1>5, <2>1, QueueType
<1> QED BY <1>4, <1>5

\* A request that leaves the channel was counted if it is one.
LEMMA QueueTail ==
    ASSUME NEW s \in Seq(Requests), s # <<>>
    PROVE  /\ Head(s) \in Requests /\ Tail(s) \in Seq(Requests) /\ Len(Tail(s)) = Len(s) - 1
           /\ Cardinality(Qos1At(s)) =
                 Cardinality(Qos1At(Tail(s))) + (IF Head(s) = "qos1" THEN 1 ELSE 0)
<1>1. /\ Head(s) \in Requests /\ Tail(s) \in Seq(Requests)
      /\ Len(Tail(s)) = Len(s) - 1 /\ Len(s) \in Nat \ {0} /\ Head(s) = s[1]
      /\ \A i \in 1 .. Len(s) - 1 : Tail(s)[i] = s[i + 1]
  BY HeadTailProperties, EmptySeq
<1> DEFINE rest == Qos1At(s) \ {1}
           shift == [i \in Qos1At(Tail(s)) |-> i + 1]
<1>2. IsFiniteSet(Qos1At(Tail(s))) /\ IsFiniteSet(Qos1At(s))
  BY <1>1, QueueType
<1>3. shift \in Bijection(Qos1At(Tail(s)), rest)
  <2>1. \A i \in Qos1At(Tail(s)) : i \in Int /\ i + 1 \in rest
    BY <1>1 DEF Qos1At
  <2>2. \A k \in rest : k - 1 \in Qos1At(Tail(s)) /\ shift[k - 1] = k
    BY <1>1 DEF Qos1At
  <2>3. shift \in [Qos1At(Tail(s)) -> rest]
    BY <2>1
  <2>4. \A a, b \in Qos1At(Tail(s)) : shift[a] = shift[b] => a = b
    BY <2>1
  <2>5. \A k \in rest : \E i \in Qos1At(Tail(s)) : shift[i] = k
    BY <2>2
  <2> HIDE DEF rest, shift
  <2> QED BY <2>3, <2>4, <2>5 DEF Bijection, Injection, Surjection, IsInjective
<1>4. Cardinality(rest) = Cardinality(Qos1At(Tail(s)))
  BY <1>2, <1>3, FS_Bijection DEF ExistsBijection
<1>5. Cardinality(rest) = IF 1 \in Qos1At(s) THEN Cardinality(Qos1At(s)) - 1
                                             ELSE Cardinality(Qos1At(s))
  BY <1>2, FS_RemoveElement
<1>6. 1 \in Qos1At(s) <=> Head(s) = "qos1"
  BY <1>1 DEF Qos1At
<1>7. Cardinality(Qos1At(s)) \in Nat
  BY QueueType
<1> QED BY <1>1, <1>4, <1>5, <1>6, <1>7

----------------------------------------------------------------------------
(* What each step does to the channel.                                     *)

\* The count of the waiting QoS 1 publishes is a number, and zero when nothing
\* waits.
LEMMA QueuedType ==
    ASSUME TypeOK
    PROVE  QueuedQos1 \in Nat /\ (chan = <<>> => QueuedQos1 = 0)
<1>1. QueuedQos1 = Cardinality(Qos1At(chan)) /\ chan \in Seq(Requests)
  BY DEF QueuedQos1, Qos1At, TypeOK
<1> QED BY <1>1, QueueType

\* A publish adds one to it exactly if it is tracked.
LEMMA PublishQueues ==
    ASSUME TypeOK, NEW type \in MessageTypes, Publish(type)
    PROVE  /\ chan' \in Seq(Requests) /\ Len(chan') <= Capacity
           /\ WireOptions(role, type).tracked \in BOOLEAN
           /\ WireOptions(role, type).tracked => QueuedQos1' = QueuedQos1 + 1
           /\ ~WireOptions(role, type).tracked => QueuedQos1' = QueuedQos1
           /\ role = "Publisher" => WireOptions(role, type).tracked
<1> DEFINE r == Request(WireOptions(role, type))
<1>1. /\ r \in Requests
      /\ WireOptions(role, type).tracked \in BOOLEAN
      /\ WireOptions(role, type).tracked <=> r = "qos1"
      /\ role = "Publisher" => WireOptions(role, type).tracked
  BY DEF WireOptions, SpecQos, Request, Requests
<1>2. chan \in Seq(Requests) /\ chan' = Append(chan, r) /\ Len(chan) < Capacity
  BY DEF TypeOK, Publish
<1> HIDE DEF r
<1>3. chan' \in Seq(Requests) /\ Len(chan') <= Capacity
  BY <1>1, <1>2, BoundsAssumption
<1>4. /\ QueuedQos1 = Cardinality(Qos1At(chan))
      /\ QueuedQos1' = Cardinality(Qos1At(Append(chan, r)))
  BY <1>2 DEF QueuedQos1, Qos1At
<1>5. QueuedQos1' = QueuedQos1 + (IF r = "qos1" THEN 1 ELSE 0) /\ QueuedQos1 \in Nat
  BY <1>1, <1>2, <1>4, QueueAppend, QueuedType
<1> QED BY <1>1, <1>3, <1>5

\* A DISCONNECT that enters the channel is not counted.
LEMMA RequestQueues ==
    ASSUME TypeOK, RequestDisconnect
    PROVE  /\ chan' \in Seq(Requests) /\ Len(chan') <= Capacity
           /\ QueuedQos1' = QueuedQos1
<1>1. /\ chan \in Seq(Requests) /\ chan' = Append(chan, "disc") /\ Len(chan) < Capacity
      /\ "disc" \in Requests
  BY DEF TypeOK, RequestDisconnect, Requests
<1>2. /\ QueuedQos1 = Cardinality(Qos1At(chan))
      /\ QueuedQos1' = Cardinality(Qos1At(Append(chan, "disc")))
  BY <1>1 DEF QueuedQos1, Qos1At
<1>3. Cardinality(Qos1At(Append(chan, "disc"))) = Cardinality(Qos1At(chan)) + 0
  BY <1>1, QueueAppend
<1> QED BY <1>1, <1>2, <1>3, BoundsAssumption, QueuedType

\* What the loop writes moves from the channel to the flight.
LEMMA WriteDequeues ==
    ASSUME TypeOK, WritesRequest
    PROVE  /\ chan' \in Seq(Requests) /\ Len(chan') <= Capacity
           /\ QueuedQos1' \in Nat /\ inflight' \in Nat
           /\ inflight' + QueuedQos1' = inflight + QueuedQos1
<1>1. /\ chan \in Seq(Requests) /\ chan # <<>> /\ Len(chan) <= Capacity
      /\ chan' = Tail(chan) /\ inflight \in Nat
      /\ inflight' = IF Head(chan) = "qos1" THEN inflight + 1 ELSE inflight
  BY DEF TypeOK, WritesRequest
<1>2. /\ QueuedQos1 = Cardinality(Qos1At(chan))
      /\ QueuedQos1' = Cardinality(Qos1At(Tail(chan)))
  BY <1>1 DEF QueuedQos1, Qos1At
<1>3. /\ Tail(chan) \in Seq(Requests) /\ Len(Tail(chan)) = Len(chan) - 1
      /\ QueuedQos1 = QueuedQos1' + (IF Head(chan) = "qos1" THEN 1 ELSE 0)
  BY <1>1, <1>2, QueueTail
<1>4. QueuedQos1 \in Nat /\ QueuedQos1' \in Nat
  BY <1>1, <1>2, <1>3, QueueType, QueuedType
<1>5. Len(chan) \in Nat
  BY <1>1
<1> QED BY <1>1, <1>3, <1>4, <1>5, BoundsAssumption

\* A break empties the channel.
LEMMA BreakClears ==
    ASSUME LinkBreaks
    PROVE  chan' \in Seq(Requests) /\ Len(chan') = 0 /\ QueuedQos1' = 0 /\ inflight' = 0
<1>1. chan' = <<>> /\ inflight' = 0
  BY DEF LinkBreaks
<1>2. QueuedQos1' = Cardinality(Qos1At(<<>>))
  BY <1>1 DEF QueuedQos1, Qos1At
<1> QED BY <1>1, <1>2, QueueType

\* Nothing else touches what the broker has to answer.
LEMMA OwedFrame ==
    ASSUME [Next]_vars
    PROVE  \/ \E type \in MessageTypes : Publish(type)
           \/ RequestDisconnect \/ WritesRequest \/ LinkBreaks
           \/ BrokerDisconnects \/ BrokerAcks
           \/ /\ UNCHANGED <<role, chan, inflight, pubs, tracked1, acked>>
              /\ QueuedQos1' = QueuedQos1
<1>1. ASSUME UNCHANGED <<role, chan, inflight, pubs, tracked1, acked>>
      PROVE  QueuedQos1' = QueuedQos1
  BY <1>1 DEF QueuedQos1
<1>2. CASE ClientStep \/ TimerFires
  BY <1>1, <1>2 DEF ClientStep, Connect, ConnectReturns, ConnectTimesOut, FlushDrains,
     FlushTimesOut, Subscribe, RequestRefused, RequestTimesOut, SeesDisconnected,
     WaitTimesOut, ShutdownReturns, Finish, TimerFires, linkVars, history
<1>3. CASE CallerStep
  <2>1. CASE Flush \/ Shutdown \/ DropClient \/ CancelConnect \/ ConnectRefused
    BY <1>1, <2>1 DEF Flush, Shutdown, DropClient, CancelConnect, ConnectRefused, Finish,
       clientVars, linkVars, history
  <2> QED BY <1>3, <2>1 DEF CallerStep
<1>4. CASE Poll
  BY <1>1, <1>4 DEF Poll, ConnectsAgain, AttemptFails, Polled, clientVars, history
<1>5. CASE LoopStep \/ LoopDies
  BY <1>1, <1>5 DEF LoopStep, ApplyEvent, ApplyHealth, React, BackoffEnds,
     AbortTakesEffect, LoopDies, clientVars, linkVars, history
<1>6. CASE UNCHANGED vars
  BY <1>1, <1>6 DEF vars, clientVars, linkVars, history
<1> QED BY <1>2, <1>3, <1>4, <1>5, <1>6 DEF Next

\* Only these steps move the loop, its event or the link.
LEMMA LoopFrame ==
    ASSUME [Next]_vars
    PROVE  \/ Connect \/ LoopStep \/ LoopDies \/ Poll
           \/ UNCHANGED <<lpc, event, ready, health, greeted, link, inflight>>
<1>1. CASE ClientStep \/ TimerFires
  BY <1>1 DEF ClientStep, ConnectReturns, ConnectTimesOut, FlushDrains, FlushTimesOut,
     Subscribe, RequestDisconnect, RequestRefused, RequestTimesOut, SeesDisconnected,
     WaitTimesOut, ShutdownReturns, TimerFires, loopVars, linkVars, history
<1>2. CASE CallerStep
  <2>1. ASSUME NEW type \in MessageTypes, Publish(type)
        PROVE  UNCHANGED <<lpc, event, ready, health, greeted, link, inflight>>
    BY <2>1 DEF Publish, loopVars
  <2>2. CASE Flush \/ Shutdown \/ DropClient \/ CancelConnect \/ ConnectRefused
    BY <2>2 DEF Flush, Shutdown, DropClient, CancelConnect, ConnectRefused, loopVars, linkVars,
       history
  <2> QED BY <1>2, <2>1, <2>2 DEF CallerStep
<1>3. CASE UNCHANGED vars
  BY <1>3 DEF vars, loopVars, linkVars, history
<1> QED BY <1>1, <1>2, <1>3 DEF Next

----------------------------------------------------------------------------
(* Each step preserves the invariant.                                      *)

\* What the broker owes.
LEMMA OwedStep ==
    ASSUME TypeOK, OwedInv, [Next]_vars
    PROVE  OwedInv'
<1>1. /\ QueuedQos1 \in Nat /\ inflight \in Nat
      /\ acked \in Nat /\ tracked1 \in Nat /\ pubs \in Nat
  BY QueuedType, BoundsAssumption DEF TypeOK
<1>2. ASSUME NEW type \in MessageTypes, Publish(type)
      PROVE  OwedInv'
  <2>1. /\ pubs' = pubs + 1 /\ UNCHANGED <<role, inflight, acked>>
        /\ IF WireOptions(role, type).tracked THEN tracked1' = tracked1 + 1
                                              ELSE tracked1' = tracked1
    BY <1>2 DEF Publish, clientVars
  <2> QED BY <1>1, <1>2, <2>1, PublishQueues DEF OwedInv
<1>3. CASE RequestDisconnect
  BY <1>1, <1>3, RequestQueues DEF OwedInv, RequestDisconnect, history
<1>4. CASE WritesRequest
  <2>1. UNCHANGED <<role, pubs, tracked1, acked>>
    BY <1>4 DEF WritesRequest, Polled, clientVars
  <2> QED BY <1>1, <1>4, <2>1, WriteDequeues DEF OwedInv
<1>5. CASE LinkBreaks
  <2>1. UNCHANGED <<role, pubs, tracked1, acked>>
    BY <1>5 DEF LinkBreaks, Polled, clientVars, history
  <2> QED BY <1>1, <1>5, <2>1, BreakClears DEF OwedInv
<1>6. CASE BrokerDisconnects
  <2>1. UNCHANGED <<role, chan, pubs, tracked1, acked>> /\ inflight' = 0
    BY <1>6 DEF BrokerDisconnects, Polled, clientVars, history
  <2>2. QueuedQos1' = QueuedQos1
    BY <2>1 DEF QueuedQos1
  <2> QED BY <1>1, <2>1, <2>2 DEF OwedInv
<1>7. CASE BrokerAcks
  <2>1. /\ UNCHANGED <<role, chan, pubs, tracked1>>
        /\ inflight > 0 /\ inflight' = inflight - 1 /\ acked' = acked + 1
    BY <1>7 DEF BrokerAcks, Polled, clientVars
  <2>2. QueuedQos1' = QueuedQos1
    BY <2>1 DEF QueuedQos1
  <2> QED BY <1>1, <2>1, <2>2 DEF OwedInv
<1>8. CASE UNCHANGED <<role, chan, inflight, pubs, tracked1, acked>>
           /\ QueuedQos1' = QueuedQos1
  BY <1>8 DEF OwedInv
<1> QED BY <1>2, <1>3, <1>4, <1>5, <1>6, <1>7, <1>8, OwedFrame

\* Every variable keeps its type. That the acknowledgements never outrun the
\* publishes is OwedInv's.
LEMMA TypeStep ==
    ASSUME TypeOK, OwedInv, [Next]_vars
    PROVE  TypeOK'
<1>1. /\ CountPublish(st) \in States /\ ReleaseOne(st) \in States
      /\ LoseOutstanding(st) \in States /\ ReportLost(st) \in States
  BY Fields DEF TypeOK
<1>2. /\ MaxPubs \in Nat /\ MaxEvents \in Nat /\ QueuedQos1 \in Nat
      /\ Len(chan) \in Nat
  BY BoundsAssumption, QueuedType DEF TypeOK
<1>3. CASE ClientStep
  <2>1. CASE Connect \/ ConnectReturns \/ ConnectTimesOut \/ FlushDrains
             \/ FlushTimesOut \/ Subscribe
    BY <1>1, <2>1 DEF TypeOK, Connect, ConnectReturns, ConnectTimesOut, FlushDrains,
       FlushTimesOut, Subscribe, Finish, loopVars, linkVars, history
  <2>2. CASE RequestDisconnect
    BY <2>2, RequestQueues DEF TypeOK, RequestDisconnect, loopVars, history
  <2>3. CASE RequestRefused \/ RequestTimesOut \/ SeesDisconnected \/ WaitTimesOut
    BY <2>3 DEF TypeOK, RequestRefused, RequestTimesOut, SeesDisconnected, WaitTimesOut,
       ShutdownReturns, ShutdownOutcome, Finish, linkVars, history
  <2> QED BY <1>3, <2>1, <2>2, <2>3 DEF ClientStep
<1>4. ASSUME NEW type \in MessageTypes, Publish(type)
      PROVE  TypeOK'
  <2>1. /\ pubs' = pubs + 1 /\ pubs < MaxPubs
        /\ UNCHANGED <<clientVars, loopVars, link, inflight, events, acked, written,
                       greeted, stray, told>>
        /\ IF WireOptions(role, type).tracked
           THEN st' = CountPublish(st) /\ tracked1' = tracked1 + 1
           ELSE UNCHANGED <<st, tracked1>>
    BY <1>4 DEF Publish
  <2>2. chan' \in Seq(Requests) /\ Len(chan') <= Capacity
    BY <1>4, PublishQueues
  <2>3. st' \in States
    BY <1>1, <2>1 DEF TypeOK
  <2>4. pubs' \in 0 .. MaxPubs /\ tracked1' \in 0 .. MaxPubs
    BY <1>2, <2>1 DEF TypeOK, OwedInv
  <2> QED BY <2>1, <2>2, <2>3, <2>4 DEF TypeOK, clientVars, loopVars
<1>5. CASE Flush \/ Shutdown \/ DropClient \/ CancelConnect \/ ConnectRefused
  BY <1>1, <1>5 DEF TypeOK, Flush, Shutdown, DropClient, CancelConnect, ConnectRefused, Finish,
     clientVars, loopVars, linkVars, history
<1>6. CASE TimerFires
  BY <1>6 DEF TypeOK, TimerFires, loopVars, linkVars, history
<1>7. CASE Poll
  <2>1. /\ lpc' = "tracker"
        /\ UNCHANGED <<clientVars, aborting, ready, health, st, pubs, tracked1,
                       greeted, stray, told>>
        /\ event' \in Events
        /\ link' \in {"down", "up", "closing"}
        /\ written' \in BOOLEAN
    BY <1>7 DEF Poll, ConnectsAgain, AttemptFails, LinkBreaks, BrokerDisconnects,
       WritesRequest, BrokerAcks, Polled, Events, TypeOK, history
  <2>2. events' \in 0 .. MaxEvents
    BY <1>2, <1>7 DEF Poll, ConnectsAgain, AttemptFails, LinkBreaks, BrokerDisconnects,
       WritesRequest, BrokerAcks, LinkEvent, TypeOK
  <2>3. chan' \in Seq(Requests) /\ Len(chan') <= Capacity
    <3>1. CASE LinkBreaks
      BY <3>1, BreakClears, BoundsAssumption
    <3>2. CASE WritesRequest
      BY <3>2, WriteDequeues
    <3>3. CASE chan' = chan
      BY <3>3 DEF TypeOK
    <3> QED BY <1>7, <3>1, <3>2, <3>3 DEF Poll, ConnectsAgain, AttemptFails,
            BrokerDisconnects, BrokerAcks
  <2>4. inflight' \in Nat /\ acked' \in 0 .. MaxPubs
    BY <1>2, <1>7 DEF Poll, ConnectsAgain, AttemptFails, LinkBreaks, BrokerDisconnects,
       WritesRequest, BrokerAcks, OwedInv, TypeOK, history
  <2> QED BY <2>1, <2>2, <2>3, <2>4 DEF TypeOK, clientVars
<1>8. CASE LoopStep \/ LoopDies
  <2>1. CASE ApplyEvent
    BY <1>1, <2>1 DEF TypeOK, ApplyEvent, clientVars, linkVars
  <2>2. CASE ApplyHealth
    BY <2>2 DEF TypeOK, ApplyHealth, NextHealth, clientVars, linkVars
  <2>3. CASE React
    BY <2>3 DEF TypeOK, React, Events, clientVars, linkVars, history
  <2>4. CASE BackoffEnds \/ AbortTakesEffect \/ LoopDies
    BY <2>4 DEF TypeOK, BackoffEnds, AbortTakesEffect, LoopDies, clientVars, linkVars,
       history
  <2> QED BY <1>8, <2>1, <2>2, <2>3, <2>4 DEF LoopStep
<1>9. CASE UNCHANGED vars
  BY <1>9 DEF TypeOK, vars, clientVars, loopVars, linkVars, history
<1> QED BY <1>3, <1>4, <1>5, <1>6, <1>7, <1>8, <1>9 DEF Next, CallerStep

\* The event in hand follows the link.
LEMMA EventStep ==
    ASSUME TypeOK, EventInv, [Next]_vars
    PROVE  EventInv'
<1>1. CASE UNCHANGED <<lpc, event, link, inflight>>
  BY <1>1 DEF EventInv
<1>2. CASE Connect \/ LoopStep \/ LoopDies
  BY <1>2 DEF EventInv, Connect, LoopStep, ApplyEvent, ApplyHealth, React, BackoffEnds,
     AbortTakesEffect, LoopDies, linkVars
<1>3. CASE Poll
  BY <1>3 DEF EventInv, Poll, ConnectsAgain, AttemptFails, LinkBreaks,
     BrokerDisconnects, WritesRequest, BrokerAcks, Polled, TypeOK
<1> QED BY <1>1, <1>2, <1>3, LoopFrame

\* What the watch channel holds follows the events.
LEMMA HealthStep ==
    ASSUME TypeOK, EventInv, HealthInv, ReadyInv, [Next]_vars
    PROVE  HealthInv'
<1>1. CASE UNCHANGED <<lpc, event, link, health>>
  BY <1>1 DEF HealthInv
<1>2. CASE Connect
  BY <1>2 DEF HealthInv, ReadyInv, Connect, linkVars
<1>3. CASE LoopStep \/ LoopDies
  BY <1>3 DEF HealthInv, EventInv, LoopStep, ApplyEvent, ApplyHealth, NextHealth, React,
     BackoffEnds, AbortTakesEffect, LoopDies, linkVars, TypeOK, Events
<1>4. CASE Poll
  BY <1>4 DEF HealthInv, Poll, ConnectsAgain, AttemptFails, LinkBreaks,
     BrokerDisconnects, WritesRequest, BrokerAcks, Polled
<1> QED BY <1>1, <1>2, <1>3, <1>4, LoopFrame

\* connect waits for a ConnAck, and a loop that is gone does not come back.
LEMMA ReadyStep ==
    ASSUME TypeOK, ReadyInv, [Next]_vars
    PROVE  ReadyInv'
<1>1. CASE ClientStep \/ TimerFires
  BY <1>1 DEF ReadyInv, ClientStep, Connect, ConnectReturns, ConnectTimesOut, FlushDrains,
     FlushTimesOut, Subscribe, RequestDisconnect, RequestRefused, RequestTimesOut,
     SeesDisconnected, WaitTimesOut, ShutdownReturns, Finish, TimerFires, loopVars,
     history
<1>2. CASE CallerStep
  <2>1. ASSUME NEW type \in MessageTypes, Publish(type)
        PROVE  UNCHANGED <<lpc, event, ready, greeted, cpc>>
    BY <2>1 DEF Publish, clientVars, loopVars
  <2>2. CASE Flush \/ Shutdown \/ DropClient \/ CancelConnect \/ ConnectRefused
    BY <2>2 DEF ReadyInv, Flush, Shutdown, DropClient, CancelConnect, ConnectRefused, Finish,
       clientVars, loopVars, history
  <2> QED BY <1>2, <2>1, <2>2 DEF CallerStep, ReadyInv
<1>3. CASE Poll
  <2>1. /\ lpc = "poll" /\ lpc' = "tracker" /\ UNCHANGED <<cpc, ready, greeted>>
    BY <1>3 DEF Poll, ConnectsAgain, AttemptFails, LinkBreaks, BrokerDisconnects,
       WritesRequest, BrokerAcks, Polled, clientVars, history
  <2> QED BY <2>1 DEF ReadyInv
<1>4. CASE LoopStep \/ LoopDies
  BY <1>4 DEF ReadyInv, LoopStep, ApplyEvent, ApplyHealth, React, FiresReady,
     BackoffEnds, AbortTakesEffect, LoopDies, clientVars, history, TypeOK
<1>5. CASE UNCHANGED vars
  BY <1>5 DEF ReadyInv, vars, clientVars, loopVars, history
<1> QED BY <1>1, <1>2, <1>3, <1>4, <1>5 DEF Next

\* What the tracker counts follows what the broker owes.
LEMMA CountStep ==
    ASSUME TypeOK, EventInv, ReadyInv, OwedInv, CountInv, [Next]_vars
    PROVE  CountInv'
<1> DEFINE Sums == /\ QueuedQos1 \in Nat /\ inflight \in Nat
                   /\ acked \in Nat /\ tracked1 \in Nat /\ st \in States
                   /\ st.unacked \in Nat /\ st.lost \in Nat /\ st.reported \in Nat
<1>1. Sums
  BY QueuedType, BoundsAssumption DEF TypeOK, States
<1>2. ASSUME NEW type \in MessageTypes, Publish(type)
      PROVE  CountInv'
  <2>1. /\ UNCHANGED <<lpc, event, stray, told, inflight, acked>>
        /\ IF WireOptions(role, type).tracked
           THEN st' = CountPublish(st) /\ tracked1' = tracked1 + 1
           ELSE UNCHANGED <<st, tracked1>>
    BY <1>2 DEF Publish, loopVars
  <2>2. AckInHand' = AckInHand /\ AckInHand \in Nat
    BY <2>1 DEF AckInHand
  <2>3. CASE WireOptions(role, type).tracked
    <3>1. /\ st'.unacked = st.unacked + 1 /\ st'.lost = st.lost
          /\ st'.reported = st.reported
      BY <1>1, <2>1, <2>3, Fields
    <3>2. QueuedQos1' = QueuedQos1 + 1
      BY <1>2, <2>3, PublishQueues
    <3> QED BY <1>1, <2>1, <2>2, <2>3, <3>1, <3>2 DEF CountInv
  <2>4. CASE ~WireOptions(role, type).tracked
    <3>1. QueuedQos1' = QueuedQos1 /\ UNCHANGED <<st, tracked1>>
      BY <1>2, <2>1, <2>4, PublishQueues
    <3> QED BY <1>1, <2>1, <2>2, <3>1 DEF CountInv
  <2> QED BY <1>2, <2>3, <2>4, PublishQueues
<1>3. CASE RequestDisconnect
  <2>1. QueuedQos1' = QueuedQos1
    BY <1>3, RequestQueues
  <2> QED BY <1>3, <2>1 DEF CountInv, AckInHand, RequestDisconnect, loopVars, history
<1>4. CASE Flush \/ FlushDrains
  <2>1. /\ UNCHANGED <<lpc, event, stray, chan, inflight, tracked1, acked>>
        /\ st' = ReportLost(st) /\ told' = (told \/ st.lost > 0)
    BY <1>4 DEF Flush, FlushDrains, loopVars, linkVars
  <2>2. AckInHand' = AckInHand /\ AckInHand \in Nat /\ QueuedQos1' = QueuedQos1
    BY <2>1 DEF AckInHand, QueuedQos1
  <2>3. /\ st'.unacked = st.unacked /\ st'.lost = 0
        /\ st'.reported = st.reported + st.lost
    BY <1>1, <2>1, Fields
  <2>4. ~told' => ~told /\ st.lost = 0
    <3>1. st.lost # 0 => st.lost > 0
      BY <1>1
    <3> QED BY <2>1, <3>1, Zenon
  <2> QED BY <1>1, <2>1, <2>2, <2>3, <2>4 DEF CountInv
<1>5. CASE Poll
  <2>1. /\ lpc = "poll" /\ lpc' = "tracker" /\ UNCHANGED <<st, stray, told, tracked1>>
    BY <1>5 DEF Poll, ConnectsAgain, AttemptFails, LinkBreaks, BrokerDisconnects,
       WritesRequest, BrokerAcks, Polled, history
  <2>2. CASE ConnectsAgain \/ AttemptFails \/ LinkBreaks \/ BrokerDisconnects
    <3>1. /\ acked' = acked /\ event' \in {"connack", "err", "indisc"}
          /\ event' = "connack" => UNCHANGED <<chan, inflight>>
      BY <2>2 DEF ConnectsAgain, AttemptFails, LinkBreaks, BrokerDisconnects, Polled,
         history
    <3>2. event' = "connack" => QueuedQos1' = QueuedQos1
      BY <3>1 DEF QueuedQos1
    <3> QED BY <1>1, <2>1, <3>1, <3>2 DEF CountInv, AckInHand
  <2>3. CASE WritesRequest
    <3>1. acked' = acked /\ event' \in {"outdisc", "other"}
      BY <2>3 DEF WritesRequest, Polled
    <3>2. /\ QueuedQos1' \in Nat /\ inflight' \in Nat
          /\ inflight' + QueuedQos1' = inflight + QueuedQos1
      BY <2>3, WriteDequeues
    <3> QED BY <1>1, <2>1, <3>1, <3>2 DEF CountInv, AckInHand
  <2>4. CASE BrokerAcks
    <3>1. /\ acked' = acked + 1 /\ event' = "puback" /\ chan' = chan
          /\ inflight > 0 /\ inflight' = inflight - 1
      BY <2>4 DEF BrokerAcks, Polled
    <3>2. QueuedQos1' = QueuedQos1
      BY <3>1 DEF QueuedQos1
    <3> QED BY <1>1, <2>1, <3>1, <3>2 DEF CountInv, AckInHand
  <2> QED BY <1>5, <2>2, <2>3, <2>4 DEF Poll
<1>6. CASE ApplyEvent
  <2>1. /\ lpc = "tracker" /\ lpc' = "health"
        /\ UNCHANGED <<event, chan, inflight, tracked1, acked, told>>
        /\ st' = CASE event = "puback" -> ReleaseOne(st)
                   [] event \in {"indisc", "err"} -> LoseOutstanding(st)
                   [] OTHER -> st
        /\ stray' = (stray \/ (event \in {"indisc", "err"} /\ QueuedQos1 > 0))
    BY <1>6 DEF ApplyEvent, linkVars
  <2>2. AckInHand' = 0 /\ QueuedQos1' = QueuedQos1
    BY <2>1 DEF AckInHand, QueuedQos1
  <2>3. CASE event = "puback"
    <3>1. /\ st'.unacked = IF st.unacked = 0 THEN 0 ELSE st.unacked - 1
          /\ st'.lost = st.lost /\ st'.reported = st.reported
      BY <1>1, <2>1, <2>3, Fields
    <3>2. AckInHand = 1 /\ stray' = stray
      BY <2>1, <2>3 DEF AckInHand, TypeOK
    <3> QED BY <1>1, <2>1, <2>2, <2>3, <3>1, <3>2 DEF CountInv
  <2>4. CASE event \in {"indisc", "err"}
    <3>1. /\ st'.unacked = 0 /\ st'.lost = st.lost + st.unacked
          /\ st'.reported = st.reported
      BY <1>1, <2>1, <2>4, Fields
    <3>2. AckInHand = 0 /\ inflight = 0
      BY <2>1, <2>4 DEF AckInHand, EventInv
    <3>3. ~stray' => ~stray /\ QueuedQos1 = 0
      <4>1. QueuedQos1 # 0 => QueuedQos1 > 0
        BY <1>1
      <4> QED BY <2>1, <2>4, <4>1, Zenon
    <3> QED BY <1>1, <2>1, <2>2, <2>4, <3>1, <3>2, <3>3 DEF CountInv
  <2>5. CASE event \notin {"puback", "indisc", "err"}
    <3>1. st' = st /\ stray' = stray /\ AckInHand = 0
      BY <2>1, <2>5 DEF AckInHand, TypeOK
    <3> QED BY <1>1, <2>1, <2>2, <2>5, <3>1 DEF CountInv
  <2> QED BY <2>3, <2>4, <2>5
<1>7. CASE /\ lpc # "tracker" /\ lpc' # "tracker"
           /\ UNCHANGED <<st, chan, inflight, tracked1, acked, stray, told>>
  <2>1. AckInHand' = 0 /\ AckInHand = 0 /\ QueuedQos1' = QueuedQos1
    BY <1>7 DEF AckInHand, QueuedQos1
  <2> QED BY <1>1, <1>7, <2>1 DEF CountInv
<1>8. CASE UNCHANGED <<lpc, event, st, chan, inflight, tracked1, acked, stray, told>>
  <2>1. AckInHand' = AckInHand /\ QueuedQos1' = QueuedQos1
    BY <1>8 DEF AckInHand, QueuedQos1
  <2> QED BY <1>8, <2>1 DEF CountInv
<1>9. CASE ClientStep \/ CallerStep
  <2>1. CASE ConnectReturns \/ ConnectTimesOut \/ FlushTimesOut \/ Subscribe
             \/ RequestRefused \/ RequestTimesOut \/ SeesDisconnected \/ WaitTimesOut
    BY <1>8, <2>1 DEF ConnectReturns, ConnectTimesOut, FlushTimesOut, Subscribe,
       RequestRefused, RequestTimesOut, SeesDisconnected, WaitTimesOut,
       ShutdownReturns, Finish, loopVars, linkVars, history
  <2>2. CASE Shutdown \/ DropClient \/ CancelConnect \/ ConnectRefused
    BY <1>8, <2>2 DEF Shutdown, DropClient, CancelConnect, ConnectRefused, Finish, loopVars, linkVars,
       history
  <2>3. CASE Connect
    <3>1. UNCHANGED <<event, st, chan, inflight, tracked1, acked, stray, told>>
      BY <2>3 DEF Connect, linkVars, history
    <3>2. lpc # "tracker" /\ lpc' # "tracker"
      BY <2>3 DEF Connect, ReadyInv
    <3> QED BY <1>7, <3>1, <3>2
  <2> QED BY <1>2, <1>3, <1>4, <1>9, <2>1, <2>2, <2>3 DEF ClientStep, CallerStep
<1>10. CASE ApplyHealth \/ React \/ BackoffEnds \/ AbortTakesEffect \/ LoopDies
  BY <1>7, <1>10 DEF ApplyHealth, React, BackoffEnds, AbortTakesEffect, LoopDies,
     linkVars, history
<1>11. CASE TimerFires
  BY <1>8, <1>11 DEF TimerFires, loopVars, linkVars, history
<1>12. CASE UNCHANGED vars
  BY <1>8, <1>12 DEF vars, loopVars, linkVars, history
<1> QED BY <1>5, <1>6, <1>9, <1>10, <1>11, <1>12 DEF Next, LoopStep

\* What shutdown concludes stays true until it returns, and after.
LEMMA VerdictStep ==
    ASSUME TypeOK, OwedInv, CountInv, VerdictInv, [Next]_vars
    PROVE  VerdictInv'
<1>1. /\ QueuedQos1 \in Nat /\ inflight \in Nat
      /\ acked \in Nat /\ tracked1 \in Nat
      /\ st.unacked \in Nat /\ st.lost \in Nat /\ st.reported \in Nat
  BY QueuedType, BoundsAssumption DEF TypeOK, States
<1>2. CASE UNCHANGED <<cpc, flushed, outcome, acked, tracked1, told>> /\ (stray => stray')
  BY <1>2 DEF VerdictInv
<1>3. ASSUME NEW type \in MessageTypes, Publish(type)
      PROVE  VerdictInv'
  <2>1. cpc = "open" /\ UNCHANGED <<cpc, flushed, outcome>>
    BY <1>3 DEF Publish, clientVars
  <2> QED BY <2>1 DEF VerdictInv
<1>4. CASE Flush
  BY <1>4 DEF VerdictInv, Flush, clientVars
<1>5. CASE FlushDrains
  <2>1. /\ cpc = "flush" /\ cpc' = "subscribe" /\ st.unacked = 0
        /\ flushed' = IF st.lost = 0 THEN "ok" ELSE "lost"
        /\ told' = (told \/ st.lost > 0)
        /\ UNCHANGED <<outcome, acked, tracked1, stray>>
    BY <1>5 DEF FlushDrains, history
  <2>2. ASSUME flushed' = "ok", ~told', ~stray'
        PROVE  acked' = tracked1'
    <3>1. ~told /\ ~stray
      BY <2>1, <2>2, Zenon
    <3>2. st.lost = 0 /\ st.reported = 0
      BY <2>1, <2>2, <3>1 DEF CountInv
    <3>3. tracked1 + AckInHand = acked /\ AckInHand \in Nat
      BY <1>1, <2>1, <3>1, <3>2 DEF CountInv, AckInHand
    <3> QED BY <1>1, <2>1, <3>3 DEF OwedInv
  <2> QED BY <2>1, <2>2 DEF VerdictInv
<1>6. CASE FlushTimesOut
  BY <1>6 DEF VerdictInv, FlushTimesOut, history
<1>7. CASE \/ Connect \/ ConnectReturns \/ Subscribe \/ RequestDisconnect
           \/ ConnectTimesOut
  BY <1>7 DEF VerdictInv, Connect, ConnectReturns, Subscribe, RequestDisconnect,
     ConnectTimesOut, Finish, history
<1>8. CASE RequestRefused \/ RequestTimesOut \/ SeesDisconnected \/ WaitTimesOut
  <2>1. /\ cpc \in {"request", "wait"} /\ cpc' = "done"
        /\ UNCHANGED <<flushed, acked, tracked1, told, stray>>
    BY <1>8 DEF RequestRefused, RequestTimesOut, SeesDisconnected, WaitTimesOut,
       ShutdownReturns, Finish, history
  <2>2. outcome' \in {"ok", "shutdownTimeout", "refused"}
           => flushed \notin {"lost", "timeout"}
    <3>1. \E d \in {"Written", "Refused", "Unconfirmed"} : outcome' = ShutdownOutcome(d)
      BY <1>8 DEF RequestRefused, RequestTimesOut, SeesDisconnected, WaitTimesOut,
         ShutdownReturns, Finish
    <3>2. \A d \in {"Written", "Refused", "Unconfirmed"} :
             /\ flushed = "lost" => ShutdownOutcome(d) = "lost"
             /\ flushed = "timeout" => ShutdownOutcome(d) = "flushTimeout"
      BY DEF ShutdownOutcome
    <3> QED BY <3>1, <3>2
  <2> QED BY <2>1, <2>2 DEF VerdictInv, TypeOK
<1>9. CASE Shutdown \/ DropClient \/ CancelConnect \/ ConnectRefused
  BY <1>9 DEF VerdictInv, Shutdown, DropClient, CancelConnect, ConnectRefused, Finish, history
<1>10. CASE TimerFires
  BY <1>2, <1>10 DEF TimerFires, history
<1>11. CASE Poll
  <2>1. CASE BrokerAcks
    <3>1. /\ inflight > 0 /\ acked' = acked + 1
          /\ UNCHANGED <<cpc, flushed, outcome, tracked1, told, stray>>
      BY <2>1 DEF BrokerAcks, Polled, clientVars
    <3>2. acked # tracked1
      BY <1>1, <3>1 DEF OwedInv
    <3> QED BY <3>1, <3>2 DEF VerdictInv
  <2>2. CASE ConnectsAgain \/ AttemptFails \/ LinkBreaks \/ BrokerDisconnects
             \/ WritesRequest
    BY <1>2, <2>2 DEF ConnectsAgain, AttemptFails, LinkBreaks, BrokerDisconnects,
       WritesRequest, Polled, clientVars, history
  <2> QED BY <1>11, <2>1, <2>2 DEF Poll
<1>12. CASE LoopStep \/ LoopDies
  <2>1. UNCHANGED <<cpc, flushed, outcome, acked, tracked1, told>>
    BY <1>12 DEF LoopStep, ApplyEvent, ApplyHealth, React, BackoffEnds,
       AbortTakesEffect, LoopDies, clientVars, history
  <2>2. stray => stray'
    <3>1. CASE ApplyEvent
      BY <3>1, Zenon DEF ApplyEvent
    <3>2. CASE ApplyHealth \/ React \/ BackoffEnds \/ AbortTakesEffect \/ LoopDies
      BY <3>2 DEF ApplyHealth, React, BackoffEnds, AbortTakesEffect, LoopDies, history
    <3> QED BY <1>12, <3>1, <3>2 DEF LoopStep
  <2> QED BY <1>2, <2>1, <2>2
<1>13. CASE UNCHANGED vars
  BY <1>2, <1>13 DEF vars, clientVars, history
<1> QED BY <1>3, <1>4, <1>5, <1>6, <1>7, <1>8, <1>9, <1>10, <1>11, <1>12, <1>13
        DEF Next, ClientStep, CallerStep

\* A client that is about to connect satisfies the invariant.
LEMMA InitOK == Init => IInv
<1> SUFFICES ASSUME Init
             PROVE  IInv
  OBVIOUS
<1>1. QueuedQos1 = 0 /\ chan \in Seq(Requests) /\ Len(chan) = 0
  <2>1. chan = <<>>
    BY DEF Init
  <2>2. QueuedQos1 = Cardinality(Qos1At(<<>>))
    BY <2>1 DEF QueuedQos1, Qos1At
  <2> QED BY <2>1, <2>2, QueueType
<1>2. TypeOK
  <2>1. Len(chan) <= Capacity
    BY <1>1, BoundsAssumption
  <2>2. /\ 0 \in 0 .. MaxEvents /\ 0 \in 0 .. MaxPubs
        /\ st \in States
    BY NothingIsAState, BoundsAssumption DEF Init
  <2> QED BY <1>1, <2>1, <2>2 DEF Init, TypeOK, Events
<1>3. EventInv /\ HealthInv /\ ReadyInv /\ VerdictInv
  BY DEF Init, EventInv, HealthInv, ReadyInv, VerdictInv
<1>4. OwedInv
  BY <1>1 DEF Init, OwedInv
<1>5. CountInv
  BY <1>1, NothingIsAState DEF Init, CountInv, AckInHand
<1> QED BY <1>2, <1>3, <1>4, <1>5 DEF IInv

\* The inductive invariant holds in every state.
LEMMA Invariance == Spec => []IInv
<1>1. IInv /\ [Next]_vars => IInv'
  BY TypeStep, EventStep, HealthStep, ReadyStep, OwedStep, CountStep, VerdictStep
     DEF IInv
<1> QED BY <1>1, InitOK, PTL DEF Spec

----------------------------------------------------------------------------
(* The theorems.                                                           *)

\* Every variable of a client keeps its type. The number of acknowledged
\* publishes stays within those made only because no answer comes twice.
THEOREM TypeCorrect == Spec => []TypeOK
<1>1. IInv => TypeOK
  BY DEF IInv
<1> QED BY <1>1, Invariance, PTL

\* A shutdown that reports no failed flush left no tracked publish unanswered,
\* whatever the link did and whenever its deadline came (error.rs:69, "every
\* publish reached the broker"). For a publisher that is every publish.
THEOREM ShutdownDelivers == Spec => []ShutdownMeansDelivered
<1>1. ASSUME IInv
      PROVE  ShutdownMeansDelivered
  <2>1. /\ tracked1 \in Nat /\ pubs \in Nat
        /\ outcome \in {"ok", "shutdownTimeout", "refused"} => flushed = "ok"
        /\ (flushed = "ok" /\ ~told /\ ~stray) => acked = tracked1
        /\ role = "Publisher" => tracked1 = pubs
    BY <1>1, BoundsAssumption DEF IInv, TypeOK, OwedInv, VerdictInv
  <2> QED BY <2>1 DEF ShutdownMeansDelivered
<1> QED BY <1>1, Invariance, PTL

\* Between two events the tracker counts exactly the QoS 1 messages that the
\* broker still has to answer, in the channel or in flight.
THEOREM CountIsWhatIsOwed == Spec => []CountMatchesTheLink
<1>1. ASSUME IInv
      PROVE  CountMatchesTheLink
  <2>1. /\ QueuedQos1 \in Nat /\ inflight \in Nat
        /\ lpc # "tracker" => AckInHand = 0
        /\ ~stray => \/ lpc = "tracker"
                     \/ st.unacked = inflight + QueuedQos1 + AckInHand
    BY <1>1, QueuedType DEF IInv, TypeOK, CountInv, AckInHand
  <2> QED BY <2>1 DEF CountMatchesTheLink
<1> QED BY <1>1, Invariance, PTL

\* Between two events health does not claim a connection that is gone.
THEOREM HealthIsTrue == Spec => []HealthFollowsTheLink
<1>1. IInv => HealthFollowsTheLink
  BY DEF IInv, HealthInv, HealthFollowsTheLink
<1> QED BY <1>1, Invariance, PTL

\* connect hands out a client only after a ConnAck was applied, or after the
\* loop died.
THEOREM NoClientBeforeAConnAck == Spec => []OpenMeansGreeted
<1>1. IInv => OpenMeansGreeted
  BY DEF IInv, ReadyInv, OpenMeansGreeted
<1> QED BY <1>1, Invariance, PTL

=============================================================================
