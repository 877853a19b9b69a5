---------------------------- MODULE ClientProofs ----------------------------
(***************************************************************************)
(* Proofs about SparkplugClient, for any finite set of publishing tasks,   *)
(* any edge nodes and flushing tasks, any size of the channel and of the   *)
(* flight.                                                                 *)
(*                                                                         *)
(* Every step of the client is a step of SeqGate and a step of             *)
(* DeliveryTracker, or leaves them alone. So what is proved of each of     *)
(* them alone holds of them together.                                      *)
(***************************************************************************)
EXTENDS SparkplugClient, FiniteSetTheorems, SequenceTheorems, TLAPS

GP == INSTANCE SeqGateRefinement WITH
         Tasks <- Pubs, NoTask <- NoPub, OwnNode <- NoNode, queued <- Len(chan)
TP == INSTANCE DeliveryProofs WITH Survives <- TRUE

----------------------------------------------------------------------------
(* The two components, as the client and as their proofs name them.        *)

\* The gate that the client composes is the one that SeqGateProofs is about.
LEMMA SameGate ==
    (G!Init <=> GP!Init) /\ ([G!Next]_(G!vars) <=> [GP!Next]_(GP!vars))
BY DEF G!Init, GP!Init, G!Next, GP!Next, G!vars, GP!vars,
   G!NoCall, GP!NoCall, G!NoMsg, GP!NoMsg, G!Kinds, GP!Kinds, G!Call, GP!Call,
   G!TaskStep, GP!TaskStep, G!Reserve, GP!Reserve, G!Step, GP!Step,
   G!GateFree, GP!GateFree, G!SendWithRoom, GP!SendWithRoom,
   G!SendFindsFull, GP!SendFindsFull, G!Refused, GP!Refused, G!Resume, GP!Resume,
   G!Took, GP!Took, G!Continue, GP!Continue, G!MoreToSend, GP!MoreToSend,
   G!NextMessage, GP!NextMessage, G!CommitAndDrop, GP!CommitAndDrop,
   G!EndCall, GP!EndCall, G!Node, GP!Node, G!Successor, GP!Successor,
   G!DropUncommitted, GP!DropUncommitted, G!CutLast, GP!CutLast,
   G!Cancel, GP!Cancel, G!CancelAtGate, GP!CancelAtGate,
   G!CancelWaiting, GP!CancelWaiting, G!CancelTaken, GP!CancelTaken,
   G!Pull, GP!Pull, G!Drain, GP!Drain, G!Discard, GP!Discard, G!Close, GP!Close

\* The tracker that the client composes is the one that DeliveryProofs is about.
LEMMA SameTracker ==
    (T!Init <=> TP!Init) /\ ([T!Next]_(T!vars) <=> [TP!Next]_(TP!vars))
BY DEF T!Init, TP!Init, T!Next, TP!Next, T!vars, TP!vars,
   T!NothingOutstanding, TP!NothingOutstanding, T!NoResult, TP!NoResult,
   T!Outstanding, TP!Outstanding, T!PublishStep, TP!PublishStep, T!Count, TP!Count,
   T!CountPublish, TP!CountPublish, T!Take, TP!Take, T!Keep, TP!Keep,
   T!Fail, TP!Fail, T!CancelTaken, TP!CancelTaken, T!Release, TP!Release,
   T!RollBack, TP!RollBack, T!TicketIsCurrent, TP!TicketIsCurrent,
   T!ReleaseOne, TP!ReleaseOne, T!Again, TP!Again, T!LoopStep, TP!LoopStep,
   T!Ack, TP!Ack, T!Disconnect, TP!Disconnect, T!LoopFree, TP!LoopFree,
   T!LoseOutstanding, TP!LoseOutstanding, T!NotifyWaiters, TP!NotifyWaiters,
   T!WakeAll, TP!WakeAll, T!FlushStep, TP!FlushStep, T!Open, TP!Open,
   T!Register, TP!Register, T!Check, TP!Check, T!Wake, TP!Wake, T!Return, TP!Return,
   T!Report, TP!Report, T!ReportLost, TP!ReportLost, T!Timeout, TP!Timeout,
   T!CancelFlush, TP!CancelFlush, T!tracker, TP!tracker, T!publishes, TP!publishes,
   T!flushes, TP!flushes, T!history, TP!history

\* Both count with the same Cardinality.
LEMMA SameCardinality == \A S : TP!Cardinality(S) = Cardinality(S)
BY DEF TP!Cardinality, Cardinality, TP!IsFiniteSet, IsFiniteSet

\* What the proofs about the gate assume of its constants, the client assumes.
LEMMA GateAssumptions ==
    /\ GP!SeqModAssumption /\ GP!CapacityAssumption /\ GP!MaxWireAssumption
    /\ GP!NoTaskAssumption /\ GP!NoNodeAssumption /\ GP!OwnNodeAssumption
    /\ GP!CancelWindowAssumption
BY PubsAssumption, NoNodeAssumption, SeqModAssumption, CapacityAssumption,
   CancelWindowAssumption, BoundsAssumption
   DEF GP!SeqModAssumption, GP!CapacityAssumption, GP!MaxWireAssumption,
   GP!NoTaskAssumption, GP!NoNodeAssumption, GP!OwnNodeAssumption,
   GP!CancelWindowAssumption

\* The same of the tracker.
LEMMA TrackerAssumptions ==
    /\ TP!PubsAssumption /\ TP!LoopAssumption /\ TP!SwitchAssumption
    /\ TP!MaxDisconnectsAssumption
<1>1. TP!PubsAssumption
  BY PubsAssumption DEF TP!PubsAssumption, IsFiniteSet, TP!IsFiniteSet
<1>3. TP!LoopAssumption /\ TP!MaxDisconnectsAssumption
  BY PubsAssumption, BoundsAssumption DEF TP!LoopAssumption, TP!MaxDisconnectsAssumption
<1>2. TP!SwitchAssumption
  BY CancelWindowAssumption, Zenon DEF TP!SwitchAssumption
<1> QED BY <1>1, <1>2, <1>3

----------------------------------------------------------------------------
(* The gate.                                                               *)

\* Each step of the client is a step of the gate, or none.
LEMMA GateStep == [Next]_vars => [G!Next]_(G!vars)
<1> SUFFICES ASSUME [Next]_vars
             PROVE  G!Next \/ UNCHANGED G!vars
  OBVIOUS
<1>1. ASSUME UNCHANGED <<gateVars, chan>>
      PROVE  UNCHANGED G!vars
  BY <1>1 DEF gateVars, G!vars
<1>2. ASSUME NEW p \in Pubs, PublishStep(p)
      PROVE  G!Next \/ UNCHANGED G!vars
  <2>1. ASSUME NEW n \in EdgeNodes, NEW k \in {"data", "nbirth"}, Call(p, n, k)
        PROVE  G!Next
    <3>1. G!Call(p, n, k) /\ k \in G!Kinds
      BY <2>1 DEF Call, G!Kinds
    <3> QED BY <3>1 DEF G!Next
  <2>2. CASE Count(p) \/ Keep(p)
    BY <1>1, <2>2 DEF Count, Keep, linkVars
  <2>3. CASE Reserve(p) \/ SendWithRoom(p) \/ SendFindsFull(p) \/ Refused(p) \/ Resume(p)
    <3>1. G!TaskStep(p)
      BY <2>3 DEF Reserve, SendWithRoom, SendFindsFull, Refused, Resume, G!TaskStep
    <3> QED BY <3>1 DEF G!Next
  <2>4. CASE CancelAtGate(p) \/ CancelWaiting(p) \/ CancelTaken(p)
    <3>1. G!Cancel(p)
      BY <2>4 DEF CancelAtGate, CancelWaiting, CancelTaken, G!Cancel
    <3> QED BY <3>1 DEF G!Next
  <2> QED BY <1>2, <2>1, <2>2, <2>3, <2>4 DEF PublishStep
<1>3. CASE LoopStep
  <2>1. CASE ConnectsAgain \/ AttemptFails \/ BrokerDisconnects \/ ApplyDown
    BY <1>1, <2>1 DEF ConnectsAgain, AttemptFails, BrokerDisconnects, ApplyDown
  <2>2. CASE LinkBreaks
    <3>1. CASE chan = <<>>
      BY <1>1, <2>2, <3>1 DEF LinkBreaks
    <3>2. CASE chan # <<>>
      BY <2>2, <3>2 DEF LinkBreaks, G!Next
    <3> QED BY <3>1, <3>2
  <2>3. CASE WritesRequest \/ LoopDies
    BY <2>3 DEF WritesRequest, LoopDies, G!Next
  <2>4. ASSUME NEW p \in Pubs, WritesAndPulls(p) \/ Pulls(p)
        PROVE  G!Next
    BY <2>4 DEF WritesAndPulls, Pulls, G!Next
  <2>5. ASSUME NEW e \in inflight, Ack(e)
        PROVE  UNCHANGED G!vars
    BY <1>1, <2>5 DEF Ack
  <2> QED BY <1>3, <2>1, <2>2, <2>3, <2>4, <2>5 DEF LoopStep
<1>4. CASE FlushStep \/ UNCHANGED vars
  BY <1>1, <1>4 DEF FlushStep, vars, linkVars
<1> QED BY <1>2, <1>3, <1>4 DEF Next

\* The client uses the gates as SeqGate says: whatever the link, the loop, the
\* callers and the tracker do, its publishes are a behaviour of SeqGate.
THEOREM ClientFollowsTheGate == Spec => G!Spec
<1>1. Init => G!Init
  BY DEF Init
<1> QED BY <1>1, GateStep, PTL DEF Spec, G!Spec

\* So what is proved of the gate alone holds in the client.
LEMMA GateInvariant == Spec => []GP!IInv
<1>1. (G!Init => GP!Init) /\ ([G!Next]_(G!vars) => [GP!Next]_(GP!vars))
  BY SameGate
<1>2. GP!Spec => []GP!IInv
  BY GP!Invariance, GateAssumptions
<1> QED BY <1>1, <1>2, ClientFollowsTheGate, PTL DEF G!Spec, GP!Spec

\* What the proofs below need to know of the gate.
LEMMA GateFacts ==
    ASSUME GP!IInv
    PROVE  /\ G!TypeOK
           /\ wire \in [EdgeNodes -> Seq(G!Taken)]
           /\ \A n \in EdgeNodes : Len(wire[n]) \in Nat
           /\ Len(chan) \in 0 .. Capacity
           /\ \A p \in Pubs : pc[p] # "idle" => call[p].node \in EdgeNodes
           /\ \A p \in Pubs : took[p] \in Nat
<1>1. G!TypeOK <=> GP!TypeOK
  BY DEF G!TypeOK, GP!TypeOK, G!SeqNumber, GP!SeqNumber, G!Kinds, GP!Kinds,
     G!NoCall, GP!NoCall, G!Message, GP!Message, G!Types, GP!Types, G!Taken, GP!Taken
<1>2. G!TypeOK
  BY <1>1 DEF GP!IInv
<1>3. wire \in [EdgeNodes -> Seq(G!Taken)] /\ Len(chan) \in 0 .. Capacity
  BY <1>2 DEF G!TypeOK
<1>6. \A p \in Pubs : took[p] \in Nat
  <2>1. took \in [Pubs -> 0 .. 2]
    BY <1>2 DEF G!TypeOK
  <2> QED BY <2>1
<1>4. \A n \in EdgeNodes : Len(wire[n]) \in Nat
  BY <1>3
<1>5. \A p \in Pubs : pc[p] # "idle" => call[p].node \in EdgeNodes
  BY DEF GP!IInv, GP!GateInv, GP!CallOK, GP!Node
<1> QED BY <1>2, <1>3, <1>4, <1>5, <1>6

----------------------------------------------------------------------------
(* Types of what the client adds, and the tracker.                         *)

LinkTypeOK ==
    /\ link \in {"down", "up", "closing"}
    /\ chan \in Seq(Entries)
    /\ inflight \subseteq Entries /\ IsFiniteSet(inflight)
    /\ Cardinality(inflight) <= MaxInflight
    /\ event \in {"none", "down"}
    /\ heard \in [EdgeNodes -> Seq(Nat)]
    /\ answered \subseteq EdgeNodes \X Nat /\ IsFiniteSet(answered)

\* What the loop writes is well formed, and the flight keeps its bound.
LEMMA WritesType ==
    ASSUME LinkTypeOK, chan # <<>>, Writes(Head(chan))
    PROVE  /\ Head(chan) \in Entries /\ Tail(chan) \in Seq(Entries)
           /\ inflight' \subseteq Entries /\ IsFiniteSet(inflight')
           /\ Cardinality(inflight') <= MaxInflight
           /\ heard' \in [EdgeNodes -> Seq(Nat)]
<1>1. /\ Head(chan) \in Entries /\ Tail(chan) \in Seq(Entries)
      /\ Head(chan).by \in Pubs /\ Head(chan).at \in Nat
  <2>1. chan \in Seq(Entries)
    BY DEF LinkTypeOK
  <2>2. Head(chan) \in Entries /\ Tail(chan) \in Seq(Entries)
    BY <2>1, HeadTailProperties
  <2> QED BY <2>2 DEF Entries
<1>2. IsFiniteSet(inflight) /\ Cardinality(inflight) \in Nat
  BY FS_CardinalityType DEF LinkTypeOK
<1>3. inflight' = inflight \cup {Head(chan)} /\ Cardinality(inflight) < MaxInflight
  BY DEF Writes
<1>4. IsFiniteSet(inflight') /\ Cardinality(inflight') <= MaxInflight
  <2>1. /\ IsFiniteSet(inflight')
        /\ \/ Cardinality(inflight') = Cardinality(inflight) + 1
           \/ Cardinality(inflight') = Cardinality(inflight)
    BY <1>2, <1>3, FS_AddElement
  <2> QED BY <1>2, <1>3, <2>1, MaxInflightAssumption
<1>5. heard' \in [EdgeNodes -> Seq(Nat)]
  <2>1. heard' = [heard EXCEPT ![Head(chan).node] = Append(@, Head(chan).at)]
    BY DEF Writes
  <2>2. \A n \in EdgeNodes : Append(heard[n], Head(chan).at) \in Seq(Nat)
    BY <1>1 DEF LinkTypeOK
  <2> QED BY <2>1, <2>2 DEF LinkTypeOK
<1> QED BY <1>1, <1>3, <1>4, <1>5 DEF LinkTypeOK

\* What enters the channel is well formed.
LEMMA EntersType ==
    ASSUME GP!IInv, NEW p \in Pubs, pc[p] # "idle"
    PROVE  Enters(p) \in Entries
BY GateFacts DEF Enters, Entries

\* A PubAck leaves the flight smaller, and is one more answer.
LEMMA AckType ==
    ASSUME LinkTypeOK, NEW e \in inflight, Ack(e)
    PROVE  /\ e \in Entries /\ e.by \in Pubs /\ Message(e) \in EdgeNodes \X Nat
           /\ inflight' \subseteq Entries /\ IsFiniteSet(inflight')
           /\ Cardinality(inflight') <= MaxInflight
           /\ answered' \subseteq EdgeNodes \X Nat /\ IsFiniteSet(answered')
<1>1. IsFiniteSet(inflight) /\ Cardinality(inflight) \in Nat
  BY FS_CardinalityType DEF LinkTypeOK
<1>2. e \in Entries /\ e.by \in Pubs /\ Message(e) \in EdgeNodes \X Nat
  BY DEF LinkTypeOK, Entries, Message
<1>3. inflight' = inflight \ {e} /\ answered' = answered \cup {Message(e)}
  BY DEF Ack
<1>4. IsFiniteSet(inflight \ {e}) /\ Cardinality(inflight \ {e}) <= Cardinality(inflight)
  BY <1>1, FS_RemoveElement
<1>5. Cardinality(inflight \ {e}) \in Nat
  BY <1>4, FS_CardinalityType
<1>6. IsFiniteSet(answered \cup {Message(e)})
  BY FS_AddElement DEF LinkTypeOK
<1> QED BY <1>1, <1>2, <1>3, <1>4, <1>5, <1>6, MaxInflightAssumption DEF LinkTypeOK

\* Every step keeps these types.
LEMMA LinkTypeStep ==
    ASSUME GP!IInv, LinkTypeOK, [Next]_vars
    PROVE  LinkTypeOK'
<1>1. CASE UNCHANGED linkVars
  BY <1>1 DEF LinkTypeOK, linkVars
<1>2. ASSUME NEW p \in Pubs, PublishStep(p)
      PROVE  LinkTypeOK'
  <2>1. CASE SendWithRoom(p)
    <3>1. pc[p] = "send" /\ chan' = Append(chan, Enters(p))
          /\ UNCHANGED <<link, inflight, event, heard, answered>>
      BY <2>1 DEF SendWithRoom, G!SendWithRoom
    <3>2. chan' \in Seq(Entries)
      BY <3>1, EntersType DEF LinkTypeOK
    <3> QED BY <3>1, <3>2 DEF LinkTypeOK
  <2>2. CASE ~SendWithRoom(p)
    BY <1>1, <1>2, <2>2 DEF PublishStep, Call, Reserve, Count, Keep, SendFindsFull,
       Refused, Resume, CancelAtGate, CancelWaiting, CancelTaken
  <2> QED BY <2>1, <2>2
<1>3. CASE ConnectsAgain \/ AttemptFails
  <2>1. heard' \in [EdgeNodes -> Seq(Nat)]
    <3>1. [n \in EdgeNodes |-> <<>>] \in [EdgeNodes -> Seq(Nat)]
      OBVIOUS
    <3> QED BY <1>3, <3>1 DEF ConnectsAgain, AttemptFails, LinkTypeOK
  <2> QED BY <1>3, <2>1 DEF ConnectsAgain, AttemptFails, LinkEvent, LinkTypeOK
<1>4. CASE LinkBreaks \/ BrokerDisconnects
  <2>1. /\ inflight' = {} /\ (chan' = <<>> \/ chan' = chan)
        /\ link' \in {"down", "closing"} /\ event' = "down" /\ UNCHANGED <<heard, answered>>
    BY <1>4 DEF LinkBreaks, BrokerDisconnects, LinkEvent
  <2>2. IsFiniteSet(inflight') /\ Cardinality(inflight') <= MaxInflight
    BY <2>1, FS_EmptySet, MaxInflightAssumption
  <2>3. chan' \in Seq(Entries)
    <3>1. <<>> \in Seq(Entries)
      OBVIOUS
    <3> QED BY <2>1, <3>1 DEF LinkTypeOK
  <2> QED BY <2>1, <2>2, <2>3 DEF LinkTypeOK
<1>5. CASE WritesRequest
  BY <1>5, WritesType DEF WritesRequest, LinkTypeOK
<1>6. ASSUME NEW p \in Pubs, WritesAndPulls(p)
      PROVE  LinkTypeOK'
  <2>1. /\ pc[p] = "full" /\ chan # <<>> /\ Writes(Head(chan))
        /\ chan' = Append(Tail(chan), Enters(p)) /\ UNCHANGED <<link, event, answered>>
    BY <1>6 DEF WritesAndPulls
  <2>2. chan' \in Seq(Entries)
    BY <2>1, WritesType, EntersType
  <2> QED BY <2>1, <2>2, WritesType DEF LinkTypeOK
<1>7. ASSUME NEW p \in Pubs, Pulls(p)
      PROVE  LinkTypeOK'
  <2>1. /\ pc[p] = "full" /\ chan' = Append(chan, Enters(p))
        /\ UNCHANGED <<link, inflight, event, heard, answered>>
    BY <1>7 DEF Pulls
  <2>2. chan' \in Seq(Entries)
    BY <2>1, EntersType DEF LinkTypeOK
  <2> QED BY <2>1, <2>2 DEF LinkTypeOK
<1>8. ASSUME NEW e \in inflight, Ack(e)
      PROVE  LinkTypeOK'
  <2>1. UNCHANGED <<link, chan, event, heard>>
    BY <1>8 DEF Ack
  <2> QED BY <1>8, <2>1, AckType DEF LinkTypeOK
<1>9. CASE ApplyDown \/ LoopDies \/ FlushStep \/ UNCHANGED vars
  BY <1>1, <1>9 DEF ApplyDown, LoopDies, FlushStep, vars, linkVars, LinkTypeOK
<1> QED BY <1>2, <1>3, <1>4, <1>5, <1>6, <1>7, <1>8, <1>9 DEF Next, LoopStep

\* So they hold in every state.
LEMMA LinkTypeInvariant == Spec => []LinkTypeOK
<1>1. Init => LinkTypeOK
  BY FS_EmptySet, MaxInflightAssumption DEF Init, LinkTypeOK
<1> QED BY <1>1, LinkTypeStep, GateInvariant, PTL DEF Spec

\* Each step of the client is a step of the tracker, or none.
LEMMA TrackerStep ==
    ASSUME LinkTypeOK, [Next]_vars
    PROVE  [T!Next]_(T!vars)
<1>1. ASSUME UNCHANGED trackerVars
      PROVE  UNCHANGED T!vars
  BY <1>1 DEF trackerVars, T!vars, T!tracker, T!publishes, T!flushes, T!history
<1>2. ASSUME NEW p \in Pubs, PublishStep(p)
      PROVE  [T!Next]_(T!vars)
  <2>1. UNCHANGED trackerVars \/ T!PublishStep(p)
    BY <1>2 DEF PublishStep, Call, Reserve, Count, SendWithRoom, Keep, SendFindsFull,
       Refused, Resume, CancelAtGate, CancelWaiting, CancelTaken, T!PublishStep
  <2> QED BY <1>1, <2>1 DEF T!Next
<1>3. CASE LoopStep
  <2>1. CASE ApplyDown
    <3>1. {chan[i].by : i \in 1 .. Len(chan)} \in SUBSET Pubs
      <4>1. \A i \in 1 .. Len(chan) : chan[i] \in Entries
        BY DEF LinkTypeOK
      <4> QED BY <4>1 DEF Entries
    <3>2. T!LoopStep
      BY <2>1, <3>1 DEF ApplyDown, T!LoopStep
    <3> QED BY <3>2 DEF T!Next
  <2>2. CASE ConnectsAgain \/ AttemptFails \/ LinkBreaks \/ BrokerDisconnects
             \/ WritesRequest \/ LoopDies
    BY <1>1, <2>2 DEF ConnectsAgain, AttemptFails, LinkBreaks, BrokerDisconnects,
       WritesRequest, LoopDies
  <2>3. ASSUME NEW p \in Pubs, WritesAndPulls(p) \/ Pulls(p)
        PROVE  T!Next
    BY <2>3 DEF WritesAndPulls, Pulls, T!PublishStep, T!Next
  <2>4. ASSUME NEW e \in inflight, Ack(e)
        PROVE  T!Next
    BY <2>4, AckType DEF Ack, T!LoopStep, T!Next
  <2> QED BY <1>3, <2>1, <2>2, <2>3, <2>4 DEF LoopStep
<1>4. CASE FlushStep
  BY <1>4 DEF FlushStep, T!Next
<1>5. CASE UNCHANGED vars
  BY <1>1, <1>5 DEF vars
<1> QED BY <1>2, <1>3, <1>4, <1>5 DEF Next

\* The client uses the tracker as DeliveryTracker says: what the gates, the
\* channel and the link do to its publishes is a behaviour of DeliveryTracker.
THEOREM ClientFollowsTheTracker == Spec => T!Spec
<1>1. Init => T!Init
  BY DEF Init
<1> QED BY <1>1, TrackerStep, LinkTypeInvariant, PTL DEF Spec, T!Spec

\* So what is proved of the tracker alone holds in the client.
LEMMA TrackerInvariant == Spec => []TP!IInv
<1>1. (T!Init => TP!Init) /\ ([T!Next]_(T!vars) => [TP!Next]_(TP!vars))
  BY SameTracker
<1>2. TP!Spec => []TP!IInv
  BY TP!Invariance, TrackerAssumptions
<1> QED BY <1>1, <1>2, ClientFollowsTheTracker, PTL DEF T!Spec, TP!Spec

\* The numbers of an edge node follow one another whatever the link and the
\* tracker do; no flush sleeps through its wake-up, and an Ok vouches for what it
\* says, whatever the gates do.
THEOREM ComponentsHoldTogether ==
    Spec => [](/\ G!NumberFollowsLastKept
               /\ T!NoSleepAfterDrain
               /\ T!FlushOkMeansAckedUnlessStray)
<1>1. GP!IInv => G!NumberFollowsLastKept
  <2>1. GP!IInv => \A n \in EdgeNodes : GP!NumbersFollow(wire[n])
    BY DEF GP!IInv, GP!WireInv, GP!WireOK
  <2>2. \A w : GP!NumbersFollow(w) => G!NumbersFollow(w)
    BY DEF GP!NumbersFollow, G!NumbersFollow, GP!LastKeptBefore, G!LastKeptBefore,
           GP!NoneKeptBefore, G!NoneKeptBefore, GP!CountsOn, G!CountsOn,
           GP!Successor, G!Successor
  <2> QED BY <2>1, <2>2 DEF G!NumberFollowsLastKept
<1>2. TP!IInv => T!NoSleepAfterDrain
  BY Zenon DEF TP!IInv, TP!NoSleepAfterDrain, T!NoSleepAfterDrain
<1>3. TP!FlushOkMeansAckedUnlessStray => T!FlushOkMeansAckedUnlessStray
  BY DEF TP!FlushOkMeansAckedUnlessStray, T!FlushOkMeansAckedUnlessStray,
         TP!FlushOkIsTrue, T!FlushOkIsTrue
<1>4. (T!Init => TP!Init) /\ ([T!Next]_(T!vars) => [TP!Next]_(TP!vars))
  BY SameTracker
<1>5. TP!Spec => []TP!FlushOkMeansAckedUnlessStray
  BY TP!FlushVouches, TrackerAssumptions
<1> QED BY <1>1, <1>2, <1>3, <1>4, <1>5, GateInvariant, TrackerInvariant,
           ClientFollowsTheTracker, PTL DEF T!Spec, TP!Spec

\* Until the first disconnect an Ok of flush means that the broker acknowledged
\* every publish (delivery.rs:162), full channels, waiting publishes and
\* interleaved tasks included, if no cancellation meets a message just taken.
THEOREM FlushOkHoldsUntilADisconnect ==
    ASSUME CancelWindow = FALSE
    PROVE  Spec => [](st.generation = 0 => FlushOkMeansAcked)
<1>1. TP!Spec => [](st.generation = 0 => TP!FlushOkMeansAcked)
  BY TP!FlushOkHoldsUntilADisconnect, TrackerAssumptions
<1>2. TP!FlushOkMeansAcked => FlushOkMeansAcked
  BY DEF TP!FlushOkMeansAcked, FlushOkMeansAcked, T!FlushOkMeansAcked,
         TP!FlushOkIsTrue, T!FlushOkIsTrue
<1>3. (T!Init => TP!Init) /\ ([T!Next]_(T!vars) => [TP!Next]_(TP!vars))
  BY SameTracker
<1> QED BY <1>1, <1>2, <1>3, ClientFollowsTheTracker, PTL DEF T!Spec, TP!Spec

\* Every variable of the client keeps its type.
THEOREM TypeCorrect == Spec => []TypeOK
<1>1. GP!IInv => G!TypeOK
  BY GateFacts
<1>2. TP!IInv => T!TypeOK
  BY DEF TP!IInv, TP!TypeOK, T!TypeOK, TP!States, T!States, TP!Results, T!Results
<1>3. G!TypeOK /\ T!TypeOK /\ LinkTypeOK => TypeOK
  BY GateFacts DEF LinkTypeOK, TypeOK, G!TypeOK
<1> QED BY <1>1, <1>2, <1>3, GateInvariant, TrackerInvariant, LinkTypeInvariant, PTL

----------------------------------------------------------------------------
(* The order of the messages of an edge node. c is a channel, h what the    *)
(* broker heard in a session, s how many messages the client took.          *)

Waits(c, n, m) == \E k \in 1 .. Len(c) : c[k].node = n /\ c[k].at = m

\* The channel holds the last messages of an edge node, in their order.
ChanFits(c, s) ==
    /\ \A i \in 1 .. Len(c) : c[i].at \in 1 .. s[c[i].node]
    /\ \A i, k \in 1 .. Len(c) : i < k /\ c[i].node = c[k].node => c[i].at < c[k].at
    /\ \A i \in 1 .. Len(c) : \A m \in c[i].at .. s[c[i].node] : Waits(c, c[i].node, m)

\* What was heard of an edge node leaves no message out.
HeardFits(h, s) ==
    \A n \in EdgeNodes :
        /\ \A j \in 1 .. Len(h[n]) : h[n][j] \in 1 .. s[n]
        /\ \A j \in 2 .. Len(h[n]) : h[n][j] = h[n][j - 1] + 1

\* What comes after the last message heard is in the channel, and nothing else.
Joins(c, h, s) ==
    \A n \in EdgeNodes : Len(h[n]) > 0 =>
        /\ \A k \in 1 .. Len(c) : c[k].node = n => c[k].at > h[n][Len(h[n])]
        /\ \A m \in (h[n][Len(h[n])] + 1) .. s[n] : Waits(c, n, m)

\* The loop writes the first message of the channel.
LEMMA WriteFlows ==
    ASSUME NEW c \in Seq(Entries), c # <<>>, NEW h \in [EdgeNodes -> Seq(Nat)],
           NEW s \in [EdgeNodes -> Nat], ChanFits(c, s), HeardFits(h, s), Joins(c, h, s),
           NEW g, g = [h EXCEPT ![Head(c).node] = Append(@, Head(c).at)]
    PROVE  ChanFits(Tail(c), s) /\ HeardFits(g, s) /\ Joins(Tail(c), g, s)
<1> DEFINE d == Tail(c)
           n == Head(c).node
           a == Head(c).at
<1>1. /\ Len(c) \in Nat /\ Len(c) > 0 /\ Len(d) = Len(c) - 1 /\ Head(c) = c[1]
      /\ \A i \in 1 .. Len(d) : d[i] = c[i + 1]
      /\ \A i \in 1 .. Len(c) : c[i] \in Entries
  BY HeadTailProperties, EmptySeq, ElementOfSeq
<1>2. \A i \in 1 .. Len(c) : c[i].node \in EdgeNodes /\ c[i].at \in Nat
  BY <1>1 DEF Entries
<1>3. n \in EdgeNodes /\ a \in Nat /\ n = c[1].node /\ a = c[1].at
  BY <1>1, <1>2
<1>4. /\ Len(g[n]) = Len(h[n]) + 1 /\ Len(h[n]) \in Nat
      /\ \A j \in 1 .. Len(h[n]) : g[n][j] = h[n][j] /\ h[n][j] \in Nat
      /\ g[n][Len(h[n]) + 1] = a
      /\ \A m \in EdgeNodes \ {n} : g[m] = h[m]
  <2>1. g[n] = Append(h[n], a) /\ h[n] \in Seq(Nat)
    BY <1>3
  <2> HIDE DEF n, a
  <2> QED BY <1>3, <2>1
<1>0. a \in 1 .. s[n] /\ \A m \in a .. s[n] : Waits(c, n, m)
  <2>1. 1 \in 1 .. Len(c)
    BY <1>1
  <2>2. /\ c[1].at \in 1 .. s[c[1].node]
        /\ \A m \in c[1].at .. s[c[1].node] : Waits(c, c[1].node, m)
    BY <2>1, Zenon DEF ChanFits
  <2> QED BY <1>3, <2>2, Zenon
<1> HIDE DEF d, n, a
\* What waited behind the first message still waits.
<1>5. ASSUME NEW m \in EdgeNodes, NEW x \in Nat, Waits(c, m, x), m # n \/ x # a
      PROVE  Waits(d, m, x)
  <2>1. PICK k \in 1 .. Len(c) : c[k].node = m /\ c[k].at = x
    BY <1>5 DEF Waits
  <2>2. k # 1
    BY <1>3, <1>5, <2>1
  <2>3. k - 1 \in 1 .. Len(d) /\ d[k - 1] = c[k]
    BY <1>1, <2>2
  <2> QED BY <2>1, <2>3 DEF Waits
\* The messages of the same edge node come after the first.
<1>6. ASSUME NEW i \in 1 .. Len(d)
      PROVE  /\ i + 1 \in 1 .. Len(c) /\ d[i] = c[i + 1]
             /\ d[i].node \in EdgeNodes /\ d[i].at \in Nat
             /\ d[i].node = n => d[i].at > a
  <2>1. /\ i + 1 \in 1 .. Len(c) /\ d[i] = c[i + 1] /\ 1 \in 1 .. Len(c) /\ 1 < i + 1
    BY <1>1
  <2>2. d[i].node \in EdgeNodes /\ d[i].at \in Nat
    BY <1>2, <2>1
  <2>3. c[1].node = c[i + 1].node => c[1].at < c[i + 1].at
    BY <2>1 DEF ChanFits
  <2> QED BY <1>3, <2>1, <2>2, <2>3
<1>7. ChanFits(d, s)
  <2>1. ASSUME NEW i \in 1 .. Len(d)
        PROVE  d[i].at \in 1 .. s[d[i].node]
    <3>1. c[i + 1].at \in 1 .. s[c[i + 1].node]
      BY <1>6 DEF ChanFits
    <3> QED BY <1>6, <3>1
  <2>2. ASSUME NEW i \in 1 .. Len(d), NEW k \in 1 .. Len(d), i < k,
               d[i].node = d[k].node
        PROVE  d[i].at < d[k].at
    <3>1. /\ i + 1 \in 1 .. Len(c) /\ k + 1 \in 1 .. Len(c) /\ i + 1 < k + 1
          /\ c[i + 1].node = c[k + 1].node
      BY <1>6, <2>2
    <3>2. c[i + 1].at < c[k + 1].at
      BY <3>1 DEF ChanFits
    <3> QED BY <1>6, <3>2
  <2>3. ASSUME NEW i \in 1 .. Len(d), NEW m \in d[i].at .. s[d[i].node]
        PROVE  Waits(d, d[i].node, m)
    <3>1. /\ d[i] = c[i + 1] /\ i + 1 \in 1 .. Len(c)
          /\ d[i].node \in EdgeNodes /\ d[i].at \in Nat
          /\ d[i].node = n => d[i].at > a
      BY <1>6
    <3>2. Waits(c, d[i].node, m) /\ m \in Nat /\ m >= d[i].at
      BY <3>1 DEF ChanFits
    <3>3. d[i].node = n => m # a
      BY <1>3, <3>1, <3>2
    <3> QED BY <1>5, <3>1, <3>2, <3>3
  <2> QED BY <2>1, <2>2, <2>3 DEF ChanFits
\* The first message is the next one to be heard.
<1>8. Len(h[n]) > 0 => a = h[n][Len(h[n])] + 1
  <2> SUFFICES ASSUME Len(h[n]) > 0, a # h[n][Len(h[n])] + 1
               PROVE  FALSE
    OBVIOUS
  <2> DEFINE l == h[n][Len(h[n])]
  <2>1. l \in Nat /\ a > l /\ a <= s[n] /\ s[n] \in Nat
    BY <1>1, <1>3, <1>4 DEF Joins, ChanFits
  <2>2. Waits(c, n, l + 1)
    <3>1. \A m \in (l + 1) .. s[n] : Waits(c, n, m)
      BY <1>3 DEF Joins
    <3> HIDE DEF l
    <3>2. l + 1 \in (l + 1) .. s[n]
      BY <1>3, <2>1
    <3> QED BY <3>1, <3>2
  <2>3. Waits(d, n, l + 1)
    BY <1>3, <1>5, <2>1, <2>2
  <2>4. PICK k \in 1 .. Len(d) : d[k].node = n /\ d[k].at = l + 1
    BY <2>3 DEF Waits
  <2>5. l + 1 > a
    BY <1>6, <2>4
  <2> HIDE DEF l
  <2> QED BY <1>3, <2>1, <2>5
<1>9. HeardFits(g, s)
  <2>1. a \in 1 .. s[n]
    BY <1>0
  <2>2. \A j \in 1 .. Len(g[n]) : g[n][j] \in 1 .. s[n]
    BY <1>3, <1>4, <2>1 DEF HeardFits
  <2>3. ASSUME NEW j \in 2 .. Len(g[n])
        PROVE  g[n][j] = g[n][j - 1] + 1
    <3>1. CASE j = Len(h[n]) + 1
      <4>1. Len(h[n]) \in 1 .. Len(h[n]) /\ j - 1 = Len(h[n]) /\ Len(h[n]) > 0
        BY <1>4, <3>1
      <4> QED BY <1>4, <1>8, <3>1, <4>1
    <3>2. CASE j # Len(h[n]) + 1
      <4>1. j \in 2 .. Len(h[n]) /\ j \in 1 .. Len(h[n]) /\ j - 1 \in 1 .. Len(h[n])
        BY <1>4, <3>2
      <4>2. h[n][j] = h[n][j - 1] + 1
        BY <1>3, <4>1 DEF HeardFits
      <4> QED BY <1>4, <4>1, <4>2
    <3> QED BY <3>1, <3>2
  <2>4. ASSUME NEW m \in EdgeNodes, m # n
        PROVE  /\ \A j \in 1 .. Len(g[m]) : g[m][j] \in 1 .. s[m]
               /\ \A j \in 2 .. Len(g[m]) : g[m][j] = g[m][j - 1] + 1
    <3>1. g[m] = h[m]
      BY <1>4, <2>4
    <3> QED BY <3>1 DEF HeardFits
  <2> QED BY <2>2, <2>3, <2>4 DEF HeardFits
<1>10. Joins(d, g, s)
  <2>1. ASSUME NEW m \in (a + 1) .. s[n]
        PROVE  Waits(d, n, m)
    <3>1. m \in a .. s[n] /\ m \in Nat /\ m # a
      BY <1>3
    <3>2. Waits(c, n, m)
      BY <1>0, <3>1
    <3> QED BY <1>3, <1>5, <3>1, <3>2
  <2>2. ASSUME NEW m \in EdgeNodes \ {n}, Len(g[m]) > 0
        PROVE  /\ \A k \in 1 .. Len(d) : d[k].node = m => d[k].at > g[m][Len(g[m])]
               /\ \A x \in (g[m][Len(g[m])] + 1) .. s[m] : Waits(d, m, x)
    <3>1. g[m] = h[m] /\ h[m][Len(h[m])] \in Nat
      BY <1>4, <2>2
    <3>2. ASSUME NEW k \in 1 .. Len(d), d[k].node = m
          PROVE  d[k].at > h[m][Len(h[m])]
      <4>1. k + 1 \in 1 .. Len(c) /\ d[k] = c[k + 1]
        BY <1>6
      <4>2. Len(h[m]) > 0
        BY <1>4, <2>2
      <4>3. \A i \in 1 .. Len(c) : c[i].node = m => c[i].at > h[m][Len(h[m])]
        BY <4>2 DEF Joins
      <4> QED BY <3>2, <4>1, <4>3
    <3>3. \A x \in (h[m][Len(h[m])] + 1) .. s[m] : x \in Nat /\ Waits(c, m, x)
      BY <2>2, <3>1 DEF Joins
    <3> QED BY <1>5, <3>1, <3>2, <3>3
  <2>3. /\ n \in EdgeNodes /\ g[n][Len(g[n])] = a
        /\ \A k \in 1 .. Len(d) : d[k].node = n => d[k].at > a
    BY <1>3, <1>4, <1>6
  <2>4. ASSUME NEW m \in EdgeNodes, Len(g[m]) > 0
        PROVE  /\ \A k \in 1 .. Len(d) : d[k].node = m => d[k].at > g[m][Len(g[m])]
               /\ \A x \in (g[m][Len(g[m])] + 1) .. s[m] : Waits(d, m, x)
    <3>1. CASE m = n
      BY <2>1, <2>3, <3>1
    <3>2. CASE m # n
      BY <2>2, <2>4, <3>2
    <3> QED BY <3>1, <3>2
  <2> QED BY <2>4 DEF Joins
<1> QED BY <1>7, <1>9, <1>10 DEF d

\* The client takes the next message of an edge node.
LEMMA EnterFlows ==
    ASSUME NEW c \in Seq(Entries), NEW e \in Entries, NEW h \in [EdgeNodes -> Seq(Nat)],
           NEW s \in [EdgeNodes -> Nat], NEW t \in [EdgeNodes -> Nat],
           NEW x \in EdgeNodes, NEW a \in Nat, e.node = x, e.at = a,
           a = s[x] + 1, t[x] = a, \A n \in EdgeNodes \ {x} : t[n] = s[n],
           ChanFits(c, s), HeardFits(h, s)
    PROVE  /\ ChanFits(Append(c, e), t) /\ HeardFits(h, t)
           /\ Joins(c, h, s) => Joins(Append(c, e), h, t)
<1> DEFINE d == Append(c, e)
<1>1. /\ Len(c) \in Nat /\ Len(d) = Len(c) + 1
      /\ \A i \in 1 .. Len(c) : d[i] = c[i] /\ c[i] \in Entries
      /\ d[Len(c) + 1].node = x /\ d[Len(c) + 1].at = a
  OBVIOUS
<1>2. \A i \in 1 .. Len(c) : c[i].node \in EdgeNodes /\ c[i].at \in Nat
  BY <1>1 DEF Entries
<1>3. \A n \in EdgeNodes : s[n] \in Nat /\ t[n] \in Nat /\ s[n] <= t[n]
  <2>1. ASSUME NEW n \in EdgeNodes
        PROVE  s[n] \in Nat /\ t[n] \in Nat /\ s[n] <= t[n]
    <3>1. CASE n = x
      BY <3>1
    <3>2. CASE n # x
      BY <3>2
    <3> QED BY <3>1, <3>2
  <2> QED BY <2>1
<1> HIDE DEF d
\* Whatever waited still waits, and so does the new message.
<1>4. ASSUME NEW n, NEW m, Waits(c, n, m)
      PROVE  Waits(d, n, m)
  <2>1. PICK k \in 1 .. Len(c) : c[k].node = n /\ c[k].at = m
    BY <1>4 DEF Waits
  <2>2. k \in 1 .. Len(d) /\ d[k] = c[k]
    BY <1>1
  <2> QED BY <2>1, <2>2 DEF Waits
<1>5. Waits(d, x, a)
  <2>1. Len(c) + 1 \in 1 .. Len(d)
    BY <1>1
  <2> QED BY <1>1, <2>1 DEF Waits
<1>6. ASSUME NEW n \in EdgeNodes, NEW m \in Nat, m <= t[n],
             m <= s[n] => Waits(c, n, m)
      PROVE  Waits(d, n, m)
  <2>1. CASE m <= s[n]
    BY <1>4, <1>6, <2>1
  <2>2. CASE ~(m <= s[n])
    <3>1. n = x /\ m = a
      BY <1>3, <1>6, <2>2
    <3> QED BY <1>5, <3>1
  <2> QED BY <2>1, <2>2
\* A message is an old one, or the new one.
<1>7. ASSUME NEW i \in 1 .. Len(d)
      PROVE  /\ d[i].node \in EdgeNodes /\ d[i].at \in Nat
             /\ \/ /\ i \in 1 .. Len(c) /\ d[i] = c[i] /\ c[i].at \in 1 .. s[c[i].node]
                \/ i = Len(c) + 1 /\ d[i].node = x /\ d[i].at = a
  <2>1. CASE i \in 1 .. Len(c)
    BY <1>1, <1>2, <2>1 DEF ChanFits
  <2>2. CASE i = Len(c) + 1
    BY <1>1, <2>2
  <2> QED BY <1>1, <2>1, <2>2
<1>8. ChanFits(d, t)
  <2>1. ASSUME NEW i \in 1 .. Len(d)
        PROVE  d[i].at \in 1 .. t[d[i].node]
    <3>1. CASE i = Len(c) + 1 /\ d[i].node = x /\ d[i].at = a
      BY <3>1
    <3>2. CASE d[i] = c[i] /\ c[i].at \in 1 .. s[c[i].node]
      <4>1. s[d[i].node] <= t[d[i].node] /\ s[d[i].node] \in Nat /\ t[d[i].node] \in Nat
        BY <1>3, <1>7
      <4> QED BY <3>2, <4>1
    <3> QED BY <1>7, <3>1, <3>2
  <2>2. ASSUME NEW i \in 1 .. Len(d), NEW k \in 1 .. Len(d), i < k,
               d[i].node = d[k].node
        PROVE  d[i].at < d[k].at
    <3>1. i \in 1 .. Len(c) /\ d[i] = c[i] /\ c[i].at \in 1 .. s[c[i].node]
      BY <1>1, <1>7, <2>2
    <3>2. CASE k \in 1 .. Len(c) /\ d[k] = c[k]
      BY <2>2, <3>1, <3>2 DEF ChanFits
    <3>3. CASE d[k].node = x /\ d[k].at = a
      <4>1. d[i].at \in 1 .. s[x]
        BY <2>2, <3>1, <3>3
      <4> QED BY <3>3, <4>1
    <3> QED BY <1>7, <3>2, <3>3
  <2>3. ASSUME NEW i \in 1 .. Len(d), NEW m \in d[i].at .. t[d[i].node]
        PROVE  Waits(d, d[i].node, m)
    <3>1. d[i].node \in EdgeNodes /\ d[i].at \in Nat
      BY <1>7
    <3>2. m \in Nat /\ m <= t[d[i].node] /\ m >= d[i].at
      BY <1>3, <3>1
    <3>3. m <= s[d[i].node] => Waits(c, d[i].node, m)
      <4>1. CASE i \in 1 .. Len(c) /\ d[i] = c[i]
        <5>1. m <= s[c[i].node] => m \in c[i].at .. s[c[i].node]
          BY <1>3, <3>1, <3>2, <4>1
        <5> QED BY <4>1, <5>1 DEF ChanFits
      <4>2. CASE d[i].node = x /\ d[i].at = a
        BY <3>2, <4>2
      <4> QED BY <1>7, <4>1, <4>2
    <3> QED BY <1>6, <3>1, <3>2, <3>3
  <2> QED BY <2>1, <2>2, <2>3 DEF ChanFits
<1>9. HeardFits(h, t)
  <2>1. ASSUME NEW n \in EdgeNodes, NEW j \in 1 .. Len(h[n])
        PROVE  h[n][j] \in 1 .. t[n]
    <3>1. h[n][j] \in 1 .. s[n]
      BY DEF HeardFits
    <3> QED BY <1>3, <3>1
  <2> QED BY <2>1 DEF HeardFits
<1>10. ASSUME Joins(c, h, s)
       PROVE  Joins(d, h, t)
  <2> SUFFICES ASSUME NEW n \in EdgeNodes, Len(h[n]) > 0
               PROVE  /\ \A k \in 1 .. Len(d) : d[k].node = n => d[k].at > h[n][Len(h[n])]
                      /\ \A m \in (h[n][Len(h[n])] + 1) .. t[n] : Waits(d, n, m)
    BY DEF Joins
  <2> DEFINE l == h[n][Len(h[n])]
  <2>1. l \in Nat /\ l <= s[n] /\ s[n] \in Nat /\ t[n] \in Nat
    <3>1. Len(h[n]) \in 1 .. Len(h[n])
      OBVIOUS
    <3>2. h[n][Len(h[n])] \in 1 .. s[n]
      BY <3>1 DEF HeardFits
    <3> QED BY <1>3, <3>2
  <2>2. /\ \A k \in 1 .. Len(c) : c[k].node = n => c[k].at > l
        /\ \A m \in (l + 1) .. s[n] : Waits(c, n, m)
    BY <1>10 DEF Joins
  <2> HIDE DEF l
  <2>3. ASSUME NEW k \in 1 .. Len(d), d[k].node = n
        PROVE  d[k].at > l
    <3>1. CASE k \in 1 .. Len(c) /\ d[k] = c[k]
      BY <2>2, <2>3, <3>1
    <3>2. CASE d[k].node = x /\ d[k].at = a
      BY <2>1, <2>3, <3>2
    <3> QED BY <1>7, <3>1, <3>2
  <2>4. ASSUME NEW m \in (l + 1) .. t[n]
        PROVE  Waits(d, n, m)
    <3>1. m \in Nat /\ m <= t[n] /\ (m <= s[n] => m \in (l + 1) .. s[n])
      BY <2>1
    <3> QED BY <1>6, <2>2, <3>1
  <2> QED BY <2>3, <2>4 DEF l
<1> QED BY <1>8, <1>9, <1>10 DEF d

----------------------------------------------------------------------------
(* How the wires grow.                                                     *)

\* How many messages of each edge node the client took.
Sent == [n \in EdgeNodes |-> Len(wire[n])]

\* A publisher's client publishes no birth pair.
KindInv == \A p \in Pubs : call[p].kind # "birth"

\* So none is ever on a wire.
PairInv ==
    \A n \in EdgeNodes : \A i \in 1 .. Len(wire[n]) : wire[n][i].type # "DBIRTH"

\* The client takes one more message, the one of p.
Grows(p) ==
    /\ pc[p] \in {"send", "full"}
    /\ wire' = [wire EXCEPT ![call[p].node] =
                   Append(@, [type |-> msg[p].type, seq |-> msg[p].seq, kept |-> TRUE])]

\* Kinds enter with a call, and an ended call has none.
LEMMA KindStep ==
    ASSUME GP!IInv, KindInv, [Next]_vars
    PROVE  KindInv'
<1>1. call \in [Pubs -> [node : EdgeNodes, kind : G!Kinds] \cup {G!NoCall}]
  BY GateFacts DEF G!TypeOK
<1>2. ASSUME NEW p \in Pubs, NEW c, c.kind # "birth", call' = [call EXCEPT ![p] = c]
      PROVE  KindInv'
  BY <1>1, <1>2 DEF KindInv
<1>3. CASE UNCHANGED call
  BY <1>3 DEF KindInv
<1>4. ASSUME NEW p \in Pubs, G!EndCall(p)
      PROVE  KindInv'
  <2>1. G!NoCall.kind # "birth"
    BY DEF G!NoCall
  <2> QED BY <1>2, <1>4, <2>1 DEF G!EndCall
<1>5. ASSUME NEW p \in Pubs, G!Continue(p)
      PROVE  KindInv'
  BY <1>3, <1>4, <1>5 DEF G!Continue, G!NextMessage, G!CommitAndDrop
<1>6. ASSUME NEW p \in Pubs, NEW n \in EdgeNodes, NEW k \in {"data", "nbirth"},
             Call(p, n, k)
      PROVE  KindInv'
  <2>1. [node |-> n, kind |-> k].kind # "birth"
    OBVIOUS
  <2> QED BY <1>2, <1>6, <2>1 DEF Call, G!Call
<1>7. ASSUME NEW p \in Pubs, PublishStep(p)
      PROVE  KindInv'
  <2>1. CASE Reserve(p) \/ Count(p) \/ Keep(p) \/ SendFindsFull(p)
    BY <1>3, <2>1 DEF Reserve, G!Reserve, Count, Keep, SendFindsFull, G!SendFindsFull,
       gateVars
  <2>2. CASE SendWithRoom(p) \/ Resume(p)
    BY <1>5, <2>2 DEF SendWithRoom, G!SendWithRoom, Resume, G!Resume
  <2>3. CASE Refused(p) \/ CancelAtGate(p) \/ CancelWaiting(p) \/ CancelTaken(p)
    BY <1>4, <2>3 DEF Refused, G!Refused, CancelAtGate, G!CancelAtGate, CancelWaiting,
       G!CancelWaiting, CancelTaken, G!CancelTaken, G!DropUncommitted
  <2> QED BY <1>6, <1>7, <2>1, <2>2, <2>3 DEF PublishStep
<1>8. CASE LoopStep
  <2>1. ASSUME NEW p \in Pubs, WritesAndPulls(p) \/ Pulls(p)
        PROVE  UNCHANGED call
    BY <2>1 DEF WritesAndPulls, Pulls, G!Pull
  <2>4. ASSUME NEW e \in inflight, Ack(e)
        PROVE  UNCHANGED call
    BY <2>4 DEF Ack, gateVars
  <2>2. CASE LinkBreaks
    BY <1>3, <2>2 DEF LinkBreaks, G!Discard, gateVars
  <2>3. CASE ConnectsAgain \/ AttemptFails \/ BrokerDisconnects \/ WritesRequest
             \/ ApplyDown \/ LoopDies
    BY <1>3, <2>3 DEF ConnectsAgain, AttemptFails, BrokerDisconnects, WritesRequest,
       G!Drain, ApplyDown, LoopDies, G!Close, gateVars
  <2> QED BY <1>3, <1>8, <2>1, <2>2, <2>3, <2>4 DEF LoopStep
<1>9. CASE FlushStep \/ UNCHANGED vars
  BY <1>3, <1>9 DEF FlushStep, vars, gateVars
<1> QED BY <1>7, <1>8, <1>9 DEF Next

\* A call that waits for a slot has sent nothing. A call whose message was taken
\* has sent one, the last one of its edge node, and nobody cut it off.
LEMMA CallFacts ==
    ASSUME GP!IInv, KindInv, NEW p \in Pubs
    PROVE  /\ pc[p] \in {"send", "full"} => took[p] = 0
           /\ pc[p] = "taken" =>
                /\ took[p] = 1
                /\ Len(wire[call[p].node]) > 0
                /\ wire[call[p].node][Len(wire[call[p].node])].kept
<1>1. pc[p] \in {"send", "full", "taken"} => GP!OnFirstMessage(p)
  BY DEF GP!IInv, GP!GateInv, GP!CallOK, GP!Holding, GP!OnSecondMessage, KindInv
<1>2. pc[p] \in {"send", "full"} => took[p] = 0
  BY <1>1 DEF GP!OnFirstMessage
<1>3. ASSUME pc[p] = "taken"
      PROVE  /\ took[p] = 1
             /\ Len(wire[call[p].node]) > 0
             /\ wire[call[p].node][Len(wire[call[p].node])].kept
  <2> DEFINE w == wire[call[p].node]
  <2>1. took[p] = 1
    BY <1>1, <1>3 DEF GP!OnFirstMessage
  <2>2. GP!WireOK(w, 1, restore[p])
    <3>1. GP!WireOK(wire[GP!Node(p)], took[p], restore[p])
      BY <1>3, GP!HolderWire, GateAssumptions DEF GP!IInv, GP!Holding
    <3> QED BY <2>1, <3>1 DEF GP!Node
  <2>3. Len(w) \in Nat
    BY <1>3, GateFacts
  <2> HIDE DEF w
  <2>4. Len(w) - 1 >= 0 /\ \A j \in (Len(w) - 1 + 1) .. Len(w) : w[j].kept
    BY <2>2 DEF GP!WireOK
  <2>5. Len(w) > 0 /\ w[Len(w)].kept
    BY <2>3, <2>4
  <2> QED BY <2>1, <2>5 DEF w
<1> QED BY <1>2, <1>3

\* Which steps move the wires.
LEMMA WireMoves ==
    ASSUME [Next]_vars
    PROVE  \/ \E p \in Pubs : SendWithRoom(p) \/ WritesAndPulls(p) \/ Pulls(p)
           \/ \E p \in Pubs : Refused(p) \/ CancelWaiting(p) \/ CancelTaken(p)
           \/ wire' = wire
<1>1. ASSUME NEW p \in Pubs, PublishStep(p)
      PROVE  \/ SendWithRoom(p)
             \/ Refused(p) \/ CancelWaiting(p) \/ CancelTaken(p)
             \/ wire' = wire
  BY <1>1 DEF PublishStep, Call, G!Call, Reserve, G!Reserve, Count, Keep, SendFindsFull,
     G!SendFindsFull, Resume, G!Resume, CancelAtGate, G!CancelAtGate, gateVars
<1>2. CASE LoopStep
  <2>1. CASE ConnectsAgain \/ AttemptFails \/ BrokerDisconnects \/ ApplyDown \/ LinkBreaks
             \/ WritesRequest \/ LoopDies
    BY <2>1 DEF ConnectsAgain, AttemptFails, BrokerDisconnects, ApplyDown, LinkBreaks,
       G!Discard, WritesRequest, G!Drain, LoopDies, G!Close, gateVars
  <2>2. ASSUME NEW e \in inflight, Ack(e)
        PROVE  wire' = wire
    BY <2>2 DEF Ack, gateVars
  <2> QED BY <1>2, <2>1, <2>2 DEF LoopStep
<1>3. CASE FlushStep \/ UNCHANGED vars
  BY <1>3 DEF FlushStep, vars, gateVars
<1> QED BY <1>1, <1>2, <1>3 DEF Next

\* A message that the client takes is the last one of its edge node.
LEMMA TakenGrows ==
    ASSUME GP!IInv, NEW p \in Pubs, SendWithRoom(p) \/ WritesAndPulls(p) \/ Pulls(p)
    PROVE  /\ Grows(p) /\ call[p].node \in EdgeNodes
           /\ Enters(p) \in Entries
           /\ Enters(p).node = call[p].node
           /\ Enters(p).at = Sent[call[p].node] + 1
           /\ Sent \in [EdgeNodes -> Nat]
           /\ Sent' = [Sent EXCEPT ![call[p].node] = @ + 1]
<1>1. Grows(p)
  BY DEF SendWithRoom, G!SendWithRoom, WritesAndPulls, Pulls, G!Pull, G!Took, G!Node, Grows
<1>2. /\ pc[p] # "idle" /\ call[p].node \in EdgeNodes
      /\ wire \in [EdgeNodes -> Seq(G!Taken)]
      /\ Sent \in [EdgeNodes -> Nat]
  BY <1>1, GateFacts DEF Grows, Sent
<1>3. Enters(p) \in Entries /\ Enters(p).node = call[p].node
      /\ Enters(p).at = Sent[call[p].node] + 1
  BY <1>2, EntersType DEF Enters, Sent
<1>4. Sent' = [Sent EXCEPT ![call[p].node] = @ + 1]
  <2> DEFINE e == [type |-> msg[p].type, seq |-> msg[p].seq, kept |-> TRUE]
             n == call[p].node
  <2>1. wire' = [wire EXCEPT ![n] = Append(@, e)]
    BY <1>1 DEF Grows
  <2> HIDE DEF e, n
  <2>2. \A m \in EdgeNodes : Len(wire'[m]) = IF m = n THEN Len(wire[m]) + 1 ELSE Len(wire[m])
    BY <1>2, <2>1
  <2>3. Sent' = [Sent EXCEPT ![n] = @ + 1]
    BY <1>2, <2>2 DEF Sent
  <2> QED BY <2>3 DEF n
<1> QED BY <1>1, <1>2, <1>3, <1>4

\* A cut leaves every message where it is.
LEMMA DroppedCuts ==
    ASSUME GP!IInv, NEW p \in Pubs, Refused(p) \/ CancelWaiting(p) \/ CancelTaken(p)
    PROVE  /\ pc[p] \in {"send", "full", "taken"}
           /\ call[p].node \in EdgeNodes
           /\ wire' = [wire EXCEPT ![call[p].node] = G!CutLast(@, took[p])]
           /\ Sent' = Sent
<1>1. /\ pc[p] \in {"send", "full", "taken"}
      /\ wire' = [wire EXCEPT ![call[p].node] = G!CutLast(@, took[p])]
  BY DEF Refused, G!Refused, CancelWaiting, G!CancelWaiting, CancelTaken, G!CancelTaken,
     G!DropUncommitted, G!Node
<1>2. call[p].node \in EdgeNodes /\ wire \in [EdgeNodes -> Seq(G!Taken)]
  BY <1>1, GateFacts
<1>3. \A w \in Seq(G!Taken) : Len(G!CutLast(w, took[p])) = Len(w)
  BY DEF G!CutLast
<1>4. \A n \in EdgeNodes : Len(wire'[n]) = Len(wire[n])
  BY <1>1, <1>2, <1>3
<1> QED BY <1>1, <1>2, <1>4 DEF Sent

\* No step puts a DBIRTH on a wire.
LEMMA PairStep ==
    ASSUME GP!IInv, KindInv, PairInv, [Next]_vars
    PROVE  PairInv'
<1>1. wire \in [EdgeNodes -> Seq(G!Taken)]
  BY GateFacts
<1>2. ASSUME NEW p \in Pubs, SendWithRoom(p) \/ WritesAndPulls(p) \/ Pulls(p)
      PROVE  PairInv'
  <2> DEFINE e == [type |-> msg[p].type, seq |-> msg[p].seq, kept |-> TRUE]
             n == call[p].node
  <2>1. wire' = [wire EXCEPT ![n] = Append(@, e)] /\ pc[p] \in {"send", "full"}
    BY <1>2, TakenGrows DEF Grows
  <2>2. e.type # "DBIRTH"
    <3>1. GP!OnFirstMessage(p)
      BY <2>1 DEF GP!IInv, GP!GateInv, GP!CallOK, GP!Holding, GP!OnSecondMessage, KindInv
    <3> QED BY <3>1 DEF GP!OnFirstMessage
  <2> HIDE DEF e, n
  <2>3. ASSUME NEW m \in EdgeNodes
        PROVE  \A i \in 1 .. Len(wire'[m]) : wire'[m][i].type # "DBIRTH"
    <3>1. wire[m] \in Seq(G!Taken) /\ (wire'[m] = wire[m] \/ wire'[m] = Append(wire[m], e))
      BY <1>1, <2>1
    <3>2. \A i \in 1 .. Len(wire[m]) : wire[m][i].type # "DBIRTH"
      BY DEF PairInv
    <3> QED BY <2>2, <3>1, <3>2
  <2> QED BY <2>3 DEF PairInv
<1>3. ASSUME NEW p \in Pubs, Refused(p) \/ CancelWaiting(p) \/ CancelTaken(p)
      PROVE  PairInv'
  <2>1. wire' = [wire EXCEPT ![call[p].node] = G!CutLast(@, took[p])]
    BY <1>3, DroppedCuts
  <2>2. ASSUME NEW w \in Seq(G!Taken), \A i \in 1 .. Len(w) : w[i].type # "DBIRTH"
        PROVE  \A i \in 1 .. Len(G!CutLast(w, took[p])) :
                  G!CutLast(w, took[p])[i].type # "DBIRTH"
    <3>1. \A i \in 1 .. Len(w) : w[i] \in G!Taken
      OBVIOUS
    <3>2. \A i \in 1 .. Len(w) : [w[i] EXCEPT !.kept = FALSE].type = w[i].type
      BY <3>1 DEF G!Taken
    <3> QED BY <2>2, <3>2 DEF G!CutLast
  <2>3. ASSUME NEW m \in EdgeNodes
        PROVE  \A i \in 1 .. Len(wire'[m]) : wire'[m][i].type # "DBIRTH"
    <3>1. /\ wire[m] \in Seq(G!Taken)
          /\ wire'[m] = wire[m] \/ wire'[m] = G!CutLast(wire[m], took[p])
      BY <1>1, <2>1
    <3>2. \A i \in 1 .. Len(wire[m]) : wire[m][i].type # "DBIRTH"
      BY DEF PairInv
    <3> QED BY <2>2, <3>1, <3>2
  <2> QED BY <2>3 DEF PairInv
<1> QED BY <1>2, <1>3, WireMoves DEF PairInv

\* Both hold in every state.
LEMMA KindInvariant == Spec => [](KindInv /\ PairInv)
<1>1. Init => KindInv /\ PairInv
  <2>1. Init => KindInv
    BY DEF Init, G!Init, KindInv, G!NoCall
  <2>2. Init => PairInv
    BY DEF Init, G!Init, PairInv
  <2> QED BY <2>1, <2>2
<1> QED BY <1>1, KindStep, PairStep, GateInvariant, PTL DEF Spec

----------------------------------------------------------------------------
(* A session reads no gap.                                                 *)

FlowInv ==
    /\ ChanFits(chan, Sent)
    /\ HeardFits(heard, Sent)
    /\ link = "up" => Joins(chan, heard, Sent)

\* Every step keeps the messages of an edge node together: the client takes
\* them in order, the loop writes them in order, and a break that drops some
\* ends the session.
LEMMA FlowStep ==
    ASSUME GP!IInv, LinkTypeOK, FlowInv, [Next]_vars
    PROVE  FlowInv'
<1>1. /\ chan \in Seq(Entries) /\ heard \in [EdgeNodes -> Seq(Nat)]
      /\ Sent \in [EdgeNodes -> Nat]
  BY GateFacts DEF LinkTypeOK, Sent
<1>2. ASSUME Sent' = Sent, UNCHANGED <<chan, heard>>, link' = "up" => link = "up"
      PROVE  FlowInv'
  BY <1>2 DEF FlowInv
<1>3. ASSUME NEW p \in Pubs, SendWithRoom(p) \/ Pulls(p)
      PROVE  FlowInv'
  <2>1. chan' = Append(chan, Enters(p)) /\ UNCHANGED <<link, heard>>
    BY <1>3 DEF SendWithRoom, Pulls
  <2>2. /\ Enters(p) \in Entries /\ Enters(p).node = call[p].node
        /\ call[p].node \in EdgeNodes /\ Enters(p).at = Sent[call[p].node] + 1
        /\ Sent' = [Sent EXCEPT ![call[p].node] = @ + 1]
    BY <1>3, TakenGrows
  <2>3. /\ ChanFits(Append(chan, Enters(p)), Sent') /\ HeardFits(heard, Sent')
        /\ Joins(chan, heard, Sent) => Joins(Append(chan, Enters(p)), heard, Sent')
    <3> DEFINE e == Enters(p)
               t == Sent'
               x == call[p].node
               a == e.at
    <3>1. /\ e \in Entries /\ x \in EdgeNodes /\ a \in Nat /\ e.node = x /\ e.at = a
          /\ a = Sent[x] + 1 /\ t \in [EdgeNodes -> Nat] /\ t[x] = a
          /\ \A n \in EdgeNodes \ {x} : t[n] = Sent[n]
      BY <1>1, <2>2
    <3>2. ChanFits(chan, Sent) /\ HeardFits(heard, Sent)
      BY DEF FlowInv
    <3> HIDE DEF e, t, x, a
    <3>3. /\ ChanFits(Append(chan, e), t) /\ HeardFits(heard, t)
          /\ Joins(chan, heard, Sent) => Joins(Append(chan, e), heard, t)
      BY <1>1, <3>1, <3>2, EnterFlows
    <3> QED BY <3>3 DEF e, t
  <2> QED BY <2>1, <2>3 DEF FlowInv
<1>4. ASSUME chan # <<>>, Writes(Head(chan))
      PROVE  /\ ChanFits(Tail(chan), Sent) /\ HeardFits(heard', Sent)
             /\ Joins(Tail(chan), heard', Sent)
             /\ link = "up"
  <2>1. /\ link = "up"
        /\ heard' = [heard EXCEPT ![Head(chan).node] = Append(@, Head(chan).at)]
    BY <1>4 DEF Writes
  <2> QED BY <1>1, <1>4, <2>1, WriteFlows DEF FlowInv
<1>5. CASE WritesRequest
  <2>1. /\ chan # <<>> /\ Writes(Head(chan)) /\ chan' = Tail(chan)
        /\ UNCHANGED <<link, wire>>
    BY <1>5 DEF WritesRequest, G!Drain
  <2>2. Sent' = Sent
    BY <2>1 DEF Sent
  <2> QED BY <1>4, <2>1, <2>2 DEF FlowInv
<1>6. ASSUME NEW p \in Pubs, WritesAndPulls(p)
      PROVE  FlowInv'
  <2>1. /\ chan # <<>> /\ Writes(Head(chan)) /\ chan' = Append(Tail(chan), Enters(p))
        /\ UNCHANGED link
    BY <1>6 DEF WritesAndPulls
  <2>2. /\ Enters(p) \in Entries /\ Enters(p).node = call[p].node
        /\ call[p].node \in EdgeNodes /\ Enters(p).at = Sent[call[p].node] + 1
        /\ Sent' = [Sent EXCEPT ![call[p].node] = @ + 1]
    BY <1>6, TakenGrows
  <2>3. Tail(chan) \in Seq(Entries) /\ heard' \in [EdgeNodes -> Seq(Nat)]
    BY <2>1, WritesType
  <2>4. ChanFits(chan', Sent') /\ HeardFits(heard', Sent') /\ Joins(chan', heard', Sent')
    <3> DEFINE e == Enters(p)
               t == Sent'
               x == call[p].node
               a == e.at
               c == Tail(chan)
               h == heard'
    <3>1. /\ e \in Entries /\ x \in EdgeNodes /\ a \in Nat /\ e.node = x /\ e.at = a
          /\ a = Sent[x] + 1 /\ t \in [EdgeNodes -> Nat] /\ t[x] = a
          /\ \A n \in EdgeNodes \ {x} : t[n] = Sent[n]
      BY <1>1, <2>2
    <3>2. /\ c \in Seq(Entries) /\ h \in [EdgeNodes -> Seq(Nat)]
          /\ ChanFits(c, Sent) /\ HeardFits(h, Sent) /\ Joins(c, h, Sent)
      BY <1>4, <2>1, <2>3
    <3> HIDE DEF e, t, c, h, x, a
    <3>3. /\ ChanFits(Append(c, e), t) /\ HeardFits(h, t)
          /\ Joins(c, h, Sent) => Joins(Append(c, e), h, t)
      BY <1>1, <3>1, <3>2, EnterFlows
    <3> QED BY <2>1, <3>2, <3>3 DEF e, t, c, h
  <2> QED BY <2>4 DEF FlowInv
<1>7. ASSUME NEW p \in Pubs, Refused(p) \/ CancelWaiting(p) \/ CancelTaken(p)
      PROVE  FlowInv'
  <2>1. UNCHANGED linkVars
    BY <1>7 DEF Refused, CancelWaiting, CancelTaken
  <2> QED BY <1>2, <1>7, <2>1, DroppedCuts DEF linkVars
<1>8. ASSUME wire' = wire
      PROVE  Sent' = Sent
  BY <1>8 DEF Sent
<1>9. CASE ConnectsAgain
  <2>1. heard' = [n \in EdgeNodes |-> <<>>] /\ UNCHANGED <<chan, wire>>
    BY <1>9 DEF ConnectsAgain, gateVars
  <2>2. HeardFits(heard', Sent') /\ Joins(chan', heard', Sent')
    BY <2>1 DEF HeardFits, Joins
  <2> QED BY <1>8, <2>1, <2>2 DEF FlowInv
<1>10. CASE LinkBreaks
  <2>1. chan' = <<>> /\ link' = "down" /\ UNCHANGED <<heard, wire>>
    BY <1>10 DEF LinkBreaks, G!Discard, gateVars
  <2>2. ChanFits(chan', Sent')
    BY <2>1 DEF ChanFits
  <2> QED BY <1>8, <2>1, <2>2 DEF FlowInv
<1>11. CASE AttemptFails \/ BrokerDisconnects \/ ApplyDown \/ LoopDies
  <2>1. UNCHANGED <<chan, heard, wire>> /\ (link' = "up" => link = "up")
    BY <1>11 DEF AttemptFails, BrokerDisconnects, ApplyDown, LoopDies, G!Close, gateVars,
       linkVars
  <2> QED BY <1>2, <1>8, <2>1
<1>12. ASSUME NEW e \in inflight, Ack(e)
       PROVE  FlowInv'
  BY <1>2, <1>8, <1>12 DEF Ack, gateVars
<1>13. CASE FlushStep \/ UNCHANGED vars
  BY <1>2, <1>8, <1>13 DEF FlushStep, vars, gateVars, linkVars
<1>14. ASSUME NEW p \in Pubs, PublishStep(p)
       PROVE  FlowInv'
  <2>1. CASE SendWithRoom(p) \/ Refused(p) \/ CancelWaiting(p) \/ CancelTaken(p)
    BY <1>3, <1>7, <2>1
  <2>2. CASE ~(SendWithRoom(p) \/ Refused(p) \/ CancelWaiting(p) \/ CancelTaken(p))
    <3>1. UNCHANGED <<linkVars, wire>>
      BY <1>14, <2>2 DEF PublishStep, Call, G!Call, Reserve, G!Reserve, Count, Keep,
         SendFindsFull, G!SendFindsFull, Resume, G!Resume, CancelAtGate, G!CancelAtGate,
         gateVars
    <3> QED BY <1>2, <1>8, <3>1 DEF linkVars
  <2> QED BY <2>1, <2>2
<1> QED BY <1>3, <1>5, <1>6, <1>9, <1>10, <1>11, <1>12, <1>13, <1>14 DEF Next, LoopStep

\* So it holds in every state.
LEMMA FlowInvariant == Spec => []FlowInv
<1>1. Init => FlowInv
  BY DEF Init, FlowInv, ChanFits, HeardFits, Joins
<1> QED BY <1>1, FlowStep, GateInvariant, LinkTypeInvariant, PTL DEF Spec

\* Within one session the broker reads the numbers of an edge node without a
\* gap, whatever waited, was dropped or was cut off: what it hears are
\* neighbours on the wire, and the gate numbers neighbours in a row.
THEOREM SessionIsGapless == Spec => []SessionReadsNoGap
<1>1. ASSUME GP!IInv, LinkTypeOK, PairInv, FlowInv
      PROVE  SessionReadsNoGap
  <2> SUFFICES ASSUME NEW n \in EdgeNodes, NEW j \in 2 .. Len(heard[n]),
                      wire[n][heard[n][j - 1]].kept
               PROVE  LET a == wire[n][heard[n][j - 1]]
                          b == wire[n][heard[n][j]]
                      IN  b.type = "NBIRTH" \/ b.seq = G!Successor(a.seq)
    BY DEF SessionReadsNoGap
  <2> DEFINE w == wire[n]
             i == heard[n][j - 1]
  <2>1. w \in Seq(G!Taken) /\ Len(w) \in Nat
    BY <1>1, GateFacts
  <2>2. i \in 1 .. Len(w) /\ heard[n][j] \in 1 .. Len(w) /\ heard[n][j] = i + 1
    <3>1. Len(heard[n]) \in Nat /\ j - 1 \in 1 .. Len(heard[n]) /\ j \in 1 .. Len(heard[n])
      BY <1>1 DEF LinkTypeOK
    <3>2. Sent[n] = Len(w)
      BY DEF Sent
    <3> QED BY <1>1, <3>1, <3>2 DEF FlowInv, HeardFits
  <2> HIDE DEF w, i
  <2>3. GP!LastKeptBefore(w, i, i + 1)
    <3>1. w[i].kept /\ i \in Nat
      BY <2>1, <2>2 DEF w, i
    <3> QED BY <3>1 DEF GP!LastKeptBefore
  <2>4. GP!NumbersFollow(w)
    BY <1>1 DEF GP!IInv, GP!WireInv, GP!WireOK, w
  <2>5. GP!CountsOn(w[i + 1], w[i].seq)
    BY <2>2, <2>3, <2>4 DEF GP!NumbersFollow
  <2>6. w[i + 1].type \in {"NBIRTH", "DATA"}
    <3>1. w[i + 1] \in G!Taken
      BY <2>1, <2>2
    <3>2. w[i + 1].type # "DBIRTH"
      BY <1>1, <2>2 DEF PairInv, w
    <3> QED BY <3>1, <3>2 DEF G!Taken, G!Types
  <2>7. w[i + 1].type = "NBIRTH" \/ w[i + 1].seq = G!Successor(w[i].seq)
    BY <2>5, <2>6 DEF GP!CountsOn, GP!Successor, G!Successor
  <2> QED BY <2>2, <2>7 DEF w, i
<1> QED BY <1>1, GateInvariant, LinkTypeInvariant, KindInvariant, FlowInvariant, PTL

\* In every session the broker reads the next number or an NBIRTH, whatever
\* came before it.
SessionReadsNoGapAtAll ==
    \A n \in EdgeNodes : \A j \in 2 .. Len(heard[n]) :
        LET a == wire[n][heard[n][j - 1]]
            b == wire[n][heard[n][j]]
        IN  b.type = "NBIRTH" \/ b.seq = G!Successor(a.seq)

\* Without a cancellation at the instant the client takes a message, the broker
\* reads no gap in any session, however many publishes are refused, cancelled
\* or dropped with a link (seq.rs:130; a publisher has no birth to cut in two).
THEOREM SessionIsGaplessOutsideTheWindow ==
    ASSUME CancelWindow = FALSE
    PROVE  Spec => []SessionReadsNoGapAtAll
<1>1. Init => GP!NothingCut
  BY DEF Init, G!Init, GP!NothingCut, G!NoCall
<1>2. GP!IInv /\ GP!NothingCut /\ [Next]_vars => GP!NothingCut'
  BY GateStep, SameGate, GP!NothingCutStep, GateAssumptions
<1>3. ASSUME GP!NothingCut, LinkTypeOK, FlowInv, SessionReadsNoGap
      PROVE  SessionReadsNoGapAtAll
  <2> SUFFICES ASSUME NEW n \in EdgeNodes, NEW j \in 2 .. Len(heard[n])
               PROVE  wire[n][heard[n][j - 1]].kept
    BY <1>3 DEF SessionReadsNoGap, SessionReadsNoGapAtAll
  <2>1. Len(heard[n]) \in Nat /\ j - 1 \in 1 .. Len(heard[n])
    BY <1>3 DEF LinkTypeOK
  <2>2. heard[n][j - 1] \in 1 .. Len(wire[n])
    BY <1>3, <2>1 DEF FlowInv, HeardFits, Sent
  <2> QED BY <1>3, <2>2 DEF GP!NothingCut
<1> QED BY <1>1, <1>2, <1>3, SessionIsGapless, GateInvariant, LinkTypeInvariant,
           FlowInvariant, PTL DEF Spec

----------------------------------------------------------------------------
(* Seen from outside the gates.                                            *)

\* What the proofs about the gate promise is what the client's gate promises.
LEMMA SameAtomic ==
    /\ GP!Atomic!Init => G!Atomic!Init
    /\ [GP!Atomic!Next]_(GP!Atomic!vars) => [G!Atomic!Next]_(G!Atomic!vars)
BY DEF GP!Atomic!Init, G!Atomic!Init, GP!Atomic!Next, G!Atomic!Next,
   GP!Atomic!vars, G!Atomic!vars, GP!Atomic!Data, G!Atomic!Data,
   GP!Atomic!NBirth, G!Atomic!NBirth, GP!Atomic!Birth, G!Atomic!Birth,
   GP!Atomic!CutOff, G!Atomic!CutOff, GP!Atomic!Send, G!Atomic!Send,
   GP!Atomic!Entry, G!Atomic!Entry, GP!Atomic!Successor, G!Atomic!Successor,
   GP!settledWire, G!settledWire, GP!settledCount, G!settledCount,
   GP!Pending, G!Pending

\* The client publishes atomically: whatever the link, the loop and the tracker
\* do around the gates, each publish for an edge node takes effect at one point
\* in time (ADR-0005).
THEOREM ClientPublishesAtomically == Spec => G!AtomicSpec
<1>1. GP!Spec => GP!AtomicSpec
  BY GP!PublishesAreAtomic, GateAssumptions
<1>2. (G!Init => GP!Init) /\ ([G!Next]_(G!vars) => [GP!Next]_(GP!vars))
  BY SameGate
<1> QED BY <1>1, <1>2, SameAtomic, ClientFollowsTheGate, PTL
        DEF G!Spec, GP!Spec, G!AtomicSpec, GP!AtomicSpec, G!Atomic!Spec, GP!Atomic!Spec

----------------------------------------------------------------------------
(* Seen by the caller of flush.                                            *)

\* What the proofs about the tracker promise is what the client's tracker
\* promises: both count with the same Cardinality.
LEMMA SameContract ==
    /\ TP!Contract!Init => T!Contract!Init
    /\ [stray' \/ TP!Contract!Next]_(TP!Contract!vars)
           => [stray' \/ T!Contract!Next]_(T!Contract!vars)
BY DEF TP!Contract!Init, T!Contract!Init, TP!Contract!Next, T!Contract!Next,
   TP!Contract!vars, T!Contract!vars, TP!Contract!Outcome, T!Contract!Outcome,
   TP!Contract!flushes, T!Contract!flushes, TP!Contract!Publish, T!Contract!Publish,
   TP!Contract!Settle, T!Contract!Settle, TP!Contract!LoseAll, T!Contract!LoseAll,
   TP!Contract!Open, T!Contract!Open, TP!Contract!Drain, T!Contract!Drain,
   TP!Contract!Close, T!Contract!Close, TP!Contract!Report, T!Contract!Report,
   TP!Contract!GiveUp, T!Contract!GiveUp, TP!Outstanding, T!Outstanding,
   TP!Contract!Cardinality, T!Contract!Cardinality,
   TP!Contract!IsFiniteSet, T!Contract!IsFiniteSet

\* The client keeps the contract of flush until a message outlives its count,
\* whatever the gates, the channel and the link do to its publishes
\* (delivery.rs, flush).
THEOREM ClientKeepsTheContract == Spec => T!ContractUnlessStray
<1>1. TP!Spec => TP!ContractUnlessStray
  BY TP!TrackerKeepsTheContract, TrackerAssumptions
<1>2. (T!Init => TP!Init) /\ ([T!Next]_(T!vars) => [TP!Next]_(TP!vars))
  BY SameTracker
<1> QED BY <1>1, <1>2, SameContract, ClientFollowsTheTracker, PTL
        DEF T!Spec, TP!Spec, T!ContractUnlessStray, TP!ContractUnlessStray
=============================================================================
