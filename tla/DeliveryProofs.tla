--------------------------- MODULE DeliveryProofs ---------------------------
(***************************************************************************)
(* Proofs about DeliveryTracker, for any finite set of publishes, any      *)
(* number of flushing tasks and disconnects, and whatever the environment  *)
(* may do (Survives, CancelWindow).                                        *)
(***************************************************************************)
EXTENDS DeliveryTracker, DeliveryStateProofs, FiniteSetTheorems, TLAPS

\* A flush opened no later than now, and a waiting flush has a Notified future.
FlushInv ==
    \A f \in Flushers :
        /\ opened[f] <= st.reported
        /\ fpc[f] \in {"check", "wait"} => wake[f] \in {"armed", "woken"}
        /\ fpc[f] # "idle" => window[f] = st.lost + st.reported - opened[f]

\* A ticket is not newer than the tracker, and a message that never left its
\* future has no fate.
TicketInv ==
    \A p \in Pubs :
        /\ ticket[p] <= st.generation
        /\ pub[p] \in {"new", "counted"} => fate[p] = "none"

\* As long as no message outlived its count, a message on its way is counted.
OutInv ==
    ~stray => \A p \in Pubs :
        fate[p] = "out" => pub[p] \in {"taken", "returned"} /\ ticket[p] = st.generation

IInv == TypeOK /\ FlushInv /\ TicketInv /\ OutInv /\ CountIsExact /\ NoSleepAfterDrain

----------------------------------------------------------------------------
(* Types.                                                                  *)

\* Every step keeps the types.
LEMMA TypeStep ==
    ASSUME TypeOK, FlushInv, [Next]_vars
    PROVE  TypeOK'
<1> USE DEF tracker, publishes, flushes, history
<1>0. st \in States
  BY DEF TypeOK
<1>1. ASSUME NEW p \in Pubs, Count(p)
      PROVE  TypeOK'
  <2>1. st' \in States /\ st.generation \in Nat
    BY <1>0, <1>1, Fields DEF Count, States
  <2> QED BY <1>1, <2>1 DEF Count, TypeOK
<1>2. ASSUME NEW p \in Pubs, Take(p)
      PROVE  TypeOK'
  <2>1. stray' \in BOOLEAN
    BY <1>2 DEF Take
  <2> QED BY <1>2, <2>1 DEF Take, TypeOK
<1>3. ASSUME NEW p \in Pubs, Keep(p)
      PROVE  TypeOK'
  BY <1>3 DEF Keep, TypeOK
<1>4. ASSUME NEW p \in Pubs, Fail(p) \/ CancelTaken(p)
      PROVE  TypeOK'
  <2>1. Release(p) /\ stray' \in BOOLEAN
    BY <1>4 DEF Fail, CancelTaken, TypeOK
  <2>2. ticket[p] \in Nat
    BY DEF TypeOK
  <2>3. st' \in States
    BY <1>0, <2>1, <2>2, RollBackFields DEF Release
  <2> QED BY <2>1, <2>3 DEF Release, TypeOK
<1>5. ASSUME NEW p \in Pubs, Ack(p)
      PROVE  TypeOK'
  <2>1. st' \in States
    BY <1>0, <1>5, Fields DEF Ack
  <2> QED BY <1>5, <2>1 DEF Ack, TypeOK
<1>6. ASSUME NEW survivors \in SUBSET Pubs, Disconnect(survivors)
      PROVE  TypeOK'
  <2>1. st' \in States
    BY <1>0, <1>6, Fields DEF Disconnect
  <2>2. fate' \in [Pubs -> {"none", "out", "acked", "gone"}]
    BY <1>6 DEF Disconnect, TypeOK
  <2>3. window' \in [Flushers -> Nat]
    BY <1>6 DEF Disconnect, TypeOK, States
  <2>4. stray' \in BOOLEAN
    BY <1>6 DEF Disconnect
  <2>5. unreported' \subseteq Pubs /\ notifying' \subseteq Pubs \cup {Loop}
    BY <1>6 DEF Disconnect, TypeOK, Outstanding
  <2> QED BY <1>6, <2>1, <2>2, <2>3, <2>4, <2>5 DEF Disconnect, TypeOK
<1>7. ASSUME NEW a \in Pubs \cup {Loop}, NotifyWaiters(a)
      PROVE  TypeOK'
  <2>1. wake' \in [Flushers -> {"none", "armed", "woken"}]
    BY <1>7 DEF NotifyWaiters, WakeAll, TypeOK
  <2> QED BY <1>7, <2>1 DEF NotifyWaiters, TypeOK
<1>8. ASSUME NEW f \in Flushers, Open(f)
      PROVE  TypeOK'
  <2>1. st.reported \in Nat /\ st.lost \in Nat
    BY <1>0 DEF States
  <2>2. opened' \in [Flushers -> Nat] /\ window' \in [Flushers -> Nat]
    BY <1>8, <2>1 DEF Open, TypeOK
  <2>3. result' \in [Flushers -> Results] /\ owed' \in [Flushers -> SUBSET Pubs]
    BY <1>8 DEF Open, TypeOK, NoResult, Results
  <2> QED BY <1>8, <2>2, <2>3 DEF Open, TypeOK
<1>9. ASSUME NEW f \in Flushers, Register(f) \/ Check(f) \/ Wake(f) \/ CancelFlush(f)
      PROVE  TypeOK'
  <2>1. /\ fpc' \in [Flushers -> {"idle", "register", "check", "wait", "report"}]
        /\ wake' \in [Flushers -> {"none", "armed", "woken"}]
    BY <1>9 DEF Register, Check, Wake, CancelFlush, TypeOK
  <2>2. UNCHANGED <<tracker, publishes, opened, result, history>>
    BY <1>9 DEF Register, Check, Wake, CancelFlush
  <2> QED BY <2>1, <2>2 DEF TypeOK
<1>10. ASSUME NEW f \in Flushers, Report(f)
       PROVE  TypeOK'
  <2> DEFINE c == ReportLost(st).reported - opened[f]
  <2>1. st' \in States /\ c \in Nat
    <3>1. st' = ReportLost(st) /\ ReportLost(st) \in States
      BY <1>0, <1>10, Fields DEF Report
    <3>2. ReportLost(st).reported = st.reported + st.lost
      BY <1>0, Fields
    <3>3. opened[f] \in Nat /\ opened[f] <= st.reported /\ st.lost \in Nat /\ st.reported \in Nat
      BY <1>0 DEF FlushInv, TypeOK, States
    <3> QED BY <3>1, <3>2, <3>3
  <2>2. \E kind \in {"ok", "lost"} : \E k \in Nat : Return(f, kind, k)
    BY <1>10, <2>1 DEF Report
  <2> HIDE DEF c
  <2>3. PICK kind \in {"ok", "lost"} : \E k \in Nat : Return(f, kind, k)
    BY <2>2
  <2>4. PICK k \in Nat : Return(f, kind, k)
    BY <2>3
  <2>5. result' \in [Flushers -> Results]
    BY <2>4 DEF Return, TypeOK, Results
  <2>6. /\ fpc' \in [Flushers -> {"idle", "register", "check", "wait", "report"}]
        /\ wake' \in [Flushers -> {"none", "armed", "woken"}]
    BY <2>4 DEF Return, TypeOK
  <2>7. unreported' = {}
    BY <1>10 DEF Report
  <2> QED BY <2>1, <2>4, <2>5, <2>6, <2>7 DEF Return, TypeOK
<1>11. ASSUME NEW f \in Flushers, Timeout(f)
       PROVE  TypeOK'
  <2>1. Return(f, "timeout", st.unacked) /\ st.unacked \in Nat
    BY <1>0, <1>11 DEF Timeout, States
  <2>2. result' \in [Flushers -> Results]
    BY <2>1 DEF Return, TypeOK, Results
  <2>3. /\ fpc' \in [Flushers -> {"idle", "register", "check", "wait", "report"}]
        /\ wake' \in [Flushers -> {"none", "armed", "woken"}]
    BY <2>1 DEF Return, TypeOK
  <2> QED BY <1>11, <2>1, <2>2, <2>3 DEF Return, Timeout, TypeOK
<1>12. ASSUME NEW p \in Pubs, Again(p)
       PROVE  TypeOK'
  <2>1. owed' \in [Flushers -> SUBSET Pubs] /\ unreported' \subseteq Pubs
    BY <1>12 DEF Again, TypeOK
  <2> QED BY <1>12, <2>1 DEF Again, TypeOK
<1>13. CASE UNCHANGED vars
  BY <1>13 DEF vars, TypeOK
<1> QED
  BY <1>1, <1>2, <1>3, <1>4, <1>5, <1>6, <1>7, <1>8, <1>9, <1>10, <1>11, <1>12, <1>13
     DEF Next, PublishStep, LoopStep, FlushStep
----------------------------------------------------------------------------
(* Flushes.                                                                *)

\* Every step keeps FlushInv: a loss enters the record and the window of every
\* open flush together, and a report moves it to reported, where the flush
\* still sees it.
LEMMA FlushInvStep ==
    ASSUME TypeOK, FlushInv, [Next]_vars
    PROVE  FlushInv'
<1> USE DEF tracker, publishes, flushes, history
<1>0. /\ st \in States /\ \A f \in Flushers : opened[f] \in Nat /\ window[f] \in Nat
      /\ st.unacked \in Nat /\ st.lost \in Nat /\ st.reported \in Nat
      /\ \A p \in Pubs : ticket[p] \in Nat
  BY DEF TypeOK, States
<1>1. ASSUME st'.lost = st.lost, st'.reported = st.reported, UNCHANGED <<flushes, window>>
      PROVE  FlushInv'
  BY <1>1 DEF FlushInv
<1>2. ASSUME NEW p \in Pubs, PublishStep(p)
      PROVE  FlushInv'
  <2>1. CASE Count(p)
    BY <1>0, <1>1, <2>1, Fields DEF Count
  <2>2. CASE Take(p) \/ Keep(p) \/ Again(p)
    BY <1>1, <2>2 DEF Take, Keep, Again
  <2>3. CASE Fail(p) \/ CancelTaken(p)
    <3>1. st' = RollBack(st, ticket[p]) /\ UNCHANGED <<flushes, window>>
      BY <2>3 DEF Fail, CancelTaken, Release
    <3>2. st'.lost = st.lost /\ st'.reported = st.reported
      BY <1>0, <3>1, RollBackFields
    <3> QED BY <1>1, <3>1, <3>2
  <2> QED BY <1>2, <2>1, <2>2, <2>3 DEF PublishStep
<1>3. ASSUME NEW p \in Pubs, Ack(p)
      PROVE  FlushInv'
  BY <1>0, <1>1, <1>3, Fields DEF Ack
<1>4. ASSUME NEW survivors \in SUBSET Pubs, Disconnect(survivors)
      PROVE  FlushInv'
  <2>1. st'.lost = st.lost + st.unacked /\ st'.reported = st.reported
    BY <1>0, <1>4, Fields DEF Disconnect
  <2>2. /\ UNCHANGED flushes
        /\ \A f \in Flushers : fpc[f] # "idle" => window'[f] = window[f] + st.unacked
    BY <1>4 DEF Disconnect
  <2> QED BY <1>0, <2>1, <2>2 DEF FlushInv
<1>5. ASSUME NEW a \in Pubs \cup {Loop}, NotifyWaiters(a)
      PROVE  FlushInv'
  <2>1. UNCHANGED <<st, fpc, opened, window>>
    BY <1>5 DEF NotifyWaiters
  <2>2. \A f \in Flushers : wake[f] \in {"armed", "woken"} => wake'[f] \in {"armed", "woken"}
    BY <1>5 DEF NotifyWaiters, WakeAll, TypeOK
  <2> QED BY <2>1, <2>2 DEF FlushInv
<1>6. ASSUME NEW f \in Flushers, Open(f)
      PROVE  FlushInv'
  <2>1. /\ opened' = [opened EXCEPT ![f] = st.reported]
        /\ window' = [window EXCEPT ![f] = st.lost]
        /\ fpc' = [fpc EXCEPT ![f] = "register"] /\ UNCHANGED <<st, wake>>
    BY <1>6 DEF Open
  <2>2. ASSUME NEW g \in Flushers
        PROVE  /\ opened'[g] <= st.reported
               /\ fpc'[g] \in {"check", "wait"} => wake[g] \in {"armed", "woken"}
               /\ fpc'[g] # "idle" => window'[g] = st.lost + st.reported - opened'[g]
    <3>1. CASE g = f
      BY <1>0, <2>1, <3>1 DEF TypeOK
    <3>2. CASE g # f
      BY <2>1, <3>2 DEF FlushInv, TypeOK
    <3> QED BY <3>1, <3>2
  <2> QED BY <2>1, <2>2 DEF FlushInv
<1>7. ASSUME NEW f \in Flushers, Register(f) \/ Check(f) \/ Wake(f) \/ CancelFlush(f)
      PROVE  FlushInv'
  <2>1. UNCHANGED <<st, opened, window>>
    BY <1>7 DEF Register, Check, Wake, CancelFlush
  <2>2. ASSUME NEW g \in Flushers
        PROVE  /\ fpc'[g] \in {"check", "wait"} => wake'[g] \in {"armed", "woken"}
               /\ fpc'[g] # "idle" => fpc[g] # "idle"
    <3>1. CASE g = f
      BY <1>7, <3>1 DEF Register, Check, Wake, CancelFlush, FlushInv, TypeOK
    <3>2. CASE g # f
      BY <1>7, <3>2 DEF Register, Check, Wake, CancelFlush, FlushInv, TypeOK
    <3> QED BY <3>1, <3>2
  <2> QED BY <2>1, <2>2 DEF FlushInv
<1>8. ASSUME NEW f \in Flushers, Report(f) \/ Timeout(f)
      PROVE  FlushInv'
  <2>1. /\ st'.lost + st'.reported = st.lost + st.reported /\ st.reported <= st'.reported
        /\ st'.lost \in Nat /\ st'.reported \in Nat
    BY <1>0, <1>8, Fields DEF Report, Timeout
  <2>2. /\ fpc' = [fpc EXCEPT ![f] = "idle"] /\ wake' = [wake EXCEPT ![f] = "none"]
        /\ UNCHANGED <<opened, window>>
    BY <1>8 DEF Report, Timeout, Return
  <2>3. ASSUME NEW g \in Flushers
        PROVE  /\ opened'[g] <= st'.reported
               /\ fpc'[g] \in {"check", "wait"} => wake'[g] \in {"armed", "woken"}
               /\ fpc'[g] # "idle" => window'[g] = st'.lost + st'.reported - opened'[g]
    <3>1. opened'[g] <= st'.reported
      BY <1>0, <2>1, <2>2 DEF FlushInv
    <3>2. CASE g = f
      BY <2>2, <3>1, <3>2 DEF TypeOK
    <3>3. CASE g # f
      <4>1. fpc'[g] = fpc[g] /\ wake'[g] = wake[g] /\ window'[g] = window[g] /\ opened'[g] = opened[g]
        BY <2>2, <3>3 DEF TypeOK
      <4> QED BY <1>0, <2>1, <3>1, <4>1 DEF FlushInv
    <3> QED BY <3>2, <3>3
  <2> QED BY <2>3 DEF FlushInv
<1>9. CASE UNCHANGED vars
  BY <1>1, <1>9 DEF vars
<1> QED
  BY <1>2, <1>3, <1>4, <1>5, <1>6, <1>7, <1>8, <1>9 DEF Next, LoopStep, FlushStep

----------------------------------------------------------------------------
(* Waiting.                                                                *)

\* Whatever takes the count to zero leaves somebody who will call
\* notify_waiters, and a flush that goes to sleep saw a count above zero.
LEMMA SleepStep ==
    ASSUME TypeOK, FlushInv, NoSleepAfterDrain, [Next]_vars
    PROVE  NoSleepAfterDrain'
<1> USE DEF tracker, publishes, flushes, history
<1>0. st \in States /\ st.unacked \in Nat /\ \A p \in Pubs : ticket[p] \in Nat
  BY DEF TypeOK, States
<1>1. ASSUME notifying' # {}
      PROVE  NoSleepAfterDrain'
  BY <1>1 DEF NoSleepAfterDrain
<1>2. ASSUME st'.unacked = st.unacked, notifying' = notifying,
             \A f \in Flushers : fpc'[f] = "wait" => fpc[f] = "wait" /\ wake'[f] = wake[f]
      PROVE  NoSleepAfterDrain'
  BY <1>2 DEF NoSleepAfterDrain
<1>3. ASSUME NEW p \in Pubs, PublishStep(p)
      PROVE  NoSleepAfterDrain'
  <2>1. CASE Count(p)
    <3>1. st'.unacked = st.unacked + 1
      BY <1>0, <2>1, Fields DEF Count
    <3> QED BY <1>0, <3>1 DEF NoSleepAfterDrain
  <2>2. CASE Take(p) \/ Keep(p) \/ Again(p)
    BY <1>2, <2>2 DEF Take, Keep, Again
  <2>3. CASE Fail(p) \/ CancelTaken(p)
    <3>1. Release(p)
      BY <2>3 DEF Fail, CancelTaken
    <3>2. CASE TicketIsCurrent(st, ticket[p])
      BY <1>1, <3>1, <3>2 DEF Release
    <3>3. CASE ~TicketIsCurrent(st, ticket[p])
      BY <1>2, <3>1, <3>3 DEF Release, RollBack
    <3> QED BY <3>2, <3>3
  <2> QED BY <1>3, <2>1, <2>2, <2>3 DEF PublishStep
<1>4. ASSUME LoopStep
      PROVE  NoSleepAfterDrain'
  BY <1>1, <1>4 DEF LoopStep, Ack, Disconnect
<1>5. ASSUME NEW a \in Pubs \cup {Loop}, NotifyWaiters(a)
      PROVE  NoSleepAfterDrain'
  <2>1. ASSUME NEW f \in Flushers, fpc'[f] = "wait"
        PROVE  wake'[f] = "woken"
    <3>1. fpc[f] = "wait" /\ wake[f] \in {"armed", "woken"}
      BY <1>5, <2>1 DEF NotifyWaiters, FlushInv
    <3> QED BY <1>5, <3>1 DEF NotifyWaiters, WakeAll
  <2> QED BY <2>1 DEF NoSleepAfterDrain
<1>6. ASSUME NEW f \in Flushers, Check(f)
      PROVE  NoSleepAfterDrain'
  <2>1. CASE st.unacked = 0
    BY <1>2, <1>6, <2>1 DEF Check, TypeOK
  <2>2. CASE st.unacked # 0
    BY <1>6, <2>2 DEF Check, NoSleepAfterDrain
  <2> QED BY <2>1, <2>2
<1>7. ASSUME NEW f \in Flushers, Open(f) \/ Register(f) \/ Wake(f) \/ CancelFlush(f)
      PROVE  NoSleepAfterDrain'
  BY <1>2, <1>7 DEF Open, Register, Wake, CancelFlush, TypeOK
<1>8. ASSUME NEW f \in Flushers, Report(f) \/ Timeout(f)
      PROVE  NoSleepAfterDrain'
  <2>1. st'.unacked = st.unacked
    BY <1>0, <1>8, Fields DEF Report, Timeout
  <2>2. /\ fpc' = [fpc EXCEPT ![f] = "idle"] /\ wake' = [wake EXCEPT ![f] = "none"]
        /\ notifying' = notifying
    BY <1>8 DEF Report, Timeout, Return
  <2> QED BY <1>2, <2>1, <2>2 DEF TypeOK
<1>9. CASE UNCHANGED vars
  BY <1>2, <1>9 DEF vars
<1> QED
  BY <1>3, <1>4, <1>5, <1>6, <1>7, <1>8, <1>9 DEF Next, FlushStep
----------------------------------------------------------------------------
(* Counting.                                                               *)

\* A step that has nothing to do with publishes keeps their invariants.
LEMMA CountFrame ==
    ASSUME TicketInv, OutInv, CountIsExact, UNCHANGED publishes,
           st'.unacked = st.unacked, st'.generation = st.generation, stray' = stray
    PROVE  TicketInv' /\ OutInv' /\ CountIsExact'
<1>1. Outstanding' = Outstanding
  BY DEF publishes, Outstanding
<1>2. TicketInv' /\ OutInv'
  BY DEF publishes, TicketInv, OutInv
<1> QED BY <1>1, <1>2 DEF CountIsExact

\* Outstanding is finite, so it has a size.
LEMMA OutstandingFinite ==
    IsFiniteSet(Outstanding) /\ Cardinality(Outstanding) \in Nat
<1>1. Outstanding \in SUBSET Pubs
  BY DEF Outstanding
<1> QED BY <1>1, PubsAssumption, FS_Subset, FS_CardinalityType

\* Every step keeps the count exact. A publish enters Outstanding when it is
\* counted and leaves it when it is answered, rolled back with a ticket that
\* is still good, or recorded as lost along with all the others.
LEMMA CountStep ==
    ASSUME TypeOK, FlushInv, TicketInv, OutInv, CountIsExact, [Next]_vars
    PROVE  TicketInv' /\ OutInv' /\ CountIsExact'
<1> DEFINE Goal == TicketInv' /\ OutInv' /\ CountIsExact'
<1>0. /\ st \in States /\ st.unacked \in Nat /\ st.generation \in Nat
      /\ \A p \in Pubs : ticket[p] \in Nat /\ ticket[p] <= st.generation
  BY DEF TypeOK, States, TicketInv
<1>1. ASSUME NEW p \in Pubs, Count(p)
      PROVE  Goal
  <2>1. /\ st'.unacked = st.unacked + 1 /\ st'.generation = st.generation
        /\ ticket' = [ticket EXCEPT ![p] = st.generation]
        /\ pub' = [pub EXCEPT ![p] = "counted"]
        /\ pub[p] = "new" /\ fate[p] = "none" /\ fate' = fate /\ stray' = stray
    BY <1>0, <1>1, Fields DEF Count, TicketInv, history
  <2>2. Outstanding' = Outstanding \cup {p} /\ p \notin Outstanding
    BY <2>1 DEF Outstanding, TypeOK
  <2>3. Cardinality(Outstanding') = Cardinality(Outstanding) + 1
    BY <2>2, OutstandingFinite, FS_AddElement
  <2>4. TicketInv'
    BY <1>0, <2>1 DEF TicketInv, TypeOK
  <2>5. OutInv'
    BY <2>1 DEF OutInv, TypeOK
  <2> QED BY <2>1, <2>3, <2>4, <2>5 DEF CountIsExact
<1>2. ASSUME NEW p \in Pubs, Take(p)
      PROVE  Goal
  <2>1. /\ st' = st /\ ticket' = ticket /\ pub[p] = "counted" /\ fate[p] = "none"
        /\ pub' = [pub EXCEPT ![p] = "taken"] /\ fate' = [fate EXCEPT ![p] = "out"]
        /\ ~stray' => ~stray /\ ticket[p] = st.generation
    BY <1>2 DEF Take, TicketInv, tracker
  <2>2. Outstanding' = Outstanding
    BY <2>1 DEF Outstanding, TypeOK
  <2>3. TicketInv'
    BY <2>1 DEF TicketInv, TypeOK
  <2>4. OutInv'
    BY <2>1 DEF OutInv, TypeOK
  <2> QED BY <2>1, <2>2, <2>3, <2>4 DEF CountIsExact
<1>3. ASSUME NEW p \in Pubs, Keep(p)
      PROVE  Goal
  <2>1. /\ st' = st /\ ticket' = ticket /\ fate' = fate /\ stray' = stray
        /\ pub[p] = "taken" /\ pub' = [pub EXCEPT ![p] = "returned"]
    BY <1>3 DEF Keep, tracker, history
  <2>2. Outstanding' = Outstanding
    BY <2>1 DEF Outstanding, TypeOK
  <2>3. TicketInv' /\ OutInv'
    BY <2>1 DEF TicketInv, OutInv, TypeOK
  <2> QED BY <2>1, <2>2, <2>3 DEF CountIsExact
<1>4. ASSUME NEW p \in Pubs, Release(p), pub[p] \in {"counted", "taken"},
             stray' = stray \/ stray' = TRUE, ~stray' => pub[p] = "counted"
      PROVE  Goal
  <2>1. /\ ticket' = ticket /\ fate' = fate /\ pub' = [pub EXCEPT ![p] = "failed"]
        /\ st' = RollBack(st, ticket[p]) /\ st'.generation = st.generation
    BY <1>0, <1>4, RollBackFields DEF Release
  <2>2. TicketInv'
    BY <2>1, <1>4 DEF TicketInv, TypeOK
  <2>3. ASSUME ~stray'
        PROVE  ~stray /\ pub[p] = "counted" /\ fate[p] = "none"
    BY <1>4, <2>3 DEF TicketInv
  <2>4. OutInv'
    BY <2>1, <2>3 DEF OutInv, TypeOK
  <2>5. ASSUME ~stray'
        PROVE  st'.unacked = Cardinality(Outstanding')
    <3>1. Outstanding' = Outstanding \ {p}
      BY <2>1 DEF Outstanding, TypeOK
    <3>2. st.unacked = Cardinality(Outstanding)
      BY <2>3, <2>5 DEF CountIsExact
    <3>3. CASE ticket[p] = st.generation
      <4>1. p \in Outstanding
        BY <2>3, <2>5, <3>3 DEF Outstanding
      <4>2. Cardinality(Outstanding') = Cardinality(Outstanding) - 1
        BY <3>1, <4>1, OutstandingFinite, FS_RemoveElement
      <4>3. Cardinality(Outstanding) # 0
        BY <4>1, OutstandingFinite, FS_EmptySet
      <4>4. st'.unacked = st.unacked - 1
        <5>1. st' = ReleaseOne(st)
          BY <1>0, <2>1, <3>3, RollBackFields
        <5>2. st.unacked # 0
          BY <3>2, <4>3
        <5> QED BY <1>0, <5>1, <5>2, Fields
      <4> QED BY <3>2, <4>2, <4>4
    <3>4. CASE ticket[p] # st.generation
      <4>1. Outstanding' = Outstanding
        BY <3>1, <3>4 DEF Outstanding
      <4>2. st' = st
        BY <1>0, <2>1, <3>4, RollBackFields
      <4> QED BY <3>2, <4>1, <4>2
    <3> QED BY <3>3, <3>4
  <2> QED BY <2>2, <2>4, <2>5 DEF CountIsExact
<1>5. ASSUME NEW p \in Pubs, Ack(p)
      PROVE  Goal
  <2>1. /\ fate[p] = "out" /\ fate' = [fate EXCEPT ![p] = "acked"] /\ stray' = stray
        /\ st' = ReleaseOne(st) /\ st'.generation = st.generation
        /\ UNCHANGED <<pub, ticket>>
    BY <1>0, <1>5, Fields DEF Ack, history
  <2>2. TicketInv'
    BY <2>1 DEF TicketInv, TypeOK
  <2>3. OutInv'
    BY <2>1 DEF OutInv, TypeOK
  <2>4. ASSUME ~stray
        PROVE  st'.unacked = Cardinality(Outstanding')
    <3>1. p \in Outstanding
      BY <2>1, <2>4 DEF OutInv, Outstanding
    <3>2. Outstanding' = Outstanding \ {p}
      BY <2>1 DEF Outstanding, TypeOK
    <3>3. st.unacked = Cardinality(Outstanding) /\ Cardinality(Outstanding) # 0
      BY <2>4, <3>1, OutstandingFinite, FS_EmptySet DEF CountIsExact
    <3>4. Cardinality(Outstanding') = Cardinality(Outstanding) - 1
      BY <3>1, <3>2, OutstandingFinite, FS_RemoveElement
    <3> QED BY <1>0, <2>1, <3>3, <3>4, Fields
  <2> QED BY <2>1, <2>2, <2>3, <2>4 DEF CountIsExact
<1>6. ASSUME NEW survivors \in SUBSET Pubs, Disconnect(survivors)
      PROVE  Goal
  <2>1. /\ st'.unacked = 0 /\ st'.generation = st.generation + 1
        /\ UNCHANGED <<pub, ticket>>
        /\ fate' = [p \in Pubs |-> IF fate[p] = "out" /\ p \notin survivors
                                   THEN "gone" ELSE fate[p]]
        /\ ~stray' => survivors = {}
    BY <1>0, <1>6, Fields DEF Disconnect
  <2>2. Outstanding' = {}
    BY <1>0, <2>1 DEF Outstanding
  <2>3. TicketInv'
    BY <1>0, <2>1 DEF TicketInv
  <2>4. OutInv'
    BY <2>1 DEF OutInv
  <2> QED BY <2>1, <2>2, <2>3, <2>4, FS_EmptySet DEF CountIsExact
<1>7. ASSUME NEW a \in Pubs \cup {Loop}, NotifyWaiters(a)
      PROVE  Goal
  BY <1>7, CountFrame DEF NotifyWaiters, history
<1>8. ASSUME NEW f \in Flushers, FlushStep(f)
      PROVE  Goal
  <2>1. CASE Report(f)
    <3>1. st'.unacked = st.unacked /\ st'.generation = st.generation
      BY <1>0, <2>1, Fields DEF Report
    <3>2. UNCHANGED <<publishes, stray>>
      BY <2>1 DEF Report, Return
    <3> QED BY <3>1, <3>2, CountFrame
  <2>2. CASE ~Report(f)
    <3>1. UNCHANGED <<st, publishes, stray>>
      BY <1>8, <2>2 DEF FlushStep, Open, Register, Check, Wake, Timeout, CancelFlush, Return,
                        tracker, history
    <3> QED BY <3>1, CountFrame
  <2> QED BY <2>1, <2>2
<1>9. CASE UNCHANGED vars
  BY <1>9, CountFrame DEF vars, tracker, history
<1>10. ASSUME NEW p \in Pubs, Fail(p) \/ CancelTaken(p)
       PROVE  Goal
  BY <1>4, <1>10 DEF Fail, CancelTaken
<1>11. ASSUME NEW p \in Pubs, Again(p)
       PROVE  Goal
  <2>1. /\ st' = st /\ stray' = stray
        /\ pub[p] \in {"failed", "returned"}
        /\ pub[p] = "returned" => fate[p] \in {"acked", "gone"}
        /\ pub' = [pub EXCEPT ![p] = "new"] /\ fate' = [fate EXCEPT ![p] = "none"]
        /\ ticket' = [ticket EXCEPT ![p] = 0]
    BY <1>11 DEF Again, tracker
  <2>2. Outstanding' = Outstanding
    BY <2>1 DEF Outstanding, TypeOK
  <2>3. TicketInv'
    BY <1>0, <2>1 DEF TicketInv, TypeOK
  <2>4. OutInv'
    BY <2>1 DEF OutInv, TypeOK
  <2> QED BY <2>1, <2>2, <2>3, <2>4 DEF CountIsExact
<1> QED
  BY <1>1, <1>2, <1>3, <1>5, <1>6, <1>7, <1>8, <1>9, <1>10, <1>11 DEF Next, PublishStep, LoopStep

----------------------------------------------------------------------------
\* Nothing is counted and nobody flushes at first.
LEMMA InitOK == Init => IInv
<1> SUFFICES ASSUME Init PROVE IInv
  OBVIOUS
<1>1. st \in States /\ st.unacked = 0 /\ st.generation = 0 /\ st.lost = 0 /\ st.reported = 0
  BY DEF Init, NothingOutstanding, States
<1>2. TypeOK
  BY <1>1 DEF Init, TypeOK, NoResult, Results
<1>3. FlushInv /\ TicketInv /\ OutInv /\ NoSleepAfterDrain
  BY <1>1 DEF Init, FlushInv, TicketInv, OutInv, NoSleepAfterDrain
<1>4. Outstanding = {}
  BY DEF Init, Outstanding
<1>5. CountIsExact
  BY <1>1, <1>4, FS_EmptySet DEF CountIsExact
<1> QED BY <1>2, <1>3, <1>5 DEF IInv

\* IInv is an invariant.
LEMMA Invariance == Spec => []IInv
<1>1. IInv /\ [Next]_vars => IInv'
  BY TypeStep, FlushInvStep, SleepStep, CountStep DEF IInv
<1> QED BY <1>1, InitOK, PTL DEF Spec

\* Every variable keeps its type: no counter goes below zero, and a flush never
\* returns a negative loss.
THEOREM TypeCorrect == Spec => []TypeOK
<1>1. IInv => TypeOK
  BY DEF IInv
<1> QED BY <1>1, Invariance, PTL

\* unacked is the number of outstanding publishes, as long as no message
\* outlives its count.
THEOREM CountIsRight == Spec => []CountIsExact
<1>1. IInv => CountIsExact
  BY DEF IInv
<1> QED BY <1>1, Invariance, PTL

----------------------------------------------------------------------------
(* Counting, whatever outlives its count.                                  *)

\* No count stands for nothing.
NeverOverstates == st.unacked <= Cardinality(Outstanding)

\* A step that answers or rolls back one publish at most keeps that.
LEMMA OneLess ==
    ASSUME st \in States, NeverOverstates, NEW p,
           Outstanding' = Outstanding \ {p},
           st' = ReleaseOne(st) \/ (st' = st /\ Outstanding' = Outstanding)
    PROVE  NeverOverstates'
<1>1. st.unacked \in Nat
  BY DEF States
<1>2. CASE Outstanding' = Outstanding
  <2>1. st'.unacked <= st.unacked /\ st'.unacked \in Nat
    <3>1. st' = st \/ st'.unacked = IF st.unacked = 0 THEN 0 ELSE st.unacked - 1
      BY Fields
    <3> QED BY <1>1, <3>1
  <2>2. Cardinality(Outstanding') = Cardinality(Outstanding)
    BY <1>2
  <2> QED BY <1>1, <2>1, <2>2, OutstandingFinite DEF NeverOverstates
<1>3. CASE Outstanding' # Outstanding
  <2>1. p \in Outstanding /\ st' = ReleaseOne(st)
    BY <1>3
  <2>2. Cardinality(Outstanding') = Cardinality(Outstanding) - 1
    BY <2>1, OutstandingFinite, FS_RemoveElement
  <2>3. Cardinality(Outstanding) # 0
    BY <2>1, OutstandingFinite, FS_EmptySet
  <2>4. st'.unacked = IF st.unacked = 0 THEN 0 ELSE st.unacked - 1
    BY <2>1, Fields
  <2> QED BY <1>1, <2>2, <2>3, <2>4, OutstandingFinite DEF NeverOverstates
<1> QED BY <1>2, <1>3

\* Every step keeps it.
LEMMA OverstateStep ==
    ASSUME TypeOK, TicketInv, NeverOverstates, [Next]_vars
    PROVE  NeverOverstates'
<1>0. /\ st \in States /\ st.unacked \in Nat /\ st.generation \in Nat
      /\ \A p \in Pubs : ticket[p] \in Nat /\ ticket[p] <= st.generation
  BY DEF TypeOK, States, TicketInv
<1>1. ASSUME UNCHANGED publishes,
             st'.unacked = st.unacked, st'.generation = st.generation
      PROVE  NeverOverstates'
  <2>1. Outstanding' = Outstanding
    BY <1>1 DEF publishes, Outstanding
  <2> QED BY <1>1, <2>1 DEF NeverOverstates
<1>2. ASSUME NEW p \in Pubs, Count(p)
      PROVE  NeverOverstates'
  <2>1. /\ st'.unacked = st.unacked + 1 /\ st'.generation = st.generation
        /\ ticket' = [ticket EXCEPT ![p] = st.generation]
        /\ pub' = [pub EXCEPT ![p] = "counted"]
        /\ pub[p] = "new" /\ fate[p] = "none" /\ fate' = fate
    BY <1>0, <1>2, Fields DEF Count, TicketInv
  <2>2. Outstanding' = Outstanding \cup {p} /\ p \notin Outstanding
    BY <2>1 DEF Outstanding, TypeOK
  <2>3. Cardinality(Outstanding') = Cardinality(Outstanding) + 1
    BY <2>2, OutstandingFinite, FS_AddElement
  <2> QED BY <1>0, <2>1, <2>3, OutstandingFinite DEF NeverOverstates
<1>3. ASSUME NEW p \in Pubs, Take(p) \/ Keep(p) \/ Again(p)
      PROVE  NeverOverstates'
  <2>1. st' = st
    BY <1>3 DEF Take, Keep, Again, tracker
  <2>2. CASE Take(p)
    <3>1. /\ ticket' = ticket /\ pub[p] = "counted" /\ fate[p] = "none"
          /\ pub' = [pub EXCEPT ![p] = "taken"] /\ fate' = [fate EXCEPT ![p] = "out"]
      BY <2>2 DEF Take, TicketInv
    <3>2. Outstanding' = Outstanding
      BY <2>1, <3>1 DEF Outstanding, TypeOK
    <3> QED BY <2>1, <3>2 DEF NeverOverstates
  <2>3. CASE Keep(p)
    <3>1. Outstanding' = Outstanding
      BY <2>1, <2>3 DEF Keep, Outstanding, TypeOK
    <3> QED BY <2>1, <3>1 DEF NeverOverstates
  <2>4. CASE Again(p)
    <3>1. /\ pub[p] \in {"failed", "returned"}
          /\ pub[p] = "returned" => fate[p] \in {"acked", "gone"}
          /\ pub' = [pub EXCEPT ![p] = "new"] /\ fate' = [fate EXCEPT ![p] = "none"]
          /\ ticket' = [ticket EXCEPT ![p] = 0]
      BY <2>4 DEF Again
    <3>2. Outstanding' = Outstanding
      BY <2>1, <3>1 DEF Outstanding, TypeOK
    <3> QED BY <2>1, <3>2 DEF NeverOverstates
  <2> QED BY <1>3, <2>2, <2>3, <2>4
<1>4. ASSUME NEW p \in Pubs, Fail(p) \/ CancelTaken(p)
      PROVE  NeverOverstates'
  <2>1. /\ ticket' = ticket /\ fate' = fate /\ pub' = [pub EXCEPT ![p] = "failed"]
        /\ st' = RollBack(st, ticket[p]) /\ st'.generation = st.generation
    BY <1>0, <1>4, RollBackFields DEF Fail, CancelTaken, Release
  <2>2. Outstanding' = Outstanding \ {p}
    BY <2>1 DEF Outstanding, TypeOK
  <2>3. CASE ticket[p] = st.generation
    BY <1>0, <2>1, <2>2, <2>3, RollBackFields, OneLess
  <2>4. CASE ticket[p] # st.generation
    <3>1. Outstanding' = Outstanding
      BY <2>2, <2>4 DEF Outstanding
    <3> QED BY <1>0, <2>1, <2>2, <2>4, <3>1, RollBackFields, OneLess
  <2> QED BY <2>3, <2>4
<1>5. ASSUME NEW p \in Pubs, Ack(p)
      PROVE  NeverOverstates'
  <2>1. /\ fate[p] = "out" /\ fate' = [fate EXCEPT ![p] = "acked"]
        /\ st' = ReleaseOne(st) /\ st'.generation = st.generation
        /\ UNCHANGED <<pub, ticket>>
    BY <1>0, <1>5, Fields DEF Ack
  <2>2. Outstanding' = Outstanding \ {p}
    BY <2>1 DEF Outstanding, TypeOK
  <2> QED BY <1>0, <2>1, <2>2, OneLess
<1>6. ASSUME NEW survivors \in SUBSET Pubs, Disconnect(survivors)
      PROVE  NeverOverstates'
  <2>1. st'.unacked = 0 /\ st'.generation = st.generation + 1 /\ UNCHANGED <<pub, ticket>>
    BY <1>0, <1>6, Fields DEF Disconnect
  <2>2. Outstanding' = {}
    BY <1>0, <2>1 DEF Outstanding
  <2> QED BY <2>1, <2>2, FS_EmptySet DEF NeverOverstates
<1>7. ASSUME NEW f \in Flushers, FlushStep(f)
      PROVE  NeverOverstates'
  <2>1. UNCHANGED publishes
    BY <1>7 DEF FlushStep, Open, Register, Check, Wake, Report, Timeout, CancelFlush, Return
  <2>2. st' = st \/ st' = ReportLost(st)
    BY <1>7 DEF FlushStep, Open, Register, Check, Wake, Report, Timeout, CancelFlush, Return,
                tracker
  <2>3. st'.unacked = st.unacked /\ st'.generation = st.generation
    BY <1>0, <2>2, Fields
  <2> QED BY <1>1, <2>1, <2>3
<1>8. CASE (\E a \in Pubs \cup {Loop} : NotifyWaiters(a)) \/ UNCHANGED vars
  BY <1>1, <1>8 DEF NotifyWaiters, vars, tracker
<1> QED BY <1>2, <1>3, <1>4, <1>5, <1>6, <1>7, <1>8 DEF Next, PublishStep, LoopStep

\* The count never overstates: whatever messages outlive their counts, whichever
\* counts late answers and rollbacks take, unacked is not more than the publishes
\* outstanding. So no count is left that nothing will ever clear (publish.rs,
\* "an early PubAck would leave a count that never clears").
THEOREM CountNeverOverstates == Spec => []NeverOverstates
<1>1. Init => NeverOverstates
  <2> SUFFICES ASSUME Init PROVE NeverOverstates
    OBVIOUS
  <2>1. st.unacked = 0
    BY DEF Init, NothingOutstanding
  <2> QED BY <2>1, OutstandingFinite DEF NeverOverstates
<1>2. IInv => TypeOK /\ TicketInv
  BY DEF IInv
<1> QED BY <1>1, <1>2, OverstateStep, Invariance, PTL DEF Spec

\* No flush sleeps through the wake-up that ends its wait (wait_for_drain).
THEOREM NoWakeUpIsLost == Spec => []NoSleepAfterDrain
<1>1. IInv => NoSleepAfterDrain
  BY DEF IInv
<1> QED BY <1>1, Invariance, PTL
\* What a flush reports when it drained: the loss recorded while it was open.
LEMMA ReportCount ==
    ASSUME IInv, NEW f \in Flushers, Report(f)
    PROVE  /\ result'[f].count = st.lost + st.reported - opened[f]
           /\ result'[f].count = window[f]
           /\ result'[f].kind = IF window[f] = 0 THEN "ok" ELSE "lost"
           /\ st.lost <= window[f]
<1> DEFINE c == ReportLost(st).reported - opened[f]
<1>1. /\ st \in States /\ st.lost \in Nat /\ st.reported \in Nat /\ opened[f] \in Nat
      /\ opened[f] <= st.reported /\ window[f] = st.lost + st.reported - opened[f]
  BY DEF IInv, TypeOK, States, FlushInv, Report
<1>2. c = st.lost + st.reported - opened[f]
  BY <1>1, Fields
<1>3. c = window[f] /\ st.lost <= c
  BY <1>1, <1>2
<1>4. IF c = 0 THEN Return(f, "ok", 0) ELSE Return(f, "lost", c)
  BY DEF Report
<1> HIDE DEF c
<1>5. result'[f].count = c /\ result'[f].kind = IF c = 0 THEN "ok" ELSE "lost"
  BY <1>4 DEF Return, IInv, TypeOK
<1> QED BY <1>2, <1>3, <1>5

\* A drained flush reports every loss of its window, whichever of two
\* overlapping flushes took it from the record.
THEOREM WindowIsReported == Spec => ReportsItsWindow
<1> DEFINE A == \A f \in Flushers :
                  (fpc[f] = "report" /\ fpc'[f] = "idle") => result'[f].count = window[f]
<1>1. IInv /\ [Next]_vars => [A]_vars
  <2> SUFFICES ASSUME IInv, Next, NEW f \in Flushers, fpc[f] = "report", fpc'[f] = "idle"
               PROVE  result'[f].count = window[f]
    OBVIOUS
  <2>1. ASSUME NEW g \in Flushers, FlushStep(g)
        PROVE  Report(f)
    <3>1. g = f
      BY <2>1 DEF FlushStep, Open, Register, Check, Wake, Report, Timeout, CancelFlush,
                  Return, IInv, TypeOK
    <3> QED BY <2>1, <3>1 DEF FlushStep, Open, Register, Check, Wake, Timeout, CancelFlush,
                              IInv, TypeOK
  <2>2. CASE \E g \in Flushers : FlushStep(g)
    BY <2>1, <2>2, ReportCount
  <2>3. CASE ~\E g \in Flushers : FlushStep(g)
    BY <2>3 DEF Next, PublishStep, LoopStep, Count, Take, Keep, Fail, CancelTaken, Release,
                Again, Ack, Disconnect, NotifyWaiters, flushes
  <2> QED BY <2>2, <2>3
<1> QED BY <1>1, Invariance, PTL DEF Spec, ReportsItsWindow

\* A loss leaves the record only when a flush tells its caller of it: no
\* timeout and no cancellation can swallow it.
THEOREM LossIsTold == Spec => LossIsToldToSomeone
<1> DEFINE A == st'.lost < st.lost =>
                  \E f \in Flushers : /\ fpc[f] = "report"
                                      /\ result'[f].kind = "lost"
                                      /\ result'[f].count >= st.lost
<1>1. IInv /\ [Next]_vars => [A]_vars
  <2> SUFFICES ASSUME IInv, Next, st'.lost < st.lost
               PROVE  \E f \in Flushers : /\ fpc[f] = "report"
                                          /\ result'[f].kind = "lost"
                                          /\ result'[f].count >= st.lost
    OBVIOUS
  <2>1. /\ st \in States /\ st.lost \in Nat /\ st.unacked \in Nat
        /\ \A p \in Pubs : ticket[p] \in Nat
    BY DEF IInv, TypeOK, States
  <2>2. ASSUME NEW p \in Pubs, PublishStep(p)
        PROVE  FALSE
    <3>1. st'.lost = st.lost
      <4>1. CASE Count(p)
        BY <2>1, <4>1, Fields DEF Count
      <4>2. CASE Take(p) \/ Keep(p) \/ Again(p)
        BY <4>2 DEF Take, Keep, Again, tracker
      <4>3. CASE Fail(p) \/ CancelTaken(p)
        BY <2>1, <4>3, RollBackFields DEF Fail, CancelTaken, Release
      <4> QED BY <2>2, <4>1, <4>2, <4>3 DEF PublishStep
    <3> QED BY <2>1, <3>1
  <2>3. ASSUME LoopStep
        PROVE  FALSE
    <3>1. st'.lost = st.lost \/ st'.lost = st.lost + st.unacked
      BY <2>1, <2>3, Fields DEF LoopStep, Ack, Disconnect
    <3> QED BY <2>1, <3>1
  <2>4. ASSUME NEW a \in Pubs \cup {Loop}, NotifyWaiters(a)
        PROVE  FALSE
    BY <2>1, <2>4 DEF NotifyWaiters
  <2>5. ASSUME NEW f \in Flushers, FlushStep(f)
        PROVE  Report(f)
    BY <2>1, <2>5 DEF FlushStep, Open, Register, Check, Wake, Timeout, CancelFlush, tracker
  <2>6. PICK f \in Flushers : Report(f)
    BY <2>2, <2>3, <2>4, <2>5 DEF Next
  <2>7. /\ result'[f].count = window[f] /\ st.lost <= window[f]
        /\ result'[f].kind = IF window[f] = 0 THEN "ok" ELSE "lost"
    BY <2>6, ReportCount
  <2>8. st'.lost = 0 /\ window[f] \in Nat
    BY <2>1, <2>6, Fields DEF Report, IInv, TypeOK
  <2>9. window[f] # 0
    BY <2>1, <2>7, <2>8
  <2> QED BY <2>1, <2>6, <2>7, <2>8, <2>9 DEF Report
<1> QED BY <1>1, Invariance, PTL DEF Spec, LossIsToldToSomeone

----------------------------------------------------------------------------
(* What an Ok of flush vouches for. A flush owes an answer for publishes   *)
(* that had returned, so it can only be told of them through a PubAck or   *)
(* through a disconnect, and a disconnect shows in its window.             *)

VouchInv ==
    /\ \A f \in Flushers : /\ \A p \in owed[f] : pub[p] = "returned"
                           /\ fpc[f] # "idle" => result[f].kind = "none"
    /\ ~stray =>
         /\ unreported # {} => st.lost > 0
         /\ \A f \in Flushers :
              /\ (fpc[f] # "idle" /\ window[f] = 0) =>
                     \A p \in owed[f] : fate[p] = "acked" \/ p \in Outstanding
              /\ (fpc[f] = "report" /\ window[f] = 0) =>
                     \A p \in owed[f] : fate[p] = "acked"
              /\ FlushOkIsTrue(f)

\* A count of zero means nothing is outstanding.
LEMMA ZeroMeansDrained ==
    ASSUME CountIsExact, ~stray, st.unacked = 0
    PROVE  Outstanding = {}
BY OutstandingFinite, FS_EmptySet DEF CountIsExact

\* A publish step touches no publish that returned, except Again, which also
\* settles what is owed for it.
LEMMA VouchPublish ==
    ASSUME IInv, VouchInv, NEW p \in Pubs, PublishStep(p)
    PROVE  VouchInv'
<1>0. TypeOK /\ TicketInv
  BY DEF IInv
<1>1. st \in States /\ \A q \in Pubs : ticket[q] \in Nat
  BY <1>0 DEF TypeOK
<1>2. /\ st'.lost = st.lost /\ st'.generation = st.generation
      /\ UNCHANGED <<flushes, window>>
      /\ unreported' \subseteq unreported
      /\ ~stray' => ~stray
  <2>1. CASE Count(p)
    BY <1>1, <2>1, Fields DEF Count, history
  <2>2. CASE Take(p)
    BY <2>2 DEF Take, tracker
  <2>3. CASE Keep(p) \/ Again(p)
    BY <2>3 DEF Keep, Again, tracker, history
  <2>4. CASE Fail(p) \/ CancelTaken(p)
    BY <1>1, <2>4, RollBackFields DEF Fail, CancelTaken, Release
  <2> QED BY <1>1, <2>1, <2>2, <2>3, <2>4 DEF PublishStep
<1>3. \A q \in Pubs \ {p} :
        /\ pub'[q] = pub[q] /\ fate'[q] = fate[q] /\ ticket'[q] = ticket[q]
  BY <1>0 DEF PublishStep, Count, Take, Keep, Fail, CancelTaken, Release, Again, TypeOK
<1>4. \A f \in Flushers : owed'[f] \subseteq owed[f] /\ owed[f] \subseteq Pubs /\ p \notin owed'[f]
  BY <1>0 DEF PublishStep, Count, Take, Keep, Fail, CancelTaken, Release, Again, TypeOK,
              VouchInv, history
<1>5. \A q \in Pubs \ {p} : q \in Outstanding' <=> q \in Outstanding
  BY <1>2, <1>3 DEF Outstanding
<1>6. ASSUME NEW f \in Flushers, NEW q \in owed'[f]
      PROVE  /\ q \in owed[f] /\ pub'[q] = pub[q] /\ fate'[q] = fate[q]
             /\ q \in Outstanding' <=> q \in Outstanding
  BY <1>3, <1>4, <1>5
<1> QED BY <1>2, <1>6 DEF VouchInv, FlushOkIsTrue, flushes

\* Every other step keeps VouchInv too.
LEMMA VouchStep ==
    ASSUME IInv, VouchInv, [Next]_vars
    PROVE  VouchInv'
<1>0. TypeOK /\ CountIsExact
  BY DEF IInv
<1>1. /\ st \in States /\ st.unacked \in Nat /\ st.lost \in Nat
      /\ \A f \in Flushers : window[f] \in Nat /\ owed[f] \subseteq Pubs
  BY <1>0 DEF TypeOK, States
<1>2. ASSUME NEW p \in Pubs, Ack(p)
      PROVE  VouchInv'
  <2>1. /\ fate' = [fate EXCEPT ![p] = "acked"] /\ st' = ReleaseOne(st)
        /\ UNCHANGED <<pub, ticket, flushes, history>>
    BY <1>2 DEF Ack
  <2>2. st'.lost = st.lost /\ st'.generation = st.generation
    BY <1>1, <2>1, Fields
  <2>3. \A q \in Pubs : /\ fate[q] = "acked" => fate'[q] = "acked"
                        /\ q \in Outstanding => fate'[q] = "acked" \/ q \in Outstanding'
    BY <1>0, <2>1, <2>2 DEF Outstanding, TypeOK
  <2> QED BY <1>1, <2>1, <2>2, <2>3 DEF VouchInv, FlushOkIsTrue, flushes, history
<1>3. ASSUME NEW survivors \in SUBSET Pubs, Disconnect(survivors)
      PROVE  VouchInv'
  <2>1. /\ UNCHANGED <<pub, ticket, flushes, owed>>
        /\ unreported' = unreported \cup Outstanding
        /\ st'.lost = st.lost + st.unacked
        /\ ~stray' => ~stray
        /\ \A f \in Flushers : window'[f] = IF fpc[f] = "idle" THEN window[f]
                                             ELSE window[f] + st.unacked
    BY <1>1, <1>3, Fields DEF Disconnect
  <2>2. \A q \in Pubs : fate[q] = "acked" => fate'[q] = "acked"
    BY <1>3 DEF Disconnect
  <2>3. ASSUME ~stray, st.unacked = 0
        PROVE  Outstanding = {}
    BY <1>0, <2>3, ZeroMeansDrained
  <2>4. ASSUME ~stray', unreported' # {}
        PROVE  st'.lost > 0
    <3>1. CASE st.unacked = 0
      BY <1>1, <2>1, <2>3, <2>4, <3>1 DEF VouchInv
    <3>2. CASE st.unacked # 0
      BY <1>1, <2>1, <3>2
    <3> QED BY <3>1, <3>2
  <2>5. ASSUME ~stray', NEW f \in Flushers, fpc[f] # "idle", window'[f] = 0
        PROVE  \A p \in owed[f] : fate'[p] = "acked"
    <3>1. window[f] = 0 /\ st.unacked = 0
      BY <1>1, <2>1, <2>5
    <3>2. \A p \in owed[f] : fate[p] = "acked"
      BY <2>1, <2>3, <2>5, <3>1 DEF VouchInv
    <3> QED BY <1>1, <2>2, <3>2
  <2>6. ASSUME ~stray', NEW f \in Flushers
        PROVE  FlushOkIsTrue(f)'
    BY <1>1, <2>1, <2>2, <2>6 DEF VouchInv, FlushOkIsTrue, flushes
  <2> QED BY <2>1, <2>4, <2>5, <2>6 DEF VouchInv, flushes
<1>4. ASSUME NEW a \in Pubs \cup {Loop}, NotifyWaiters(a)
      PROVE  VouchInv'
  BY <1>4 DEF NotifyWaiters, publishes, history, VouchInv, FlushOkIsTrue, Outstanding
<1>5. ASSUME NEW f \in Flushers, Open(f)
      PROVE  VouchInv'
  <2>1. /\ fpc' = [fpc EXCEPT ![f] = "register"]
        /\ result' = [result EXCEPT ![f] = NoResult]
        /\ owed' = [owed EXCEPT ![f] =
                      {p \in Pubs : pub[p] = "returned" /\ (p \in Outstanding \cup unreported)}]
        /\ window' = [window EXCEPT ![f] = st.lost]
        /\ UNCHANGED <<st, pub, ticket, fate, unreported, stray>>
    BY <1>5 DEF Open, tracker, publishes
  <2>2. Outstanding' = Outstanding
    BY <2>1 DEF Outstanding
  <2>3. /\ fpc'[f] = "register" /\ result'[f].kind = "none" /\ window'[f] = st.lost
        /\ owed'[f] = {p \in Pubs : pub[p] = "returned" /\ (p \in Outstanding \cup unreported)}
    BY <1>0, <2>1 DEF TypeOK, NoResult
  <2>4. \A g \in Flushers \ {f} : /\ fpc'[g] = fpc[g] /\ result'[g] = result[g]
                                  /\ owed'[g] = owed[g] /\ window'[g] = window[g]
    BY <1>0, <2>1 DEF TypeOK
  <2>5. ASSUME ~stray, st.lost = 0
        PROVE  unreported = {}
    BY <2>5 DEF VouchInv
  <2> QED BY <2>1, <2>2, <2>3, <2>4, <2>5 DEF VouchInv, FlushOkIsTrue
<1>6. ASSUME NEW f \in Flushers, Register(f) \/ Check(f) \/ Wake(f) \/ CancelFlush(f)
      PROVE  VouchInv'
  <2>1. /\ UNCHANGED <<st, pub, ticket, fate, result, unreported, stray, owed, window>>
        /\ \A g \in Flushers : fpc'[g] # "idle" => fpc[g] # "idle"
        /\ \A g \in Flushers : fpc'[g] = "report" => fpc[g] = "report" \/ st.unacked = 0
    BY <1>0, <1>6 DEF Register, Check, Wake, CancelFlush, tracker, publishes, history, TypeOK
  <2>2. Outstanding' = Outstanding
    BY <2>1 DEF Outstanding
  <2>3. ASSUME ~stray, st.unacked = 0
        PROVE  Outstanding = {}
    BY <1>0, <2>3, ZeroMeansDrained
  <2>4. ASSUME ~stray, NEW g \in Flushers, fpc'[g] = "report", window[g] = 0
        PROVE  \A p \in owed[g] : fate[p] = "acked"
    BY <2>1, <2>3, <2>4 DEF VouchInv
  <2> QED BY <2>1, <2>2, <2>4 DEF VouchInv, FlushOkIsTrue
<1>7. ASSUME NEW f \in Flushers, Report(f) \/ Timeout(f)
      PROVE  VouchInv'
  <2>1. /\ UNCHANGED <<pub, ticket, fate, stray, owed, window>>
        /\ fpc' = [fpc EXCEPT ![f] = "idle"]
        /\ \A g \in Flushers \ {f} : result'[g] = result[g]
    BY <1>0, <1>7 DEF Report, Timeout, Return, publishes, TypeOK
  <2>2. st'.generation = st.generation
    BY <1>1, <1>7, Fields DEF Report, Timeout
  <2>3. Outstanding' = Outstanding
    BY <2>1, <2>2 DEF Outstanding
  <2>4. unreported' = {} \/ (unreported' = unreported /\ st' = st)
    BY <1>7 DEF Report, Timeout
  <2>5. result'[f].kind = "ok" => fpc[f] = "report" /\ window[f] = 0
    <3>1. CASE Report(f)
      BY <3>1, ReportCount DEF Report
    <3>2. CASE Timeout(f)
      BY <1>0, <3>2 DEF Timeout, Return, TypeOK
    <3> QED BY <1>7, <3>1, <3>2
  <2>6. fpc'[f] = "idle" /\ \A g \in Flushers \ {f} : fpc'[g] = fpc[g]
    BY <1>0, <2>1 DEF TypeOK
  <2> QED BY <2>1, <2>3, <2>4, <2>5, <2>6 DEF VouchInv, FlushOkIsTrue
<1>8. CASE UNCHANGED vars
  BY <1>8 DEF vars, tracker, publishes, flushes, history, VouchInv, FlushOkIsTrue, Outstanding
<1> QED
  BY <1>2, <1>3, <1>4, <1>5, <1>6, <1>7, <1>8, VouchPublish DEF Next, LoopStep, FlushStep

\* A flush that returned Ok vouches for every publish that had returned before
\* it opened and that no earlier flush reported lost: the broker acknowledged it.
THEOREM FlushVouches == Spec => []FlushOkMeansAckedUnlessStray
<1>1. Init => VouchInv
  BY DEF Init, VouchInv, FlushOkIsTrue, NoResult
<1>2. IInv /\ VouchInv /\ [Next]_vars => VouchInv'
  BY VouchStep
<1>3. VouchInv => FlushOkMeansAckedUnlessStray
  BY DEF VouchInv, FlushOkMeansAckedUnlessStray
<1> QED BY <1>1, <1>2, <1>3, Invariance, PTL DEF Spec

----------------------------------------------------------------------------
(* What it takes for the two documented claims that the code breaks.       *)

\* Without a late message and without a cancellation at the worst moment no
\* message outlives its count.
LEMMA QuietSession ==
    ASSUME ~Survives, ~CancelWindow
    PROVE  Spec => []~stray
<1>1. Init => ~stray
  BY DEF Init
<1>2. ~stray /\ [Next]_vars => ~stray'
  <2> SUFFICES ASSUME ~stray, [Next]_vars PROVE ~stray'
    OBVIOUS
  <2>1. ASSUME NEW p \in Pubs, PublishStep(p)
        PROVE  ~stray'
    <3>1. CASE Take(p)
      BY <3>1 DEF Take
    <3>2. CASE Count(p) \/ Keep(p) \/ Fail(p) \/ Again(p)
      BY <3>2 DEF Count, Keep, Fail, Again, history
    <3> QED BY <2>1, <3>1, <3>2 DEF PublishStep, CancelTaken
  <2>2. ASSUME NEW p \in Pubs, Ack(p)
        PROVE  ~stray'
    BY <2>2 DEF Ack, history
  <2>3. ASSUME NEW survivors \in SUBSET Pubs, Disconnect(survivors)
        PROVE  ~stray'
    BY <2>3 DEF Disconnect
  <2>4. ASSUME NEW a \in Pubs \cup {Loop}, NotifyWaiters(a)
        PROVE  ~stray'
    BY <2>4 DEF NotifyWaiters, history
  <2>5. ASSUME NEW f \in Flushers, FlushStep(f)
        PROVE  ~stray'
    BY <2>5 DEF FlushStep, Open, Register, Check, Wake, Report, Timeout, CancelFlush, Return,
                history
  <2>6. CASE UNCHANGED vars
    BY <2>6 DEF vars, history
  <2> QED BY <2>1, <2>2, <2>3, <2>4, <2>5, <2>6 DEF Next, LoopStep
<1> QED BY <1>1, <1>2, PTL DEF Spec

\* In such a session an Ok means what delivery.rs:162 says.
THEOREM FlushOkHoldsInAQuietSession ==
    ASSUME ~Survives, ~CancelWindow
    PROVE  Spec => []FlushOkMeansAcked
<1>1. ~stray /\ FlushOkMeansAckedUnlessStray => FlushOkMeansAcked
  BY DEF FlushOkMeansAckedUnlessStray, FlushOkMeansAcked
<1> QED BY <1>1, QuietSession, FlushVouches, PTL

\* Only a disconnect lets a message outlive its count, cancellations at the worst
\* moment left aside: until the first one an Ok means what delivery.rs:162 says,
\* late messages or not.
THEOREM FlushOkHoldsUntilADisconnect ==
    ASSUME ~CancelWindow
    PROVE  Spec => [](st.generation = 0 => FlushOkMeansAcked)
<1> DEFINE Astray == stray => st.generation > 0
<1>1. Init => Astray
  BY DEF Init
<1>2. ASSUME IInv, Astray, [Next]_vars
      PROVE  Astray'
  <2>0. /\ st \in States /\ st.generation \in Nat
        /\ \A p \in Pubs : ticket[p] \in Nat /\ ticket[p] <= st.generation
    BY <1>2 DEF IInv, TypeOK, TicketInv, States
  <2>1. ASSUME stray' = stray, st'.generation = st.generation
        PROVE  Astray'
    BY <1>2, <2>1
  <2>2. ASSUME NEW p \in Pubs, PublishStep(p)
        PROVE  Astray'
    <3>1. CASE Take(p)
      <4>1. st' = st /\ stray' = (stray \/ ticket[p] # st.generation)
        BY <3>1 DEF Take, tracker
      <4>2. ticket[p] # st.generation => st.generation > 0
        BY <2>0
      <4>3. stray' => stray \/ ticket[p] # st.generation
        BY <4>1, Zenon
      <4>4. stray' => st.generation > 0
        BY <1>2, <4>2, <4>3
      <4> QED BY <4>1, <4>4
    <3>2. CASE Count(p)
      BY <2>0, <2>1, <3>2, Fields DEF Count, history
    <3>3. CASE Fail(p)
      BY <2>0, <2>1, <3>3, RollBackFields DEF Fail, Release
    <3>4. CASE Keep(p) \/ Again(p)
      BY <2>1, <3>4 DEF Keep, Again, tracker, history
    <3> QED BY <2>2, <3>1, <3>2, <3>3, <3>4 DEF PublishStep, CancelTaken
  <2>3. ASSUME NEW p \in Pubs, Ack(p)
        PROVE  Astray'
    BY <2>0, <2>1, <2>3, Fields DEF Ack, history
  <2>4. ASSUME NEW survivors \in SUBSET Pubs, Disconnect(survivors)
        PROVE  Astray'
    <3>1. st'.generation = st.generation + 1
      BY <2>0, <2>4, Fields DEF Disconnect
    <3> QED BY <2>0, <3>1
  <2>5. ASSUME NEW a \in Pubs \cup {Loop}, NotifyWaiters(a)
        PROVE  Astray'
    BY <2>1, <2>5 DEF NotifyWaiters, history
  <2>6. ASSUME NEW f \in Flushers, FlushStep(f)
        PROVE  Astray'
    <3>1. CASE Report(f)
      BY <2>0, <2>1, <3>1, Fields DEF Report, Return
    <3>2. CASE ~Report(f)
      BY <2>1, <2>6, <3>2 DEF FlushStep, Open, Register, Check, Wake, Timeout, CancelFlush,
                              Return, tracker, history
    <3> QED BY <3>1, <3>2
  <2>7. CASE UNCHANGED vars
    BY <2>1, <2>7 DEF vars, tracker, history
  <2> QED BY <1>2, <2>2, <2>3, <2>4, <2>5, <2>6, <2>7 DEF Next, LoopStep
<1>3. Astray /\ FlushOkMeansAckedUnlessStray => (st.generation = 0 => FlushOkMeansAcked)
  BY DEF FlushOkMeansAckedUnlessStray, FlushOkMeansAcked
<1> QED BY <1>1, <1>2, <1>3, FlushVouches, Invariance, PTL DEF Spec

\* Unless a cancellation meets a message the client just took, the guard of a
\* publish releases only the count that stands for it (publish.rs:358), late
\* messages or not.
THEOREM GuardHoldsOutsideTheWindow ==
    ASSUME ~CancelWindow
    PROVE  Spec => GuardReleasesOwnCount
<1> DEFINE A == \A p \in Pubs :
                  (pub[p] # "failed" /\ pub'[p] = "failed" /\ st'.unacked < st.unacked)
                      => p \in Outstanding
<1>1. IInv /\ [Next]_vars => [A]_vars
  <2> SUFFICES ASSUME IInv, Next, NEW p \in Pubs,
                      pub[p] # "failed", pub'[p] = "failed", st'.unacked < st.unacked
               PROVE  p \in Outstanding
    OBVIOUS
  <2>0. TypeOK /\ TicketInv
    BY DEF IInv
  <2>1. /\ st \in States /\ st.unacked \in Nat /\ ticket[p] \in Nat
    BY <2>0 DEF TypeOK, States
  <2>2. PICK q \in Pubs : PublishStep(q)
    BY DEF Next, LoopStep, FlushStep, Ack, Disconnect, NotifyWaiters, Open, Register, Check,
           Wake, Report, Timeout, CancelFlush, Return, publishes
  <2>3. Fail(p)
    BY <2>0, <2>2 DEF PublishStep, Count, Take, Keep, Fail, Release, CancelTaken, Again, TypeOK
  <2>4. pub[p] = "counted" /\ fate[p] = "none" /\ st' = RollBack(st, ticket[p])
    BY <2>0, <2>3 DEF Fail, Release, TicketInv
  <2>5. ticket[p] = st.generation
    BY <2>1, <2>4, RollBackFields
  <2> QED BY <2>4, <2>5 DEF Outstanding
<1> QED BY <1>1, Invariance, PTL DEF Spec, GuardReleasesOwnCount

----------------------------------------------------------------------------
(* The contract of flush.                                                  *)

\* What FlushContract sees of a flush.
Opened == [f \in Flushers |-> fpc[f] # "idle"]
Drained == [f \in Flushers |-> fpc[f] = "report"]

\* FlushContract counts with the same Cardinality.
LEMMA SameCardinality == \A S : Contract!Cardinality(S) = Cardinality(S)
BY DEF Contract!Cardinality, Cardinality, Contract!IsFiniteSet, IsFiniteSet

\* A step of a publish is seen as one publish more or less, or not at all.
LEMMA PublishKeepsContract ==
    ASSUME IInv, ~stray, ~stray', NEW p \in Pubs, PublishStep(p) \/ Ack(p)
    PROVE  Contract!Publish(p) \/ Contract!Settle(p) \/ UNCHANGED Contract!vars
<1>0. /\ TypeOK /\ TicketInv /\ OutInv
      /\ st \in States /\ \A q \in Pubs : ticket[q] \in Nat
  BY DEF IInv, TypeOK
<1>1. UNCHANGED <<fpc, window, result>> /\ st'.lost = st.lost
  <2>1. CASE Count(p)
    BY <1>0, <2>1, Fields DEF Count, flushes, history
  <2>2. CASE Fail(p) \/ CancelTaken(p)
    BY <1>0, <2>2, RollBackFields DEF Fail, CancelTaken, Release, flushes
  <2>3. CASE Ack(p)
    BY <1>0, <2>3, Fields DEF Ack, flushes, history
  <2>4. CASE Take(p) \/ Keep(p) \/ Again(p)
    BY <2>4 DEF Take, Keep, Again, tracker, flushes, history
  <2> QED BY <2>1, <2>2, <2>3, <2>4 DEF PublishStep
<1>2. UNCHANGED <<st.lost, Opened, window, Drained, result>>
  BY <1>1 DEF Opened, Drained
<1>3. ASSUME Outstanding' = Outstanding
      PROVE  UNCHANGED Contract!vars
  BY <1>2, <1>3 DEF Contract!vars, Opened, Drained
<1>4. ASSUME p \notin Outstanding, Outstanding' = Outstanding \cup {p}
      PROVE  Contract!Publish(p)
  BY <1>2, <1>4 DEF Contract!Publish, Contract!flushes, Opened, Drained
<1>5. ASSUME p \in Outstanding, Outstanding' = Outstanding \ {p}
      PROVE  Contract!Settle(p)
  BY <1>2, <1>5 DEF Contract!Settle, Contract!flushes, Opened, Drained
<1>6. CASE Count(p)
  <2>1. /\ st'.generation = st.generation
        /\ ticket' = [ticket EXCEPT ![p] = st.generation]
        /\ pub' = [pub EXCEPT ![p] = "counted"]
        /\ pub[p] = "new" /\ fate[p] = "none" /\ fate' = fate
    BY <1>0, <1>6, Fields DEF Count, TicketInv
  <2>2. Outstanding' = Outstanding \cup {p} /\ p \notin Outstanding
    BY <1>0, <2>1 DEF Outstanding, TypeOK
  <2> QED BY <1>4, <2>2
<1>7. CASE Take(p) \/ Keep(p)
  <2>1. /\ st' = st /\ ticket' = ticket
        /\ pub[p] \in {"counted", "taken"} /\ pub'[p] \in {"taken", "returned"}
        /\ fate' = fate \/ (fate[p] = "none" /\ fate' = [fate EXCEPT ![p] = "out"])
        /\ \A q \in Pubs \ {p} : pub'[q] = pub[q]
    BY <1>0, <1>7 DEF Take, Keep, tracker, TicketInv, TypeOK
  <2>2. Outstanding' = Outstanding
    BY <1>0, <2>1 DEF Outstanding, TypeOK
  <2> QED BY <1>3, <2>2
<1>8. CASE Again(p)
  <2>1. /\ st' = st /\ pub[p] \in {"failed", "returned"}
        /\ pub[p] = "returned" => fate[p] \in {"acked", "gone"}
        /\ pub' = [pub EXCEPT ![p] = "new"] /\ fate' = [fate EXCEPT ![p] = "none"]
        /\ ticket' = [ticket EXCEPT ![p] = 0]
    BY <1>8 DEF Again, tracker
  <2>2. Outstanding' = Outstanding
    BY <1>0, <2>1 DEF Outstanding, TypeOK
  <2> QED BY <1>3, <2>2
<1>9. CASE Fail(p)
  <2>1. /\ ticket' = ticket /\ fate' = fate /\ pub' = [pub EXCEPT ![p] = "failed"]
        /\ st'.generation = st.generation
    BY <1>0, <1>9, RollBackFields DEF Fail, Release
  <2>2. Outstanding' = Outstanding \ {p}
    BY <1>0, <2>1 DEF Outstanding, TypeOK
  <2>3. p \notin Outstanding => Outstanding' = Outstanding
    BY <2>2
  <2> QED BY <1>3, <1>5, <2>2, <2>3
<1>10. CASE Ack(p)
  <2>1. /\ fate[p] = "out" /\ fate' = [fate EXCEPT ![p] = "acked"]
        /\ st'.generation = st.generation /\ UNCHANGED <<pub, ticket>>
    BY <1>0, <1>10, Fields DEF Ack
  <2>2. p \in Outstanding
    BY <1>0, <2>1 DEF OutInv, Outstanding
  <2>3. Outstanding' = Outstanding \ {p}
    BY <1>0, <2>1 DEF Outstanding, TypeOK
  <2> QED BY <1>5, <2>2, <2>3
<1>11. ~CancelTaken(p)
  BY DEF CancelTaken
<1> QED BY <1>6, <1>7, <1>8, <1>9, <1>10, <1>11 DEF PublishStep

\* A disconnect is seen as the loss of everything outstanding, which is what
\* the counter says it is.
LEMMA DisconnectKeepsContract ==
    ASSUME IInv, ~stray, NEW survivors \in SUBSET Pubs, Disconnect(survivors)
    PROVE  Contract!LoseAll
<1> DEFINE n == Cardinality(Outstanding)
<1>1. /\ TypeOK /\ st \in States /\ st.unacked = n
      /\ \A p \in Pubs : ticket[p] \in Nat /\ st.generation \in Nat
                           /\ ticket[p] <= st.generation
  BY DEF IInv, TypeOK, CountIsExact, TicketInv, States
<1>2. /\ st'.lost = st.lost + n /\ st'.generation = st.generation + 1
      /\ ticket' = ticket
      /\ window' = [f \in Flushers |-> IF fpc[f] = "idle" THEN window[f] ELSE window[f] + n]
      /\ UNCHANGED <<fpc, result>>
  BY <1>1, Fields DEF Disconnect, flushes
<1>3. Outstanding' = {}
  BY <1>1, <1>2 DEF Outstanding
<1>4. Contract!Cardinality(Outstanding) = n
  BY SameCardinality
<1> HIDE DEF n
<1>5. window' = [f \in Flushers |->
                   IF Opened[f] THEN window[f] + n ELSE window[f]]
  BY <1>2 DEF Opened
<1>6. UNCHANGED <<Opened, Drained, result>>
  BY <1>2 DEF Opened, Drained
<1> QED BY <1>2, <1>3, <1>4, <1>5, <1>6 DEF Contract!LoseAll, Opened, Drained

\* A step of a flush is seen as its opening, its drain, its report or its end
\* without one, or not at all.
LEMMA FlushKeepsContract ==
    ASSUME IInv, ~stray, NEW f \in Flushers, FlushStep(f)
    PROVE  \/ Contract!Open(f) \/ Contract!Drain(f) \/ Contract!Report(f)
           \/ Contract!GiveUp(f) \/ UNCHANGED Contract!vars
<1>0. /\ TypeOK /\ FlushInv /\ st \in States /\ st.unacked = Cardinality(Outstanding)
  BY DEF IInv, TypeOK, CountIsExact
<1>1. /\ UNCHANGED publishes
      /\ st'.generation = st.generation
  <2>1. CASE Report(f)
    BY <1>0, <2>1, Fields DEF Report, Return
  <2>2. CASE ~Report(f)
    BY <2>2 DEF FlushStep, Open, Register, Check, Wake, Timeout, CancelFlush, Return, tracker
  <2> QED BY <2>1, <2>2
<1>2. Outstanding' = Outstanding
  BY <1>1 DEF publishes, Outstanding
<1>3. CASE Open(f)
  <2>1. /\ fpc[f] = "idle" /\ fpc' = [fpc EXCEPT ![f] = "register"]
        /\ window' = [window EXCEPT ![f] = st.lost] /\ st' = st
        /\ result' = [result EXCEPT ![f] = NoResult]
    BY <1>3 DEF Open, tracker
  <2>2. /\ Opened' = [Opened EXCEPT ![f] = TRUE] /\ Drained' = Drained /\ ~Opened[f]
    BY <1>0, <2>1 DEF Opened, Drained, TypeOK
  <2>3. Contract!Open(f)
    BY <1>2, <2>1, <2>2 DEF Contract!Open, Contract!Outcome, NoResult, Opened, Drained
  <2> QED BY <2>3
<1>4. CASE Register(f) \/ Wake(f) \/ (Check(f) /\ st.unacked # 0)
  <2>1. /\ fpc[f] \notin {"idle", "report"} /\ UNCHANGED <<st, window, result>>
        /\ \E l \in {"register", "check", "wait"} : fpc' = [fpc EXCEPT ![f] = l]
    BY <1>4 DEF Register, Wake, Check, tracker, history
  <2>2. Opened' = Opened /\ Drained' = Drained
    BY <1>0, <2>1 DEF Opened, Drained, TypeOK
  <2>3. UNCHANGED Contract!vars
    BY <1>2, <2>1, <2>2 DEF Contract!vars, Opened, Drained
  <2> QED BY <2>3
<1>5. CASE Check(f) /\ st.unacked = 0
  <2>1. /\ fpc[f] = "check" /\ fpc' = [fpc EXCEPT ![f] = "report"]
        /\ UNCHANGED <<st, window, result>>
    BY <1>5 DEF Check, tracker, history
  <2>2. /\ Opened' = Opened /\ Drained' = [Drained EXCEPT ![f] = TRUE]
        /\ Opened[f] /\ ~Drained[f]
    BY <1>0, <2>1 DEF Opened, Drained, TypeOK
  <2>3. Outstanding = {}
    BY <1>0, <1>5, OutstandingFinite, FS_EmptySet
  <2>4. Contract!Drain(f)
    BY <1>2, <2>1, <2>2, <2>3 DEF Contract!Drain, Opened, Drained
  <2> QED BY <2>4
<1>6. CASE Report(f)
  <2>1. /\ fpc[f] = "report" /\ fpc' = [fpc EXCEPT ![f] = "idle"]
        /\ st'.lost = 0 /\ window' = window
    BY <1>0, <1>6, Fields DEF Report, Return
  <2>2. /\ Opened' = [Opened EXCEPT ![f] = FALSE] /\ Drained' = [Drained EXCEPT ![f] = FALSE]
        /\ Drained[f]
    BY <1>0, <2>1 DEF Opened, Drained, TypeOK
  <2>3. result' = [result EXCEPT ![f] =
                     [kind |-> IF window[f] = 0 THEN "ok" ELSE "lost", count |-> window[f]]]
    <3> DEFINE c == ReportLost(st).reported - opened[f]
    <3>1. IF c = 0 THEN Return(f, "ok", 0) ELSE Return(f, "lost", c)
      BY <1>6 DEF Report
    <3>2. c = window[f]
      <4>1. /\ st.lost \in Nat /\ st.reported \in Nat /\ opened[f] \in Nat
            /\ window[f] = st.lost + st.reported - opened[f]
        BY <1>0, <2>1 DEF FlushInv, TypeOK, States
      <4>2. ReportLost(st).reported = st.reported + st.lost
        BY <1>0, Fields
      <4> QED BY <4>1, <4>2
    <3> HIDE DEF c
    <3> QED BY <3>1, <3>2 DEF Return
  <2>4. Contract!Report(f)
    BY <1>2, <2>1, <2>2, <2>3
       DEF Contract!Report, Contract!Close, Contract!Outcome, Opened, Drained
  <2> QED BY <2>4
<1>7. CASE Timeout(f) \/ CancelFlush(f)
  <2>1. /\ fpc[f] = "wait" /\ fpc' = [fpc EXCEPT ![f] = "idle"]
        /\ UNCHANGED <<st, window>>
        /\ \/ result' = [result EXCEPT ![f] = [kind |-> "timeout", count |-> st.unacked]]
           \/ result' = result
    BY <1>7 DEF Timeout, CancelFlush, Return, tracker, history
  <2>2. /\ Opened' = [Opened EXCEPT ![f] = FALSE] /\ Drained' = Drained
        /\ Opened[f] /\ ~Drained[f]
    BY <1>0, <2>1 DEF Opened, Drained, TypeOK
  <2>3. result' = result => result' = [result EXCEPT ![f] = result[f]]
    BY <1>0 DEF TypeOK
  <2>4. Contract!Cardinality(Outstanding) = st.unacked
    BY <1>0, SameCardinality
  <2>5. Contract!GiveUp(f)
    BY <1>2, <2>1, <2>2, <2>3, <2>4
       DEF Contract!GiveUp, Contract!Close, Contract!Outcome, Opened, Drained
  <2> QED BY <2>5
<1> QED BY <1>3, <1>4, <1>5, <1>6, <1>7 DEF FlushStep

\* A message that outlived its count has done so for good.
LEMMA StrayStays == stray /\ [Next]_vars => stray'
<1> SUFFICES ASSUME stray, [Next]_vars PROVE stray'
  OBVIOUS
<1>1. ASSUME NEW p \in Pubs, PublishStep(p) \/ Ack(p)
      PROVE  stray'
  <2>1. CASE Take(p)
    BY <2>1, Zenon DEF Take
  <2>2. CASE CancelTaken(p)
    BY <2>2 DEF CancelTaken
  <2>3. CASE Count(p) \/ Keep(p) \/ Fail(p) \/ Again(p) \/ Ack(p)
    BY <2>3 DEF Count, Keep, Fail, Again, Ack, history
  <2> QED BY <1>1, <2>1, <2>2, <2>3 DEF PublishStep
<1>2. ASSUME NEW survivors \in SUBSET Pubs, Disconnect(survivors)
      PROVE  stray'
  BY <1>2, Zenon DEF Disconnect
<1>3. CASE \/ \E a \in Pubs \cup {Loop} : NotifyWaiters(a)
           \/ UNCHANGED vars
  BY <1>3 DEF NotifyWaiters, vars, history
<1>4. ASSUME NEW f \in Flushers, FlushStep(f)
      PROVE  stray'
  BY <1>4 DEF FlushStep, Open, Register, Check, Wake, Report, Timeout, CancelFlush, Return,
              history
<1> QED BY <1>1, <1>2, <1>3, <1>4 DEF Next, LoopStep

\* The tracker keeps the contract of flush until a message outlives its count:
\* its anonymous counter, its generations and its wake-ups do for any publishes,
\* flushes and disconnects what a set of publishes would (delivery.rs, flush and
\* PublishTicket).
THEOREM TrackerKeepsTheContract == Spec => ContractUnlessStray
<1>1. Init => Contract!Init
  <2> SUFFICES ASSUME Init PROVE Contract!Init
    OBVIOUS
  <2>1. Outstanding = {} /\ st.lost = 0
    BY DEF Init, Outstanding, NothingOutstanding
  <2>2. /\ Opened = [f \in Flushers |-> FALSE] /\ Drained = [f \in Flushers |-> FALSE]
        /\ window = [f \in Flushers |-> 0] /\ result = [f \in Flushers |-> NoResult]
    BY DEF Init, Opened, Drained
  <2> QED BY <2>1, <2>2 DEF Contract!Init, Contract!Outcome, NoResult, Opened, Drained
<1>2. ASSUME IInv, ~stray, ~stray', [Next]_vars
      PROVE  [Contract!Next]_(Contract!vars)
  <2>1. ASSUME NEW p \in Pubs, PublishStep(p) \/ Ack(p)
        PROVE  Contract!Next \/ UNCHANGED Contract!vars
    BY <1>2, <2>1, PublishKeepsContract DEF Contract!Next
  <2>2. ASSUME NEW survivors \in SUBSET Pubs, Disconnect(survivors)
        PROVE  Contract!Next
    BY <1>2, <2>2, DisconnectKeepsContract DEF Contract!Next
  <2>3. ASSUME NEW f \in Flushers, FlushStep(f)
        PROVE  Contract!Next \/ UNCHANGED Contract!vars
    BY <1>2, <2>3, FlushKeepsContract DEF Contract!Next
  <2>4. ASSUME \/ \E a \in Pubs \cup {Loop} : NotifyWaiters(a)
               \/ UNCHANGED vars
        PROVE  UNCHANGED Contract!vars
    <3>1. UNCHANGED <<st, publishes, fpc, window, result>>
      BY <2>4 DEF NotifyWaiters, history, vars, tracker, flushes
    <3>2. Outstanding' = Outstanding
      BY <3>1 DEF Outstanding, publishes
    <3> QED BY <3>1, <3>2 DEF Contract!vars
  <2> QED BY <1>2, <2>1, <2>2, <2>3, <2>4 DEF Next, LoopStep
<1>3. IInv /\ [Next]_vars => [stray' \/ Contract!Next]_(Contract!vars)
  BY <1>2, StrayStays
<1> QED BY <1>1, <1>3, Invariance, PTL DEF Spec, ContractUnlessStray

\* Where every message ends with its count, it keeps the contract for good.
THEOREM QuietTrackerImplementsTheContract ==
    ASSUME ~Survives, ~CancelWindow
    PROVE  Spec => Contract!Spec
<1>1. ~stray' /\ [stray' \/ Contract!Next]_(Contract!vars)
          => [Contract!Next]_(Contract!vars)
  OBVIOUS
<1> QED BY <1>1, QuietSession, TrackerKeepsTheContract, PTL
        DEF ContractUnlessStray, Contract!Spec
=============================================================================
