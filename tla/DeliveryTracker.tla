-------------------------- MODULE DeliveryTracker --------------------------
(***************************************************************************)
(* src/src/sparkplug/delivery.rs: the tracker, the guard of a publish in   *)
(* flight (record_around_publish in client/publish.rs holds it), and       *)
(* flush, between publishing tasks, flushing tasks and the event loop.     *)
(*                                                                         *)
(* The lock is a step: what a method does while it holds the lock is one   *)
(* action, and notify_waiters, which every method calls after it released  *)
(* the lock, is another. What the broker does with a message is external;  *)
(* two constants say how much of it the environment is allowed.            *)
(***************************************************************************)
EXTENDS DeliveryState, FiniteSets

CONSTANTS
    Pubs,            \* tasks that publish at QoS 1, over and over
    Flushers,        \* tasks that call flush, over and over
    Loop,            \* the event loop task
    Survives,        \* may a message counted before a disconnect arrive after it?
    CancelWindow,    \* may a cancellation meet a message the client just took?
    MaxDisconnects   \* bound: how many disconnects the loop records

ASSUME PubsAssumption == IsFiniteSet(Pubs)
ASSUME LoopAssumption == Loop \notin Pubs
ASSUME SwitchAssumption == Survives \in BOOLEAN /\ CancelWindow \in BOOLEAN
ASSUME MaxDisconnectsAssumption == MaxDisconnects \in Nat

VARIABLES
    st,         \* the State behind the lock
    pub,        \* pub[p]: where the publish future of p stands
    ticket,     \* ticket[p]: the generation in its PublishTicket
    fate,       \* fate[p]: what became of the message (external)
    notifying,  \* who released the lock and still has to call notify_waiters
    fpc,        \* fpc[f]: where flush stands
    wake,       \* wake[f]: the Notified future of wait_for_drain
    opened,     \* opened[f]: opened_at
    result,     \* result[f]: what the last flush of f returned
    unreported, \* history: publishes recorded as lost, in no flush's report yet
    stray,      \* history: did a message outlive the count that stood for it?
    owed,       \* history: publishes that flush f owes its caller an answer for
    window      \* history: losses recorded since f opened, or waiting then

tracker == <<st, notifying>>
publishes == <<pub, ticket, fate>>
flushes == <<fpc, wake, opened, result>>
history == <<unreported, stray, owed, window>>
vars == <<tracker, publishes, flushes, history>>

Results == [kind : {"none", "ok", "lost", "timeout"}, count : Nat]
NoResult == [kind |-> "none", count |-> 0]

TypeOK ==
    /\ st \in States
    /\ pub \in [Pubs -> {"new", "counted", "taken", "returned", "failed"}]
    /\ ticket \in [Pubs -> Nat]
    /\ fate \in [Pubs -> {"none", "out", "acked", "gone"}]
    /\ notifying \subseteq Pubs \cup {Loop}
    /\ fpc \in [Flushers -> {"idle", "register", "check", "wait", "report"}]
    /\ wake \in [Flushers -> {"none", "armed", "woken"}]
    /\ opened \in [Flushers -> Nat]
    /\ result \in [Flushers -> Results]
    /\ unreported \subseteq Pubs
    /\ stray \in BOOLEAN
    /\ owed \in [Flushers -> SUBSET Pubs]
    /\ window \in [Flushers -> Nat]

Init ==
    /\ st = NothingOutstanding
    /\ pub = [p \in Pubs |-> "new"]
    /\ ticket = [p \in Pubs |-> 0]
    /\ fate = [p \in Pubs |-> "none"]
    /\ notifying = {}
    /\ fpc = [f \in Flushers |-> "idle"]
    /\ wake = [f \in Flushers |-> "none"]
    /\ opened = [f \in Flushers |-> 0]
    /\ result = [f \in Flushers |-> NoResult]
    /\ unreported = {}
    /\ stray = FALSE
    /\ owed = [f \in Flushers |-> {}]
    /\ window = [f \in Flushers |-> 0]

\* Publishes counted since the last disconnect that are neither answered nor
\* rolled back.
Outstanding ==
    {p \in Pubs : /\ pub[p] \in {"counted", "taken", "returned"}
                  /\ ticket[p] = st.generation
                  /\ fate[p] \in {"none", "out"}}

----------------------------------------------------------------------------
(* A publish: record_around_publish.                                       *)

\* publish_in_flight: count the publish before the client sees it.
Count(p) ==
    /\ pub[p] = "new"
    /\ st' = CountPublish(st)
    /\ ticket' = [ticket EXCEPT ![p] = st.generation]
    /\ pub' = [pub EXCEPT ![p] = "counted"]
    /\ UNCHANGED <<notifying, fate, flushes, history>>

\* The client takes the message out of the publish future; when a disconnect
\* came first, only if the future kept waiting for the reconnect.
Take(p) ==
    /\ pub[p] = "counted"
    /\ Survives \/ ticket[p] = st.generation
    /\ pub' = [pub EXCEPT ![p] = "taken"]
    /\ fate' = [fate EXCEPT ![p] = "out"]
    /\ stray' = (stray \/ ticket[p] # st.generation)
    /\ UNCHANGED <<tracker, ticket, flushes, unreported, owed, window>>

\* The publish future resolves to Ok: PublishInFlight::keep.
Keep(p) ==
    /\ pub[p] = "taken"
    /\ pub' = [pub EXCEPT ![p] = "returned"]
    /\ UNCHANGED <<tracker, ticket, fate, flushes, history>>

\* Mutant: a bare ticket instead of the guard, dropped without a rollback.
DropTicket(p) ==
    /\ pub' = [pub EXCEPT ![p] = "failed"]
    /\ UNCHANGED <<tracker, ticket, fate, flushes, unreported, owed, window>>

\* Drop for PublishInFlight: record_publish_failed with the ticket.
Release(p) ==
    /\ st' = RollBack(st, ticket[p])
    /\ notifying' = IF TicketIsCurrent(st, ticket[p]) THEN notifying \cup {p}
                                                      ELSE notifying
    /\ pub' = [pub EXCEPT ![p] = "failed"]
    /\ UNCHANGED <<ticket, fate, flushes, unreported, owed, window>>

\* The client refuses the message, or the caller drops the future that waits.
Fail(p) == pub[p] = "counted" /\ Release(p) /\ UNCHANGED stray

\* The caller drops the future after the client took the message.
CancelTaken(p) ==
    /\ CancelWindow
    /\ pub[p] = "taken"
    /\ Release(p)
    /\ stray' = TRUE

\* The task of p publishes again, once its last message was answered, never left,
\* or was reported lost. What a flush owed for that message is settled.
Again(p) ==
    /\ pub[p] \in {"returned", "failed"}
    /\ \/ fate[p] = "acked"
       \/ pub[p] = "failed" /\ fate[p] = "none"
       \/ fate[p] = "gone" /\ p \notin unreported
             /\ \A f \in Flushers : p \notin owed[f]
    /\ p \notin notifying
    /\ pub' = [pub EXCEPT ![p] = "new"]
    /\ fate' = [fate EXCEPT ![p] = "none"]
    /\ ticket' = [ticket EXCEPT ![p] = 0]
    /\ unreported' = unreported \ {p}
    /\ owed' = [f \in Flushers |-> owed[f] \ {p}]
    /\ UNCHANGED <<tracker, flushes, stray, window>>

----------------------------------------------------------------------------
(* The event loop: apply_event.                                            *)

\* The loop reads its next event only after the last one is dealt with.
LoopFree == Loop \notin notifying

\* The PubAck of p arrives: record_ack. It may beat the publish future.
Ack(p) ==
    /\ LoopFree
    /\ fate[p] = "out"
    /\ fate' = [fate EXCEPT ![p] = "acked"]
    /\ st' = ReleaseOne(st)
    /\ notifying' = notifying \cup {Loop}
    /\ UNCHANGED <<pub, ticket, flushes, history>>

\* A poll error or a broker DISCONNECT: record_disconnect. The messages on
\* their way are gone, except the ones that sit in the channel (survivors).
Disconnect(survivors) ==
    /\ LoopFree
    /\ st.generation < MaxDisconnects
    /\ survivors # {} => Survives
    /\ \A p \in survivors : fate[p] = "out"
    /\ fate' = [p \in Pubs |-> IF fate[p] = "out" /\ p \notin survivors
                               THEN "gone" ELSE fate[p]]
    /\ st' = LoseOutstanding(st)
    /\ notifying' = notifying \cup {Loop}
    /\ unreported' = unreported \cup Outstanding
    /\ stray' = (stray \/ survivors # {})
    /\ window' = [f \in Flushers |-> IF fpc[f] = "idle" THEN window[f]
                                     ELSE window[f] + st.unacked]
    /\ UNCHANGED <<pub, ticket, flushes, owed>>

\* Mutant: notify_one, which wakes a single waiting flush.
WakeOne(w) ==
    LET armed == {f \in Flushers : w[f] = "armed"}
    IN  IF armed = {} THEN w ELSE [w EXCEPT ![CHOOSE f \in armed : TRUE] = "woken"]

\* notify_waiters: every Notified future that exists is woken.
WakeAll(w) == [f \in Flushers |-> IF w[f] = "armed" THEN "woken" ELSE w[f]]

NotifyWaiters(a) ==
    /\ a \in notifying
    /\ notifying' = notifying \ {a}
    /\ wake' = WakeAll(wake)
    /\ UNCHANGED <<st, publishes, fpc, opened, result, history>>

----------------------------------------------------------------------------
(* flush and wait_for_drain.                                               *)

\* let opened_at = self.lock().reported
Open(f) ==
    /\ fpc[f] = "idle"
    /\ opened' = [opened EXCEPT ![f] = st.reported]
    /\ fpc' = [fpc EXCEPT ![f] = "register"]
    /\ result' = [result EXCEPT ![f] = NoResult]
    /\ owed' = [owed EXCEPT ![f] =
                  {p \in Pubs : pub[p] = "returned" /\
                                (p \in Outstanding \cup unreported)}]
    /\ window' = [window EXCEPT ![f] = st.lost]
    /\ UNCHANGED <<tracker, publishes, wake, unreported, stray>>

\* let waiter = self.changed.notified()
Register(f) ==
    /\ fpc[f] = "register"
    /\ wake' = [wake EXCEPT ![f] = "armed"]
    /\ fpc' = [fpc EXCEPT ![f] = "check"]
    /\ UNCHANGED <<tracker, publishes, opened, result, history>>

\* if self.lock().unacked == 0 return, else await the waiter
Check(f) ==
    /\ fpc[f] = "check"
    /\ IF st.unacked = 0
       THEN /\ fpc' = [fpc EXCEPT ![f] = "report"]
            /\ wake' = [wake EXCEPT ![f] = "none"]
       ELSE /\ fpc' = [fpc EXCEPT ![f] = "wait"]
            /\ UNCHANGED wake
    /\ UNCHANGED <<tracker, publishes, opened, result, history>>

\* waiter.await resolves: round the loop again
Wake(f) ==
    /\ fpc[f] = "wait"
    /\ wake[f] = "woken"
    /\ fpc' = [fpc EXCEPT ![f] = "register"]
    /\ wake' = [wake EXCEPT ![f] = "none"]
    /\ UNCHANGED <<tracker, publishes, opened, result, history>>

Return(f, kind, count) ==
    /\ fpc' = [fpc EXCEPT ![f] = "idle"]
    /\ wake' = [wake EXCEPT ![f] = "none"]
    /\ result' = [result EXCEPT ![f] = [kind |-> kind, count |-> count]]
    /\ UNCHANGED <<notifying, publishes, opened, stray, owed, window>>

\* Mutants of the report: it counts only what it takes itself; a timeout takes
\* the loss along.
ReportTaken(f) ==
    /\ fpc[f] = "report"
    /\ st' = ReportLost(st)
    /\ unreported' = {}
    /\ IF st.lost = 0 THEN Return(f, "ok", 0) ELSE Return(f, "lost", st.lost)
TimeoutTakesLoss(f) ==
    /\ fpc[f] = "wait"
    /\ st' = ReportLost(st)
    /\ unreported' = {}
    /\ Return(f, "timeout", st.unacked)

\* The drained flush takes the loss, under a lock of its own.
Report(f) ==
    LET count == ReportLost(st).reported - opened[f]
    IN  /\ fpc[f] = "report"
        /\ st' = ReportLost(st)
        /\ unreported' = {}
        /\ IF count = 0 THEN Return(f, "ok", 0) ELSE Return(f, "lost", count)

\* The timer fires while the flush waits. The loss stays for a later flush.
Timeout(f) ==
    /\ fpc[f] = "wait"
    /\ Return(f, "timeout", st.unacked)
    /\ UNCHANGED <<st, unreported>>

\* The caller drops the flush future while it waits.
CancelFlush(f) ==
    /\ fpc[f] = "wait"
    /\ fpc' = [fpc EXCEPT ![f] = "idle"]
    /\ wake' = [wake EXCEPT ![f] = "none"]
    /\ UNCHANGED <<tracker, publishes, opened, result, history>>

----------------------------------------------------------------------------
PublishStep(p) ==
    Count(p) \/ Take(p) \/ Keep(p) \/ Fail(p) \/ CancelTaken(p) \/ Again(p)

LoopStep ==
    \/ \E p \in Pubs : Ack(p)
    \/ \E survivors \in SUBSET Pubs : Disconnect(survivors)

FlushStep(f) ==
    Open(f) \/ Register(f) \/ Check(f) \/ Wake(f) \/ Report(f) \/ Timeout(f)
        \/ CancelFlush(f)

Next ==
    \/ \E p \in Pubs : PublishStep(p)
    \/ LoopStep
    \/ \E a \in Pubs \cup {Loop} : NotifyWaiters(a)
    \/ \E f \in Flushers : FlushStep(f)

Spec == Init /\ [][Next]_vars

----------------------------------------------------------------------------
(* Safety.                                                                 *)

\* unacked is the number of publishes the broker still owes an answer for: no
\* acknowledgement, refusal, cancellation or disconnect, in any order, makes
\* the tracker lose count (delivery.rs, the generation rule of
\* record_publish_failed), as long as every message ended with its count.
CountIsExact == ~stray => st.unacked = Cardinality(Outstanding)

FlushOkIsTrue(f) ==
    result[f].kind = "ok" => \A p \in owed[f] : fate[p] = "acked"

\* A flush that returned Ok vouches for every publish that had returned to its
\* caller before the flush opened, unless an earlier flush already reported it
\* lost: the broker acknowledged each one.
FlushOkMeansAckedUnlessStray == ~stray => \A f \in Flushers : FlushOkIsTrue(f)

\* The same with no condition: delivery.rs:162, "Wait until the broker has
\* acknowledged every publish, then report".
FlushOkMeansAcked == \A f \in Flushers : FlushOkIsTrue(f)

\* A flush that drained reports the losses recorded while it was open and the
\* ones it found unreported, no matter which other flush took them meanwhile
\* (delivery.rs:172, "Two flushes that overlap in time both report").
ReportsItsWindow ==
    [][\A f \in Flushers :
          (fpc[f] = "report" /\ fpc'[f] = "idle") => result'[f].count = window[f]]_vars

\* A recorded loss leaves the record only through a flush that tells its
\* caller: a flush that times out or is cancelled keeps it for the next one.
LossIsToldToSomeone ==
    [][st'.lost < st.lost =>
          \E f \in Flushers : /\ fpc[f] = "report"
                              /\ result'[f].kind = "lost"
                              /\ result'[f].count >= st.lost]_vars

\* No flush sleeps through its wake-up: if nothing is outstanding and a flush
\* waits, it is woken or somebody is about to wake it, however many flushes
\* wait (wait_for_drain registers before it checks, and notify_waiters wakes
\* them all).
NoSleepAfterDrain ==
    \A f \in Flushers :
        (fpc[f] = "wait" /\ st.unacked = 0) => wake[f] = "woken" \/ notifying # {}

\* publish.rs:358: the guard "can never release a count that a disconnect
\* cleared or that belongs to a publish from another task".
GuardReleasesOwnCount ==
    [][\A p \in Pubs :
          (pub[p] # "failed" /\ pub'[p] = "failed" /\ st'.unacked < st.unacked)
              => p \in Outstanding]_vars

----------------------------------------------------------------------------
(* Refinement: the counter, its tickets and the wake-ups, seen by a caller. *)

Contract == INSTANCE FlushContract WITH
                out <- Outstanding,
                untold <- st.lost,
                open <- [f \in Flushers |-> fpc[f] # "idle"],
                seen <- window,
                drained <- [f \in Flushers |-> fpc[f] = "report"]

\* Until a message outlives its count, one anonymous counter with a generation
\* does what a set of publishes would: a flush reports after a moment at which
\* nothing was outstanding, and reports each loss of its window once
\* (delivery.rs, the doc of flush and of PublishTicket).
ContractUnlessStray == Contract!Init /\ [][stray' \/ Contract!Next]_(Contract!vars)

----------------------------------------------------------------------------
(* Liveness.                                                               *)

\* Tasks and the event loop are polled, publishes resolve, and the broker
\* answers what it received. No timer and no cancellation helps a flush out.
Answering ==
    /\ \A p \in Pubs : WF_vars(Take(p)) /\ WF_vars(Keep(p)) /\ WF_vars(Ack(p))
    /\ \A a \in Pubs \cup {Loop} : WF_vars(NotifyWaiters(a))
    /\ \A f \in Flushers :
          WF_vars(Register(f) \/ Check(f) \/ Wake(f) \/ Report(f))

NoTimerNext ==
    \/ \E p \in Pubs : PublishStep(p)
    \/ LoopStep
    \/ \E a \in Pubs \cup {Loop} : NotifyWaiters(a)
    \/ \E f \in Flushers :
          Open(f) \/ Register(f) \/ Check(f) \/ Wake(f) \/ Report(f)

AnsweringSpec == Init /\ [][NoTimerNext]_vars /\ Answering

\* A flush returns when the broker answers and publishing pauses, timer or not:
\* refusals, cancellations, early acknowledgements and disconnects leave no
\* count that nothing will ever clear (publish.rs, "an early PubAck would leave
\* a count that never clears"). While tasks publish without a pause the count
\* need never be zero at the moment a flush looks.
FlushReturnsOncePublishingPauses ==
    <>[][~\E p \in Pubs : Count(p)]_vars
        => \A f \in Flushers : fpc[f] # "idle" ~> fpc[f] = "idle"
=============================================================================
