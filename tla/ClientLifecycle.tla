-------------------------- MODULE ClientLifecycle --------------------------
(***************************************************************************)
(* One SparkplugClient from connect to shutdown: connect_with, publish,    *)
(* flush, shutdown and Drop (src/src/sparkplug/client.rs, client/          *)
(* shutdown.rs), the event loop task (eventloop.rs) and the tracker they   *)
(* share. One task owns the client; the loop runs beside it.               *)
(*                                                                         *)
(* rumqttc is external. As the code uses it: a poll that finds the link    *)
(* down connects or fails and leaves the request channel alone; a poll on  *)
(* a link that breaks drops what was queued and in flight; the loop writes *)
(* one request per poll, in channel order.                                 *)
(***************************************************************************)
EXTENDS DeliveryState, PublishRules, Sequences, FiniteSets

CONSTANTS
    Roles,       \* the roles a client is tried in
    Capacity,    \* slots of the request channel
    MaxPubs,     \* bound: publishes of one client
    MaxEvents,   \* bound: connections, breaks and failed attempts of the link
    LoopMayDie   \* may the loop task end on its own (a panic)?

ASSUME RolesAssumption == Roles \subseteq AllRoles
ASSUME BoundsAssumption == Capacity \in Nat /\ MaxPubs \in Nat /\ MaxEvents \in Nat
ASSUME LoopMayDieAssumption == LoopMayDie \in BOOLEAN

VARIABLES
    role,      \* Identity: fixed at connect
    cpc,       \* where the task that owns the client stands
    expired,   \* the timer of the call under way has run out
    flushed,   \* shutdown's flush: what it returned
    outcome,   \* what connect or shutdown returned
    lpc,       \* where the event loop task stands
    event,     \* the event the loop has in hand
    aborting,  \* JoinHandle::abort was called
    ready,     \* the oneshot that releases connect
    health,    \* the watch channel
    st,        \* the tracker
    link,      \* external: the connection
    chan,      \* external: the request channel
    inflight,  \* external: QoS 1 publishes written and not answered
    events,    \* external: link events so far, against MaxEvents
    pubs,      \* history: publishes made
    tracked1,  \* history: publishes counted by the tracker
    acked,     \* history: PubAcks that reached the loop
    written,   \* history: a DISCONNECT packet was written
    greeted,   \* history: the loop applied a ConnAck
    stray,     \* history: a request outlived the count that stood for it
    told       \* history: a flush told the caller of a loss

clientVars == <<role, cpc, expired, flushed, outcome>>
loopVars == <<lpc, event, aborting, ready, health>>
linkVars == <<link, chan, inflight, events>>
history == <<pubs, tracked1, acked, written, greeted, stray, told>>
vars == <<clientVars, loopVars, st, linkVars, history>>

Events == {"none", "connack", "puback", "indisc", "outdisc", "other", "err"}
Requests == {"qos0", "qos1", "disc"}

TypeOK ==
    /\ role \in Roles
    /\ cpc \in {"start", "connecting", "open", "flush", "subscribe", "request",
                "wait", "done"}
    /\ expired \in BOOLEAN
    /\ flushed \in {"none", "ok", "lost", "timeout"}
    /\ outcome \in {"none", "ok", "lost", "flushTimeout", "connectTimeout",
                    "shutdownTimeout", "refused", "abandoned", "dropped",
                    "badNamespace"}
    /\ lpc \in {"none", "poll", "tracker", "health", "react", "backoff", "stopped"}
    /\ event \in Events
    /\ aborting \in BOOLEAN
    /\ ready \in {"armed", "sent"}
    /\ health \in {"Connected", "Disconnected"}
    /\ st \in States
    /\ link \in {"down", "up", "closing"}
    /\ chan \in Seq(Requests) /\ Len(chan) <= Capacity
    /\ inflight \in Nat
    /\ events \in 0 .. MaxEvents
    /\ pubs \in 0 .. MaxPubs /\ tracked1 \in 0 .. MaxPubs /\ acked \in 0 .. MaxPubs
    /\ written \in BOOLEAN /\ greeted \in BOOLEAN
    /\ stray \in BOOLEAN /\ told \in BOOLEAN

Init ==
    /\ role \in Roles
    /\ cpc = "start" /\ expired = FALSE /\ flushed = "none" /\ outcome = "none"
    /\ lpc = "none" /\ event = "none" /\ aborting = FALSE
    /\ ready = "armed" /\ health = "Disconnected"
    /\ st = NothingOutstanding
    /\ link = "down" /\ chan = <<>> /\ inflight = 0 /\ events = 0
    /\ pubs = 0 /\ tracked1 = 0 /\ acked = 0
    /\ written = FALSE /\ greeted = FALSE /\ stray = FALSE /\ told = FALSE

----------------------------------------------------------------------------
(* How a message goes out (PublishRules), and what it is in the channel.    *)

MessageTypes == {"DDATA", "NDEATH"}

Request(options) == IF options.qos = 1 THEN "qos1" ELSE "qos0"

\* QoS 1 publishes that wait in the request channel.
QueuedQos1 == Cardinality({i \in 1 .. Len(chan) : chan[i] = "qos1"})

----------------------------------------------------------------------------
(* The task that owns the client.                                          *)

\* connect_with: Namespace::new refuses the version of the config, before
\* anything is spawned.
ConnectRefused ==
    /\ cpc = "start"
    /\ cpc' = "done" /\ outcome' = "badNamespace"
    /\ UNCHANGED <<role, expired, flushed, loopVars, st, linkVars, history>>

\* connect_with: spawn the loop and wait for its first ConnAck.
Connect ==
    /\ cpc = "start"
    /\ cpc' = "connecting"
    /\ lpc' = "poll"
    /\ UNCHANGED <<role, expired, flushed, outcome, event, aborting, ready, health,
                   st, linkVars, history>>

\* Drop for SparkplugClient, and the abort of a connect that timed out.
Finish(result) ==
    /\ cpc' = "done"
    /\ outcome' = result
    /\ aborting' = TRUE

\* rx resolves: also when the loop died and dropped the sender.
ConnectReturns ==
    /\ cpc = "connecting"
    /\ ready = "sent" \/ lpc = "stopped"
    /\ cpc' = "open"
    /\ expired' = FALSE
    /\ UNCHANGED <<role, flushed, outcome, loopVars, st, linkVars, history>>

\* Mutant: a connect that gives up without stopping the loop.
ConnectTimesOutAndLeaks ==
    /\ cpc = "connecting" /\ expired
    /\ ready = "armed" /\ lpc # "stopped"
    /\ cpc' = "done" /\ outcome' = "connectTimeout"
    /\ UNCHANGED <<role, expired, flushed, lpc, event, aborting, ready, health, st,
                   linkVars, history>>

ConnectTimesOut ==
    /\ cpc = "connecting" /\ expired
    /\ ready = "armed" /\ lpc # "stopped"
    /\ Finish("connectTimeout")
    /\ UNCHANGED <<role, expired, flushed, lpc, event, ready, health, st, linkVars,
                   history>>

\* The caller drops the connect future. The JoinHandle goes with it, and a
\* dropped JoinHandle leaves its task running.
CancelConnect ==
    /\ cpc = "connecting"
    /\ cpc' = "done" /\ outcome' = "abandoned"
    /\ UNCHANGED <<role, expired, flushed, loopVars, st, linkVars, history>>

\* publish_message when the channel has room: count, then hand over. (The
\* publishes that wait for room are SeqGate's and DeliveryTracker's subject.)
Publish(type) ==
    /\ cpc = "open"
    /\ lpc # "stopped"
    /\ pubs < MaxPubs
    /\ Len(chan) < Capacity
    /\ pubs' = pubs + 1
    /\ chan' = Append(chan, Request(WireOptions(role, type)))
    /\ IF WireOptions(role, type).tracked
       THEN st' = CountPublish(st) /\ tracked1' = tracked1 + 1
       ELSE UNCHANGED <<st, tracked1>>
    /\ UNCHANGED <<clientVars, loopVars, link, inflight, events, acked, written,
                   greeted, stray, told>>

\* A flush of the caller's own that drains (DeliveryTracker has its steps). A
\* flush that times out changes nothing here.
Flush ==
    /\ cpc = "open"
    /\ st.unacked = 0
    /\ st' = ReportLost(st)
    /\ told' = (told \/ st.lost > 0)
    /\ UNCHANGED <<clientVars, loopVars, linkVars, pubs, tracked1, acked, written,
                   greeted, stray>>

\* The caller drops the client.
DropClient ==
    /\ cpc = "open"
    /\ Finish("dropped")
    /\ UNCHANGED <<role, expired, flushed, lpc, event, ready, health, st, linkVars,
                   history>>

\* shutdown starts: the deadline is set, the flush begins.
Shutdown ==
    /\ cpc = "open"
    /\ cpc' = "flush"
    /\ expired' = FALSE
    /\ UNCHANGED <<role, flushed, outcome, loopVars, st, linkVars, history>>

FlushDrains ==
    /\ cpc = "flush"
    /\ st.unacked = 0
    /\ st' = ReportLost(st)
    /\ flushed' = IF st.lost = 0 THEN "ok" ELSE "lost"
    /\ told' = (told \/ st.lost > 0)
    /\ cpc' = "subscribe"
    /\ UNCHANGED <<role, expired, outcome, loopVars, linkVars, pubs, tracked1, acked,
                   written, greeted, stray>>

FlushTimesOut ==
    /\ cpc = "flush" /\ expired
    /\ st.unacked > 0
    /\ flushed' = "timeout"
    /\ cpc' = "subscribe"
    /\ UNCHANGED <<role, expired, outcome, loopVars, st, linkVars, history>>

\* let health = self.health.subscribe(); the receiver reads the state the
\* channel holds when it is polled, so nothing is noted here.
Subscribe ==
    /\ cpc = "subscribe"
    /\ cpc' = "request"
    /\ UNCHANGED <<role, expired, flushed, outcome, loopVars, st, linkVars, history>>

\* Mutant: the DISCONNECT outranks the flush.
DisconnectOutranks(disconnected) ==
    CASE disconnected = "Written" -> "ok"
      [] disconnected = "Refused" -> "refused"
      [] OTHER -> "shutdownTimeout"

\* shutdown_outcome: a failed flush outranks what came of the DISCONNECT.
ShutdownOutcome(disconnected) ==
    CASE flushed = "lost" -> "lost"
      [] flushed = "timeout" -> "flushTimeout"
      [] flushed = "ok" /\ disconnected = "Written" -> "ok"
      [] flushed = "ok" /\ disconnected = "Refused" -> "refused"
      [] OTHER -> "shutdownTimeout"

ShutdownReturns(disconnected) ==
    /\ Finish(ShutdownOutcome(disconnected))
    /\ UNCHANGED <<role, expired, flushed, lpc, event, ready, health, st, linkVars,
                   history>>

\* client.disconnect() finds room: the request follows the publishes.
RequestDisconnect ==
    /\ cpc = "request"
    /\ lpc # "stopped"
    /\ Len(chan) < Capacity
    /\ chan' = Append(chan, "disc")
    /\ cpc' = "wait"
    /\ UNCHANGED <<role, expired, flushed, outcome, loopVars, st, link, inflight,
                   events, history>>

RequestRefused ==
    /\ cpc = "request"
    /\ lpc = "stopped"
    /\ ShutdownReturns("Refused")

RequestTimesOut ==
    /\ cpc = "request" /\ expired
    /\ lpc # "stopped" /\ Len(chan) = Capacity
    /\ ShutdownReturns("Unconfirmed")

\* wait_for_disconnect polls the watch channel and finds the link down.
SeesDisconnected ==
    /\ cpc = "wait"
    /\ health = "Disconnected"
    /\ ShutdownReturns("Written")

\* Mutant: the wait has no deadline.
WaitHasNoDeadline ==
    /\ cpc = "wait" /\ expired
    /\ health = "Connected"
    /\ UNCHANGED vars

WaitTimesOut ==
    /\ cpc = "wait" /\ expired
    /\ health = "Connected"
    /\ ShutdownReturns("Unconfirmed")

\* The timer of connect, or the deadline of shutdown, runs out.
TimerFires ==
    /\ cpc \in {"connecting", "flush", "subscribe", "request", "wait"}
    /\ ~expired
    /\ expired' = TRUE
    /\ UNCHANGED <<role, cpc, flushed, outcome, loopVars, st, linkVars, history>>

----------------------------------------------------------------------------
(* rumqttc's EventLoop::poll: what the link does next (external).          *)

Polled(e) ==
    /\ lpc = "poll" /\ ~aborting
    /\ event' = e
    /\ lpc' = "tracker"
    /\ UNCHANGED <<clientVars, aborting, ready, health, st>>

LinkEvent == events < MaxEvents /\ events' = events + 1

\* The session is new: rumqttc forgets what a broken link left behind, and
\* what sits in the channel is still to be written.
ConnectsAgain ==
    /\ link = "down" /\ LinkEvent
    /\ link' = "up"
    /\ Polled("connack")
    /\ UNCHANGED <<chan, inflight, history>>

AttemptFails ==
    /\ link = "down" /\ LinkEvent
    /\ Polled("err")
    /\ UNCHANGED <<link, chan, inflight, history>>

LinkBreaks ==
    /\ \/ link = "up" /\ LinkEvent
       \/ link = "closing" /\ UNCHANGED events
    /\ link' = "down"
    /\ chan' = <<>>
    /\ inflight' = 0
    /\ Polled("err")
    /\ UNCHANGED history

BrokerDisconnects ==
    /\ link = "up" /\ LinkEvent
    /\ link' = "closing"
    /\ inflight' = 0
    /\ Polled("indisc")
    /\ UNCHANGED <<chan, history>>

WritesRequest ==
    /\ link = "up"
    /\ chan # <<>>
    /\ chan' = Tail(chan)
    /\ inflight' = IF Head(chan) = "qos1" THEN inflight + 1 ELSE inflight
    /\ written' = (written \/ Head(chan) = "disc")
    /\ Polled(IF Head(chan) = "disc" THEN "outdisc" ELSE "other")
    /\ UNCHANGED <<link, events, pubs, tracked1, acked, greeted, stray, told>>

BrokerAcks ==
    /\ link = "up"
    /\ inflight > 0
    /\ inflight' = inflight - 1
    /\ acked' = acked + 1
    /\ Polled("puback")
    /\ UNCHANGED <<link, chan, events, pubs, tracked1, written, greeted, stray, told>>

Poll ==
    \/ ConnectsAgain
    \/ AttemptFails
    \/ LinkBreaks
    \/ BrokerDisconnects
    \/ WritesRequest
    \/ BrokerAcks

----------------------------------------------------------------------------
(* The event loop task: run.                                               *)

\* apply_event
ApplyEvent ==
    /\ lpc = "tracker"
    /\ st' = CASE event = "puback" -> ReleaseOne(st)
               [] event \in {"indisc", "err"} -> LoseOutstanding(st)
               [] OTHER -> st
    /\ stray' = (stray \/ (event \in {"indisc", "err"} /\ QueuedQos1 > 0))
    /\ lpc' = "health"
    /\ UNCHANGED <<clientVars, event, aborting, ready, health, linkVars, pubs, tracked1,
                   acked, written, greeted, told>>

\* Mutant: only a DISCONNECT takes the link down, a poll error does not.
NextHealthIgnoringErrors(e) ==
    CASE e = "connack" -> "Connected"
      [] e \in {"indisc", "outdisc"} -> "Disconnected"
      [] OTHER -> health

NextHealth(e) ==
    CASE e = "connack" -> "Connected"
      [] e \in {"indisc", "outdisc", "err"} -> "Disconnected"
      [] OTHER -> health

\* apply_health
ApplyHealth ==
    /\ lpc = "health"
    /\ health' = NextHealth(event)
    /\ greeted' = (greeted \/ event = "connack")
    /\ lpc' = "react"
    /\ UNCHANGED <<clientVars, event, aborting, ready, st, linkVars, pubs, tracked1,
                   acked, written, stray, told>>

\* Mutant: any event releases the waiting connect.
FiresReadyAlways(e) == e # "none"

FiresReady(e) == e = "connack"

\* The match at the end of the loop: the first ConnAck fires ready, an error
\* backs off. (consecutive_errors only picks the level of a log line.)
React ==
    /\ lpc = "react"
    /\ ready' = IF FiresReady(event) THEN "sent" ELSE ready
    /\ lpc' = IF event = "err" THEN "backoff" ELSE "poll"
    /\ event' = "none"
    /\ UNCHANGED <<clientVars, aborting, health, st, linkVars, history>>

BackoffEnds ==
    /\ lpc = "backoff" /\ ~aborting
    /\ lpc' = "poll"
    /\ UNCHANGED <<clientVars, event, aborting, ready, health, st, linkVars, history>>

\* An aborted task stops at its next await.
AbortTakesEffect ==
    /\ aborting
    /\ lpc \in {"poll", "backoff"}
    /\ lpc' = "stopped"
    /\ UNCHANGED <<clientVars, event, aborting, ready, health, st, linkVars, history>>

\* The loop task panics while it polls.
LoopDies ==
    /\ LoopMayDie
    /\ lpc = "poll" /\ ~aborting
    /\ lpc' = "stopped"
    /\ UNCHANGED <<clientVars, event, aborting, ready, health, st, linkVars, history>>

LoopStep == ApplyEvent \/ ApplyHealth \/ React \/ BackoffEnds \/ AbortTakesEffect

ClientStep ==
    \/ Connect \/ ConnectReturns \/ ConnectTimesOut
    \/ FlushDrains \/ FlushTimesOut \/ Subscribe
    \/ RequestDisconnect \/ RequestRefused \/ RequestTimesOut
    \/ SeesDisconnected \/ WaitTimesOut

CallerStep ==
    \/ \E type \in MessageTypes : Publish(type)
    \/ Flush \/ Shutdown \/ DropClient \/ CancelConnect \/ ConnectRefused

Next == ClientStep \/ CallerStep \/ TimerFires \/ Poll \/ LoopStep \/ LoopDies

Spec == Init /\ [][Next]_vars

\* The runtime polls the two tasks and its timers fire. Neither the broker nor
\* the link owes anything, and the loop need never get an event.
FairSpec == Spec /\ WF_vars(ClientStep) /\ WF_vars(TimerFires) /\ WF_vars(LoopStep)

----------------------------------------------------------------------------
(* Safety.                                                                 *)

\* A shutdown that reports no failed flush left nothing behind: for a
\* publisher every publish was acknowledged, whatever the link did (error.rs:69
\* and error.rs:76, "every publish reached the broker"). Excepted are losses an
\* earlier flush told the caller of, and messages that outlived their count.
ShutdownMeansDelivered ==
    (outcome \in {"ok", "shutdownTimeout", "refused"} /\ ~told /\ ~stray)
        => /\ acked = tracked1
           /\ role = "Publisher" => acked = pubs

\* Between two events of the loop the tracker counts what the broker still has
\* to answer, in the channel or in flight: a message at QoS 0, which nobody
\* answers, holds no flush open (publish.rs, "An untracked message never
\* reaches the tracker").
CountMatchesTheLink ==
    (lpc \in {"none", "poll", "backoff", "stopped"} /\ ~stray)
        => st.unacked = inflight + QueuedQos1

\* Between two events of the loop, health says Connected only while there is a
\* connection (eventloop.rs, Health).
HealthFollowsTheLink ==
    (lpc \in {"poll", "backoff"} /\ health = "Connected") => link = "up"

\* A client is handed out only after the loop applied a ConnAck, or after the
\* loop died (connect_with takes a dropped sender for readiness).
OpenMeansGreeted ==
    cpc \in {"open", "flush", "subscribe", "request", "wait"}
        => greeted \/ lpc = "stopped"

----------------------------------------------------------------------------
(* Liveness.                                                               *)

\* A shutdown returns by its deadline, even if the loop hears nothing and the
\* channel stays full (client.rs:278, "never runs past timeout").
ShutdownReturnsInTime == cpc = "flush" ~> cpc = "done"

\* A client that failed to connect, was dropped or was shut down leaves no
\* event loop running (error.rs:77, "no task leaks"). A connect future that its
\* caller drops is another matter: CancelConnect.
LoopStopsWithTheClient ==
    (cpc = "done" /\ outcome # "abandoned") ~> lpc \in {"none", "stopped"}
=============================================================================
