# Specifications of sparkplug-mqtt

`sparkplug-mqtt` is a Rust client library that publishes Sparkplug B messages
over MQTT. It sits on `rumqttc`: an `AsyncClient` puts requests into a bounded
channel, and an event loop task takes them out, writes them to the broker and
hears the answers. This directory holds TLA+ models of the parts of the library
where the order of events matters, their TLC configurations, and TLAPS proofs.

Paths below are relative to `src/src/` unless they say otherwise.

## 1. The system

| Component | State | Operations |
|---|---|---|
| `SeqCounters`, `SeqReservation` (`sparkplug/seq.rs`) | a map from `{group}/{node}` to a tokio mutex over one byte | `reserve`, `reserve_reset`, `next`, `commit`, drop (writes the previous number back) |
| publish path (`sparkplug/client/publish.rs`) | the locals of a publish future: a reservation, the encoded message, a delivery guard | `publish_metric(s)`, `publish_metric(s)_to`, `publish_birth`, `record_around_publish` |
| `DeliveryTracker` (`sparkplug/delivery.rs`) | `unacked`, `lost`, `reported`, `generation` behind a mutex, and a `Notify` | `record_publish`, `record_ack`, `record_publish_failed`, `record_disconnect`, `flush`, the guard `PublishInFlight` |
| event loop (`sparkplug/eventloop.rs`) | the event in hand, the `ready` oneshot, the `health` watch channel | `run`: poll, `apply_event`, `apply_health`, back off |
| `SparkplugClient` (`sparkplug/client.rs`, `client/shutdown.rs`) | the identity, the join handle of the loop, all of the above | `connect_with`, `flush`, `health`, `shutdown`, `Drop` |
| wire options (`sparkplug/types.rs`) | none | `wire_options`: role and message type decide QoS, retain and tracking |
| topics (`sparkplug/topic.rs`, `topic/ids.rs`) | none: checked values | constructors, `parse`, `Display`, the checked identifiers |
| payloads (`sparkplug/payload_helpers.rs`, `datatype.rs`, `payload.rs`) | none | build, decode and format protobuf values |
| connection setup (`client.rs`), errors, generated code | none | options, TLS, client id, error kinds |

How they interact. A publish draws a number under the gate of its edge node and
keeps the gate across the await of the MQTT client. Inside that await, a
tracked publish also holds a delivery guard. The event loop task calls the
tracker and the watch channel; `flush` and `shutdown` wait on both. `Drop` and a
connect that timed out abort the loop.

What is hard here is concurrency and cancellation, not data. Every publish may
be dropped at an await: at the gate, while it waits for a slot, or after the
channel took its message and before the future was polled again. A PubAck can
overtake the future that sent the message. A disconnect cuts every count while
publishes are under way. Flushes overlap. The link can go down before, during
and after a shutdown.

What makes each part correct:

- counters: the number of a message is one more than that of the last message
  whose publish was kept; births stay in pairs; one edge node does not stop
  another; no gate is leaked;
- tracker: `unacked` counts exactly what the broker still owes; no flush sleeps
  through its wake-up; a loss is told exactly to the flushes whose window it
  falls into, and never forgotten; `Ok` means acknowledged;
- client: a shutdown that reports no failed flush left nothing behind, and
  returns by its deadline; the loop stops with its client; `health` follows
  the link; a client handed out has been greeted by the broker;
- the whole: within one session the broker reads no gap, although breaks empty
  the channel and publishes wait across them; what the link drops is on record
  as lost, whichever counts late answers clear;
- topics: parsing inverts rendering and accepts nothing else; a key of the map
  of gates names one edge node;
- payloads: a reader finds the values, instants and number that were published,
  both certificates of a birth carry one instant, and what is plotted is the
  nearest double to what was published.

## 2. The modules

| Module | What it models |
|---|---|
| `SeqGate` | the gates and counts, any number of publishing tasks with refusal and cancellation at each await, and the request channel |
| `AtomicPublish` | the abstract specification of a gate: a publish is one step |
| `MCSeqGate` | instances of `SeqGate` |
| `SeqGateProofs` | TLAPS: safety of `SeqGate` |
| `SeqGateRefinement` | TLAPS: `SeqGate` implements `AtomicPublish` |
| `DeliveryState` | the four counters of the tracker and what each method does to them, as operators |
| `DeliveryStateProofs` | TLAPS: lemmas on these operators |
| `DeliveryTracker` | the tracker between publishing tasks, flushing tasks and the loop |
| `FlushContract` | the abstract specification of `flush`: a set of publishes, no counter, ticket or wake-up |
| `MCDeliveryTracker` | instances of `DeliveryTracker` |
| `DeliveryProofs` | TLAPS: safety of `DeliveryTracker`, and that it keeps `FlushContract` |
| `ClientLifecycle` | one client, connect to shutdown, with its event loop and its link; it uses `DeliveryState` for the tracker |
| `LifecycleProofs` | TLAPS: safety of `ClientLifecycle` |
| `SparkplugClient` | the composition: `SeqGate` and `DeliveryTracker` (both by INSTANCE) over one channel, one link and one loop |
| `MCSparkplugClient` | instances of `SparkplugClient` |
| `ClientProofs` | TLAPS: `SparkplugClient` implements both components, publishes atomically and keeps the contract of `flush`; types; no gap within a session |
| `ClientCountProofs` | TLAPS: what `SparkplugClient` counts |
| `PublishRules` | role and message type to QoS, retain flag and tracking, as operators |
| `Topics` | rendering, parsing, checked identifiers and keys, as operators |
| `Payloads` | metric values, datatypes, builders and readers of payloads, as operators |
| `Messages` | one message from the publish call to a reader, over the three modules above |
| `MessagesProofs` | TLAPS: safety of `Messages` |

`ClientLifecycle` and `Messages` are small enough to be run directly.

### SeqGate

A task goes `idle -> gate -> send -> (full -> taken) -> idle`. `Reserve` is
`reserve_with`: it takes the gate, writes the count and remembers the previous
one. `SendWithRoom` is a poll of `AsyncClient::publish` that finds a slot: the
task carries on in the same poll, so it also draws the number of the DBIRTH
(`NextMessage`) or commits. `SendFindsFull` starts the wait. `Pull` is flume
handing a freed slot to a waiting send; the task itself learns of it only in
`Resume`, and between the two lies the window that ADR-0005 leaves open.
`Discard` is a link break: `rumqttc` drops what the channel holds, and a publish
that waits for a slot goes on waiting. So a `Pull` may also come without a freed
slot, into a channel that has room. The
caller may cancel at the three awaits and nowhere else. `DropUncommitted` is the
drop of the reservation.

`wire[n]` is a history: what the client took for edge node `n`, in order, with a
flag `kept` that turns false when the call that sent the message ends without
commit.

Abstracted: the payload, the name of the device, the map of gates (an edge node
not in the map is one whose gate is free and whose count is 0, which is what
`entry().or_default()` gives). A publisher client is `OwnNode = NoNode`. Calls
that fail before they touch any state (a host topic, `publish_birth` on a
publisher) are not actions. Tokio's mutex is fair; safety is checked without
that, so any waiter may get the gate.

### DeliveryTracker

One action per critical section of the lock. `notify_waiters` runs after the
lock is released, so it is an action of its own, and `notifying` holds who still
owes the call. `flush` is `Open`, then rounds of `Register` and `Check` and
`Wake`, then `Report` or `Timeout`; the caller may drop it while it waits.

The broker and the channel are external. Two constants say how much they may do:
`Survives`, whether a message that was counted before a disconnect may still
reach the broker after it (a publish that waits for a slot, or sits in the
channel while a connection attempt fails), and `CancelWindow`. `fate[p]` is what
became of a message. `stray` becomes true when a message outlives the count that
stood for it; the properties that need it false say so, and two runs show what
happens otherwise. `Again` is a task's next publish, once its last one is
settled: answered, refused, or lost and reported to every flush it concerned
(until then the history needs its old fate). `publish_with_options` has no such
wait: the other tasks stand in for a caller that publishes again at once.

`ContractUnlessStray` maps the tracker to `FlushContract`: the set there is
`Outstanding`, the losses nobody was told of are `st.lost`, a flush is open while
`fpc` is not `idle`, has to report its `window`, and has seen an empty set once it
is about to report. It asks each step to be a step of the contract or a stutter,
as long as counter and set agree: from the step on in which a message outlives
its count it asks nothing.

### ClientLifecycle

Two sequential processes, the owner of the client and the event loop, and an
external link. The loop reads an event, applies it to the tracker, then to
`health`, then reacts: four steps, since the owner can run on another thread in
between. Timers are a nondeterministic step (`TimerFires`) that sets `expired`.
An abort takes effect at the loop's next await. `LoopDies` is a panic inside
`poll`. The link, as `rumqttc` implements it: a poll on a dead link connects or
fails; a poll on a link that breaks drops what is queued and in flight; otherwise
one request is written per poll, in order.

`ConnectRefused` is a version that `Namespace::new` refuses: connect returns
before it spawned anything.

Publishes here find room at once: waiting publishes are the subject of the two
modules above. The owner does one thing at a time, so that a shutdown, which
takes the client by value, cannot overlap a publish. `ShutdownOutcome` is the
match of `shutdown_outcome` with its arms made disjoint: Rust takes the first arm
that fits, a `CASE` takes any.

### SparkplugClient

A publish of this library is two nested guards around one await: the reservation
of `publish_metrics_on` and, inside it, the delivery guard of
`record_around_publish`. The module instantiates both components,
`G == INSTANCE SeqGate` with `queued <- Len(chan)` and
`T == INSTANCE DeliveryTracker`, and conjoins their actions where one poll of
the code moves both: `SendWithRoom` is `G!SendWithRoom /\ T!Take`, a refusal is
`G!Refused /\ T!Fail`, a cancellation drops both guards. `Count` stands alone,
since `record_publish` precedes the first poll of the client, and so does
`Keep`, where another thread may come between the channel taking the message
and the guard being kept.

Every step of the composition is, by its own conjuncts, a step or a stutter of
each component. `Survives` is not a choice any more: which messages outlive a
disconnect follows from the channel and the link. `chan` is rumqttc's channel
with the publisher and the place in `wire` of each message; `inflight` is what
was written and not answered, at most `MaxInflight` (`set_inflight`, 100 in the
code); `heard[n]` is what the broker was sent for `n` in this session, emptied by
`ConnectsAgain` since `mqtt_options` sets `clean_session`. The loop polls, then
applies the event (`event`), and in between tasks and flushes run.

Left out here: the edge-node role, whose messages are not tracked (the births are
the subject of `SeqGate`), shutdown (`ClientLifecycle`), the health channel, and
the pause after an error, which is a step not taken. As in `DeliveryTracker`, a
task's next call comes once its last publish is settled, and the other tasks
stand in for a caller that does not wait.

### Topics, Payloads, PublishRules and Messages

The first three are operators, each with the name of the function it stands for.
A text is the sequence of its segments, so joining with `/` is concatenation and
an identifier with a separator in it is a text of several segments. `Payloads`
computes with integers of `LongBits` bits and doubles that keep `MantissaBits`
significant ones, so that rounding happens within a few values; `AsDouble` is
Rust's `as f64` on them, with ties to even.

`Messages` is a state machine with one message under way. A publish call
(`PublishMetric`, `PublishMetrics`, `PublishBirth`) fixes the topic, the metrics
and the instant and enters the wait for its gate; `Tick` lets the clock move
while it waits; `Refuse` is `reserve_seq` on a topic that names no edge node;
`SendMetrics`, `SendNbirth` and `SendDbirth` render, encode and choose the wire
options; `ArriveText` and `ArriveMetric` are somebody else's messages; `Read` is
`Namespace::parse` with `decode_payload`; `Answer` commands the edge node that a
parsed topic names, handing its segments on through the accessors, which do not
check again. The number a message carries is any its call could draw; `SeqGate`
says which.

`ReaderFindsTheMetrics` reads a value as the Sparkplug specification has it: each
value field holds certain datatypes (`HeldBy`), the signed ones in two's
complement, and a field under a datatype that it does not hold reads as nothing.
So any other pair of field and datatype in `to_proto` is seen, be it a narrower
integer, a signed one, a float or a text.

## 3. The runs

| Run | Shows | Distinct states |
|---|---|---|
| `seq_gate` | types, the gate discipline, numbers, birth pairs, refinement of `AtomicPublish` | 499 000 |
| `seq_gate_live` | every publish ends; a publish waits only for its own edge node | 39 000 |
| `seq_gate_gap` | *violated*: a host application reads no gap | |
| `delivery` | exact count, what a flush answers for, wake-ups, losses, the contract of `flush` | 1 243 000 |
| `delivery_live` | every flush returns when the broker answers and publishing pauses | 620 000 |
| `delivery_cancel` | *violated*: a guard releases only its own count | |
| `lifecycle` | shutdown, counting against the link, health, connect, deadlines, no leaked loop | 500 000 |
| `client` | no gap within a session, losses on record, counting against the channel and the link | 5 369 000 |
| `client_late` | *violated*: a flush that is `Ok` means acknowledged | |
| `messages` | topics round trip and parse strictly, keys are unique, payloads reach the reader, one instant per birth, rounding, retain flag | 584 000 |
| `topics_state` | *violated*: every topic that can be built can be parsed | |
| `messages_qos` | *violated*: an edge-node client tracks nothing | |

The violated properties quote a document or a comment of the repository; section
5 says what TLC finds.

Bounds, and why they are enough:

- `seq_gate`: two tasks on two edge nodes are the smallest instance with a wait
  at one gate, a birth interrupted by data, and an uninvolved gate. `Capacity = 1`
  makes the full channel and the waiting send frequent. `SeqMod = 3` lets a
  number wrap within three messages and keeps 0, 1 and 2 apart (the theorems hold
  for every modulus from 2 up). `MaxWire = 2` stops new calls, not the running
  ones, so up to five messages of an edge node are reached; the properties relate
  one message to the last kept one before it, and the proofs need no bound.
- `delivery`: two publishes are needed for one to be robbed of its count and two
  flushes to overlap; each task publishes again and again, so the counts live
  through any number of publishes within the two generations that
  `MaxDisconnects = 1` gives. `delivery_live` has two disconnects.
- `lifecycle`: `Capacity = 2` lets the DISCONNECT request find the channel both
  free and full behind publishes; four link events allow connect, break, a failed
  attempt and reconnect; both roles, tracked and untracked messages.
- `client`: one slot and one unanswered message make every queue full and every
  limit bite. `MaxWire = 2` stops new calls once the client took two messages; a
  call under way in another task, one that follows a refusal, and every publish
  that waits still go on. `MaxDisconnects = 2` counts what `record_disconnect`
  counts. The first one ends the first session. The second is a failed attempt,
  or the end of a connection that the broker's DISCONNECT announced; it ends no
  session of its own, and no call comes after it (`MayCall`, `MayGoDown`). So a
  break drops a message from the channel, publishes wait across it, and the next
  session hears two and more messages of one edge node, which is the case
  `SessionReadsNoGap` is about; a third session would repeat the second.
  `FlushAgain = FALSE` gives the flusher one flush, which may come at any time:
  no property of this run compares two. The last term of `LossesAreRecorded`,
  losses hidden by the answers to cut-off messages, is not needed within these
  bounds: such a loss takes a third message on the wire. The theorem covers every
  bound.
- `client_late`: `MaxWire = 1` and two disconnects are the smallest bounds at
  which a message is counted lost, delivered, and takes the count of a newer one;
  `FlushAgain = TRUE` lets the same flusher ask again.
- `messages`: the words are the namespace, `STATE`, a node type, a device type, an
  ordinary word, the empty string and a wildcard. No topic has more than five
  segments; a longer text is refused as one of a wrong length is, which shorter
  texts show. Eight integers over doubles of two bits have exact values, ties and
  a carry into the next power. The clock moves once, which can fall before and
  between the two messages of a birth.

`CHECK_DEADLOCK FALSE` stands in every configuration, because callers may simply
stop calling and a client that is done stays done.

Fairness:

- `seq_gate_live`: weak fairness of each step of a task, because the runtime
  polls a woken task; strong fairness of `Reserve`, because tokio's mutex queues
  its waiters first come first served. `EveryCallEnds` further assumes that
  the loop takes requests and that flume serves waiting sends in order; it does
  so inside the property, and `WaitsOnlyForItsOwnNode` does without. Nobody is
  obliged to cancel, to call or to close, and no link is obliged to break.
- `delivery_live`: the runtime polls tasks and the loop, and the broker answers
  what it received. The property speaks of behaviours in which publishing pauses
  in the end: while tasks publish without a pause, each look of a flush may find
  one more publish outstanding, and no fairness helps, since
  `wait_for_drain` waits for a zero and not for the publishes that were
  outstanding when it began. Timers and cancelled flushes are switched off there
  (`NoTimerNext`), since they would let every flush return. Disconnects and
  cancelled publishes stay possible and are not fair.
- `lifecycle`: weak fairness of the owner's own steps, of timers and of the
  loop's steps other than `poll`. Nothing is assumed of the broker or the link.

## 4. The proofs

Every safety property that a passing run checks is a theorem. The theorems hold
for every value of the constants that satisfies the named assumptions, all of
which the code justifies: `SeqMod >= 2`
(256), `Capacity` and `MaxInflight` positive (10 and 100), a finite set of
publishing tasks, `NoTask`, `NoPub`, `NoNode` and `Loop` outside the sets they
are not members of, the owners' names among the words, and a namespace segment
that `Namespace::new` accepts. The bounds (`MaxWire`,
`MaxDisconnects`, `MaxPubs`, `MaxEvents`, `MaxClock`, `MaxParts`) are arbitrary
natural numbers there. One assumption is not about a constant:
`FormatAssumption` says that Rust writes no number and no boolean as one of the
two fixed texts of `format_value`; `ToString` stands for that writing, and its
definition says nothing of the text.

Some theorems have one more hypothesis, a value of a switch (`CancelWindow`,
`Survives`, `OwnNode`). Each of them says how far one of the findings of section
5 reaches: the claim of the document holds as soon as the named situation does
not occur.

**Gates** (`SeqGateProofs`, `SeqGateRefinement`). `TypeOK`, `GateInv`,
`NumberFollowsLastKept` and `BirthPairTogether`. The last two are not inductive:
that a message follows the last kept one says nothing of the count from which
the next is drawn, and a birth in progress may yet lose the flag `kept` of its
NBIRTH. The invariant

    IInv == TypeOK /\ GateInv /\ WireInv /\ LastInv /\ BirthPairTogether

adds `WireInv`, which reads the wire as a settled part plus the `took` messages
of the call that holds the gate, and relates the settled part to the count that
a rollback would restore; and `LastInv`, which says that the last message on the
wire is the one the holder sent. Three lemmas on sequences carry the argument:
appending to a wire (`WireExtends`), committing its pending end (`WireCommits`)
and cutting it off (`WireCutsOff`) each keep a wire well numbered.

`PublishesAreAtomic` is the refinement: under the mapping `settledWire`,
`settledCount` of `SeqGate`, the one step in which a call commits or drops its
reservation after the MQTT client took a message is a step of `AtomicPublish`,
and every other step is a stutter. The lemmas are about the last `k` messages
of a wire; `IInv` says that the pending ones belong to one call.

Finding 1 is delimited from both sides. `GapsOnlyFollowCuts`: a number that does
not follow the one before it stands behind a message whose call was cut off, or is
that of an NBIRTH; the argument adds `BirthsStartOver`, that every NBIRTH
carries 0, to `IInv`. `PublisherLeavesNoGap`: a client that owns no edge node,
and so publishes no births, leaves no gap for a host to read unless a
cancellation falls into the window of ADR-0005. Its invariant `NothingCut` says
that there everything on the wire is kept.

**Tracker** (`DeliveryStateProofs`, `DeliveryProofs`). `TypeOK`, `CountIsExact`,
`NoSleepAfterDrain`, `ReportsItsWindow`, `LossIsToldToSomeone`,
`FlushOkMeansAckedUnlessStray` and `ContractUnlessStray`, with

    IInv == TypeOK /\ FlushInv /\ TicketInv /\ OutInv /\ CountIsExact /\ NoSleepAfterDrain

`FlushInv` says what an open flush has seen: `window = lost + reported -
opened`, from which both action properties follow, and that a flush past its
registration has a live waiter, from which the wake-up property follows.
`TicketInv` and `OutInv` tie tickets and messages on their way to the current
generation; without them an acknowledgement might clear a count that a
disconnect has cleared. Each step then moves `Outstanding` by one element, by
none, or empties it, and the cardinality facts do the rest. What an `Ok` vouches
for needs `VouchInv` on top: while the window of a flush shows no loss, each
publish it answers for is acknowledged or outstanding, and once the flush is
about to report, none is outstanding.

Three theorems say how far findings 2 and 3 reach. `FlushOkHoldsInAQuietSession`
proves the documented claim of `flush` in full where no message outlives a
disconnect and no cancellation meets a message just taken;
`FlushOkHoldsUntilADisconnect` proves it up to the first disconnect from the second
condition alone. `GuardHoldsOutsideTheWindow` proves the claim of `record_around_publish`
where no such cancellation occurs. So these situations are the only ones in which
the claims fail.

`TrackerKeepsTheContract` is the refinement, `ContractUnlessStray`; where no
message outlives a disconnect and no cancellation meets a message just taken,
`QuietSession` proves that `stray` stays false, and
`QuietTrackerImplementsTheContract` draws the plain conclusion that
`DeliveryTracker` implements `FlushContract`. While `stray` is false, a ticket is
current exactly for an outstanding publish, so `record_ack` and a release take one
member out of the set, a disconnect loses the set as a whole and adds its size to
every open window, and a flush that finds the counter at zero has found the set
empty. Registering, waking and notifying are stutters: the contract knows no
wake-ups, and that none is lost is `NoSleepAfterDrain`.

**One client** (`LifecycleProofs`). `TypeOK`, `ShutdownMeansDelivered`,
`CountMatchesTheLink`, `HealthFollowsTheLink` and `OpenMeansGreeted`, with

    IInv == TypeOK /\ EventInv /\ HealthInv /\ ReadyInv /\ OwedInv /\ CountInv /\ VerdictInv

`EventInv` ties the event in hand to the link, since the next poll comes only
after the loop is done with it. `OwedInv` and `CountInv` are the books: what is
acknowledged, in flight, queued, lost and reported adds up to what was tracked,
up to one PubAck in hand. `VerdictInv` carries the verdict of the last flush
through the disconnect to the outcome.

**The composition** (`ClientProofs`, `ClientCountProofs`). `ClientFollowsTheGate`
and `ClientFollowsTheTracker`: `SparkplugClient` implements `SeqGate` and
`DeliveryTracker`, so their invariants are invariants of the client
(`ComponentsHoldTogether` states the properties that matter most). So are their
other results: `ClientPublishesAtomically` and `ClientKeepsTheContract` carry the
refinements of `AtomicPublish` and of `FlushContract` over to the client, and
`FlushOkHoldsUntilADisconnect` the claim of `flush` for its first session, with the
channel, the link and the broker as they are modelled here. Its own `TypeOK`
follows. `SessionReadsNoGap` needs `FlowInv`: the channel holds the last
messages of each edge node in order (`ChanFits`), what was heard leaves none out
(`HeardFits`), and on a live link the two join up (`Joins`). With it, what the
broker heard are neighbours on the wire, and the gate numbers neighbours in a
row; `KindInv` and `PairInv` say that this client publishes no birth pairs.
`SessionReadsNoGap` allows a step back behind a message that was cut off;
`SessionIsGaplessOutsideTheWindow` allows none, and holds without cancellations at
the instant the client takes a message.

`CountMatchesTheLink` needs `CarryInv`: the messages on their way are exactly
those in the channel and in flight, each once, except while the loop has a
break in hand that it did not record yet.

`LossesAreRecorded` compares the messages that were dropped with the losses on
record. Three facts carry it. `AccountInv`: kept messages and waiting publishes
together are no more than the answers and the tracker's totals; a release takes
one from the totals only where an answer is added or a publish ends without being
kept, and a disconnect only moves between totals, so no step needs to know whose
count a late answer clears. `CountNeverOverstates`, a theorem of the tracker:
`unacked` is never more than the publishes outstanding, in any behaviour.
`CarryInv` and `RideInv`: each outstanding publish waits for the client or has
its own kept message on the way. Kept messages that are neither answered nor on
their way are then covered by what was lost and reported, except for the answers
that came for messages whose publish was cut off. The tracker is one number, so
this says how many losses are on record, not which. The exception is real: such
an answer clears the count of another publish, and a break that drops that
publish's message records nothing. It takes a cancellation at the instant the
client takes a message: `NoLossIsHiddenOutsideTheWindow` proves that, without
one, no more messages are dropped than losses are on record.

**Messages** (`MessagesProofs`). `TypeOK`, `RoundTripUnlessState`,
`ParseReadsWhatItRenders`, `KeyNamesOneEdgeNode`, `ReaderFindsTheMetrics`,
`BirthIsOneInstant`, `NothingWithASeqIsRetained`, `PlotsTheNearestDouble` and
`PlottedAsPrinted`. `EdgeNodeTracksOnlyDeaths` delimits finding 5: an NDEATH is the
only message an edge-node client tracks. The pure lemmas come first:
what a topic renders, segment by segment (`Displayed`), that parsing inverts it
(`RoundTrip`), and that a text which parses is the text its topic renders
(`Strict`), for any words and texts of any length. The invariant says that what
was sent is on a topic below a group, that the text on the wire is this topic's or
somebody else's, that the bytes are made from the call (`CallInv`), or else are
garbage or somebody else's metric (`BytesInv`), and that the reader's answers are
those of the text and the bytes before it. `Identities` is written as a subset of
pairs, since the prover does not read a comprehension with a tuple.

`PlotsTheNearestDouble` is the one about arithmetic. That a double of `MantissaBits`
bits is a multiple of a power of two, and that the cast takes the nearer of the two
multiples around a number, are facts about `2 ^ e` for every `e`. They would take
an induction over `e`, which the prover cannot instantiate. `2 ^ e` is written as
the number of subsets of `1 .. e` instead, and the library's theorem on the
cardinality of a power set stands in for the induction: it gives `PowerStep`, and
counting gives the least number with a property (`Least`), from which the rest
follows up to `AsDoubleIsNearest`. No double lies strictly between the two neighbours, also
where rounding up carries into the next power, so nothing is nearer than the one
taken.

Only model-checked are the liveness properties (`EveryCallEnds`,
`WaitsOnlyForItsOwnNode`, `FlushReturnsOncePublishingPauses`,
`ShutdownReturnsInTime`, `LoopStopsWithTheClient`): liveness under fairness is out
of the prover's reach.

## 5. Where the code and its documents disagree

1. **A cut-off birth leaves a gap** (`seq_gate_gap`). One reservation covers both
   births, so a cancelled or refused DBIRTH restores the number from before the
   NBIRTH, though the NBIRTH, which carries 0, has gone out. The next message
   does not follow it. `seq.rs:130` and `publish.rs:38` say there is no gap. This
   needs no cancellation in the instant ADR-0005 speaks of. It takes a birth,
   though, where no such cancellation occurs: `PublisherLeavesNoGap`.
2. **A guard can release the count of another task** (`delivery_cancel`). The
   message was taken and acknowledged before the publish was polled again; a
   cancellation then rolls back a second time. `publish.rs:357-360` excludes it.
   The count so taken is missing when the link breaks next: that publish may be
   dropped without a loss on record. `LossesAreRecorded` bounds how many.
3. **A flush can vouch for a message the broker has not acknowledged**
   (`client_late`). `record_disconnect` clears every count, and a message may
   survive that: it entered the channel after the connection had ended and before
   the loop recorded it (the trace of the run), or sat in the channel while an
   attempt to connect failed; a publish that waits for a slot across the break is
   a third way, which takes one more message than the bound of this run.
   `record_ack` takes no generation, so the answer to such a message is taken for
   that of a newer one. `delivery.rs:162`, and `delivery.rs:144-146` for the
   assumption behind it. Late answers alone hide no loss
   (`NoLossIsHiddenOutsideTheWindow`). And it takes a disconnect first:
   `FlushOkHoldsUntilADisconnect`.
4. **A group named `STATE` makes topics that do not parse** (`topics_state`),
   against `topic.rs:302` and ADR-0001.
5. **An edge-node client can track a message** (`messages_qos`): a metric
   published to an NDEATH topic through `publish_metric_to` goes out at QoS 1.
   `types.rs:176-178`, `publish.rs:307-310` and the comment at `types.rs:379-381`
   say that nothing such a client can publish is tracked.

A remark in the same vein: a shutdown over a link that is already down returns
`Ok`, as `wait_for_disconnect` (`shutdown.rs:16-17`) intends, while
`shutdown.rs:31` and `error.rs:77` speak of a packet that was written.

Two more facts that no document denies are part of the models: a connect future
that is dropped leaves its loop running (`CancelConnect`), and a loop that dies
before its first ConnAck makes `connect` return a client (`OpenMeansGreeted`).

## 6. What is not modelled

- TLS, credentials, keep-alive, packet size and the client id (`client.rs`): they
  configure `rumqttc` and the broker. That two connections may draw one client id
  and take each other over shows here as link breaks, which may come any time.
- The generated protobuf code and the schema, the crate root, and the texts of
  errors and logs, with the counter of consecutive errors that picks a log level.
- Counter widths in the tracker (`u32`, `u64`): no run of the program counts that
  far between two flushes.
- Negative numbers and fractions in payloads: no function distinguishes them,
  with one exception worth knowing. `numeric_value` does not look at the datatype,
  so the negative `Int32` or `Int64` of another publisher is plotted as a large
  positive number; no document of the crate says how it should be read.
- An empty batch of metrics, and names and aliases of metrics: nothing depends on
  them.

`rumqttc`, flume, prost and tokio are modelled as this code uses them and are
marked external.

## 7. Plan

1. A shutdown and the edge-node role in `SparkplugClient`: births and untracked
   messages in one channel with tracked ones, then the proofs of section 4 over it.
2. The mapping from `ClientLifecycle` to the tracker part of `SparkplugClient`,
   to tie the two views of one loop together.
