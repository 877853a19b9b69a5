------------------------------ MODULE Messages ------------------------------
(***************************************************************************)
(* One message from a caller to a reader: the publish calls of             *)
(* src/src/sparkplug/client/publish.rs, which choose the topic, the        *)
(* instant, the payload and the wire options, and the reader that parses   *)
(* the topic, decodes the payload and may answer the edge node it names.   *)
(*                                                                         *)
(* The seq a message carries is any number its call may draw; SeqGate says *)
(* which one it is, and what happens while the call waits. Here the wait   *)
(* only lets the clock move on.                                            *)
(***************************************************************************)
EXTENDS Topics, Payloads, PublishRules

CONSTANTS
    Owners,    \* words an edge-node client is named with
    MaxClock   \* bound: the last instant of the clock

ASSUME OwnersAssumption == Owners \subseteq Words
ASSUME MaxClockAssumption == MaxClock \in Nat

VARIABLES
    identity,  \* the edge node of the client, NoIdentity for a publisher
    clock,     \* what Timestamp::now() reads
    stage,     \* where the message is
    call,      \* the publish call it belongs to, or NoCall
    sent,      \* the topic that was rendered, or NoTopic
    text,      \* the segments on the wire
    options,   \* QoS, retain flag and tracking of the message on the wire
    bytes,     \* the encoded payload
    got,       \* what parse made of the text
    read       \* what decode_payload made of the bytes

vars == <<identity, clock, stage, call, sent, text, options, bytes, got, read>>

Instants == 0 .. MaxClock
Seqs == 0 .. 1

\* Identity: a publisher, or the checked pair of an edge-node client.
NoIdentity == <<>>
Identities == {NoIdentity} \cup {pair \in Ids \X Ids : {pair[1][1], pair[2][1]} \subseteq Owners}

\* SparkplugClient::role
Role == IF identity = NoIdentity THEN "Publisher" ELSE "EdgeNode"

\* A metric as the caller gives it, and the lists a caller publishes.
Metric(v, ts) == [name |-> "metric", value |-> v, ts |-> ts]
Single == {Metric(v, ts) : v \in MetricValues, ts \in Instants}
Batch == <<Metric([kind |-> "Bool", of |-> TRUE], 0),
           Metric([kind |-> "Int", of |-> 1], MaxClock)>>

NoCall == [kind |-> "none", topic |-> NoTopic, batch |-> <<>>, at |-> 0, seq |-> 0]
NoOptions == [qos |-> 0, retain |-> FALSE, tracked |-> FALSE]

TypeOK ==
    /\ identity \in Identities
    /\ clock \in Instants
    /\ stage \in {"start", "entered", "refused", "text", "parsed"}
    /\ call.kind \in {"none", "metrics", "birth"} /\ call.at \in Instants /\ call.seq \in Seqs
    /\ call.topic = NoTopic \/ IsTopic(call.topic)
    /\ sent = NoTopic \/ IsTopic(sent)
    /\ text \in Seq(Words \cup MessageTypes)
    /\ options \in [qos : {0, 1}, retain : BOOLEAN, tracked : BOOLEAN]
    /\ bytes.kind \in {"payload", "garbage"}
    /\ \/ got.kind = "ok" /\ IsTopic(got.topic)
       \/ got.kind \in Errors \cup {"none"} /\ got.topic = NoTopic

Init ==
    /\ identity \in Identities
    /\ clock = 0 /\ stage = "start" /\ call = NoCall
    /\ sent = NoTopic /\ text = <<>> /\ options = NoOptions /\ bytes = Garbage
    /\ got = Err("none") /\ read = {}

wire == <<sent, text, options, bytes>>
reader == <<got, read>>

----------------------------------------------------------------------------
(* The publish calls, up to the wait for the gate.                         *)

Enter(kind, topic, batch, at) ==
    /\ stage' = "entered"
    /\ call' = [kind |-> kind, topic |-> topic, batch |-> batch, at |-> at, seq |-> 0]
    /\ UNCHANGED <<identity, clock, wire, reader>>

\* Namespace's constructors behind the checks of GroupId::new and the others:
\* an identifier that fails its check ends the attempt.
Topic(type, raws) == [type |-> type, ids |-> raws]
AllUsable(raws) == \A i \in 1 .. Len(raws) : IsUsable(raws[i])

\* publish_metric (which builds a DDATA topic) and publish_metric_to: the
\* instant of the metric is the instant of the payload.
PublishMetric ==
    /\ stage = "start"
    /\ \E type \in MessageTypes : \E raws \in [1 .. Arity(ShapeOf(type)) -> RawIds] :
          /\ AllUsable(raws)
          /\ \E m \in Single : Enter("metrics", Topic(type, raws), <<m>>, m.ts)

\* publish_metrics and publish_metrics_to: each metric keeps its own instant,
\* the payload gets the clock's.
PublishMetrics ==
    /\ stage = "start"
    /\ \E type \in MessageTypes : \E raws \in [1 .. Arity(ShapeOf(type)) -> RawIds] :
          /\ AllUsable(raws)
          /\ Enter("metrics", Topic(type, raws), Batch, clock)

\* publish_birth, for an edge-node client only: the clock is read once.
PublishBirth ==
    /\ stage = "start"
    /\ identity # NoIdentity
    /\ Enter("birth", Topic("NBIRTH", identity), <<>>, clock)

\* Time passes while a call waits for its gate or for a slot.
Tick ==
    /\ call # NoCall /\ stage # "start"
    /\ clock < MaxClock
    /\ clock' = clock + 1
    /\ UNCHANGED <<identity, stage, call, wire, reader>>

----------------------------------------------------------------------------
(* The draw of a number and the hand-over.                                 *)

\* Mutant: a host topic has a count of its own.
AnyTopicCounts(topic) == {<<topic.ids[1], topic.ids[Len(topic.ids)]>>}

\* The edge node whose count a topic belongs to, if it names one.
EdgeNodeOf(topic) ==
    IF ShapeOf(topic.type) = "Host" THEN {} ELSE {SubSeq(topic.ids, 1, 2)}

\* reserve_seq refuses a topic that names no edge node.
Refuse ==
    /\ stage = "entered"
    /\ EdgeNodeOf(call.topic) = {}
    /\ stage' = "refused"
    /\ UNCHANGED <<identity, clock, call, wire, reader>>

\* publish_message
Send(topic, payload) ==
    /\ stage' = "text"
    /\ sent' = topic
    /\ text' = Display(topic)
    /\ options' = WireOptions(Role, topic.type)
    /\ bytes' = Encode(payload)
    /\ got' = Err("none") /\ read' = {}
    /\ UNCHANGED <<identity, clock>>

\* publish_metrics_on
SendMetrics ==
    /\ stage = "entered"
    /\ call.kind = "metrics"
    /\ EdgeNodeOf(call.topic) # {}
    /\ \E seq \in IF call.topic.type = "NBIRTH" THEN {0} ELSE Seqs :
          /\ call' = [call EXCEPT !.seq = seq]
          /\ Send(call.topic, CreatePayload(ProtoMetrics(call.batch), call.at, seq))

\* publish_birth: the NBIRTH.
SendNbirth ==
    /\ stage = "entered"
    /\ call.kind = "birth"
    /\ Send(call.topic, BirthCertificate(call.at, 0))
    /\ UNCHANGED call

Dbirth(at) ==
    /\ call.kind = "birth"
    /\ stage \in {"text", "parsed"} /\ sent.type = "NBIRTH"
    /\ \E device \in Ids :
          Send(Topic("DBIRTH", Append(identity, device)), DeviceBirthCertificate(at, 1))
    /\ call' = [call EXCEPT !.seq = 1]

\* Mutant: the second certificate reads the clock again.
SendDbirthNow == Dbirth(clock)

\* publish_birth: the DBIRTH, under the instant of the NBIRTH.
SendDbirth == Dbirth(call.at)

----------------------------------------------------------------------------
(* The reader.                                                             *)

\* Somebody else publishes any text, with bytes that are no payload.
ArriveText ==
    /\ stage = "start"
    /\ text' \in Texts
    /\ stage' = "text"
    /\ UNCHANGED <<identity, clock, call, sent, options, bytes, reader>>

\* The values that another publisher's metric may hold.
Foreign ==
    [field : {"IntValue", "LongValue"}, of : Longs] \cup {NoValue}
        \cup [field : {"FloatValue"}, of : Doubles]
        \cup [field : {"BytesValue", "DatasetValue"}, of : {0}]

\* Another publisher sends a metric of a kind that this crate does not write.
ArriveMetric ==
    /\ stage = "start"
    /\ \E type \in NodeTypes, id \in Ids : text' = Display(Topic(type, <<id, id>>))
    /\ \E v \in Foreign, code \in DOMAIN DataTypes :
          bytes' = Encode(CreatePayload(<<[name |-> "metric", value |-> v,
                                           datatype |-> code, timestamp |-> 0]>>, 0, 0))
    /\ stage' = "text"
    /\ UNCHANGED <<identity, clock, call, sent, options, reader>>

\* Namespace::parse and decode_payload
Read ==
    /\ stage = "text"
    /\ got' = Parse(text)
    /\ read' = DecodePayload(bytes)
    /\ stage' = "parsed"
    /\ UNCHANGED <<identity, clock, call, wire>>

\* The reader commands the edge node that the topic names: group_id and
\* node_id hand the segments back as identifiers, and nothing checks them again.
Answer ==
    /\ stage = "parsed"
    /\ got.kind = "ok"
    /\ \E node \in EdgeNodeOf(got.topic), seq \in Seqs :
          /\ call' = [kind |-> "metrics", topic |-> Topic("NCMD", node),
                      batch |-> Batch, at |-> clock, seq |-> seq]
          /\ Send(Topic("NCMD", node), CreatePayload(ProtoMetrics(Batch), clock, seq))

Next ==
    \/ PublishMetric \/ PublishMetrics \/ PublishBirth \/ Tick
    \/ Refuse \/ SendMetrics \/ SendNbirth \/ SendDbirth
    \/ ArriveText \/ ArriveMetric \/ Read \/ Answer

Spec == Init /\ [][Next]_vars

----------------------------------------------------------------------------
(* Safety: topics.                                                         *)

Parsed == stage = "parsed"

\* A text made from a topic reads back as that topic, whatever identifiers the
\* topic holds (topic/tests.rs, every_message_type_survives_a_round_trip), with
\* one exception: a group named STATE.
RoundTripUnlessState ==
    (Parsed /\ sent # NoTopic /\ sent.ids[1] # <<"STATE">>) => got = Ok(sent)

\* Parsing is strict: a text that is read as a topic is the text that topic
\* renders, so no two texts mean the same topic (topic.rs, "rejected rather
\* than reinterpreted").
ParseReadsWhatItRenders == (Parsed /\ got.kind = "ok") => Display(got.topic) = text

\* A key names one edge node: no other pair of identifiers that pass their
\* checks writes the key of the pair in this topic, so two edge nodes never
\* share a gate (seq.rs, "no two different pairs write the same key").
KeyNamesOneEdgeNode ==
    \A pair \in IF sent = NoTopic THEN {} ELSE EdgeNodeOf(sent) :
        \A group, node \in Ids :
            KeyOf(group, node) = KeyOf(pair[1], pair[2]) => <<group, node>> = pair

\* Every topic that Namespace builds is one that its parser reads
\* (topic.rs:302, "holding a value of this type means the topic is
\* addressable").
EveryTopicParses == (Parsed /\ sent # NoTopic) => got.kind = "ok"

----------------------------------------------------------------------------
(* Safety: payloads.                                                       *)

\* The datatypes that the Sparkplug specification puts into each value field.
HeldBy(field) ==
    CASE field = "IntValue"     -> {"Int8", "Int16", "Int32", "UInt8", "UInt16", "UInt32"}
      [] field = "LongValue"    -> {"Int64", "UInt64", "DateTime"}
      [] field = "FloatValue"   -> {"Float"}
      [] field = "DoubleValue"  -> {"Double"}
      [] field = "BooleanValue" -> {"Boolean"}
      [] field = "StringValue"  -> {"String", "Text", "Uuid"}
      [] OTHER                  -> {}

\* A signed integer is two's complement in its field.
Signed(n) == IF n >= 2 ^ (LongBits - 1) THEN n - 2 ^ LongBits ELSE n

\* What a reader makes of a value field under the datatype beside it, and
\* nothing where the field does not hold that datatype.
UnderDatatype(metric) ==
    {IF d \in {"Int8", "Int16", "Int32", "Int64"} THEN Signed(metric.value.of)
                                                  ELSE metric.value.of :
        d \in FromCode(metric.datatype) \cap HeldBy(metric.value.field)}

Carries(metric, published) ==
    /\ metric.name = published.name
    /\ metric.timestamp = published.ts
    /\ UnderDatatype(metric) = {published.value.of}

\* The reader of a message finds the caller's metrics in the caller's order,
\* each with its own instant, and reads each value under the datatype beside it
\* as the value that was published (types.rs, "a datatype the receiver cannot
\* read").
ReaderFindsTheMetrics ==
    (Parsed /\ call.kind = "metrics") =>
        \E p \in read :
            /\ p.seq = call.seq /\ p.timestamp = call.at
            /\ Len(p.metrics) = Len(call.batch)
            /\ \A i \in 1 .. Len(call.batch) : Carries(p.metrics[i], call.batch[i])

\* Both certificates of a birth carry one instant, in the payload and in the
\* metric, however long the call waited between them (publish.rs, "One birth
\* event, so both payloads carry one instant").
BirthIsOneInstant ==
    (Parsed /\ call.kind = "birth") =>
        \A p \in read : {p.timestamp, p.metrics[1].timestamp} = {call.at}

Distance(a, b) == IF a < b THEN b - a ELSE a - b

\* The number that numeric_value plots for a published integer is a double
\* nearest to it: exact while it fits the mantissa, and never off by a range.
PlotsTheNearestDouble ==
    Parsed => \A p \in read : \A i \in 1 .. Len(call.batch) :
        call.batch[i].value.kind = "Int" =>
            \E d \in NumericValue(p.metrics[i]) :
                \A e \in Doubles : Distance(d, call.batch[i].value.of)
                                      <= Distance(e, call.batch[i].value.of)

\* A reader that plots what it can and prints the rest never takes one for the
\* other, whoever published the metric: it is plotted exactly if it prints like
\* a number or a boolean does. A string is neither, even when its text is that
\* of a number (payload.rs:108, callers gate on the None).
PlottedAsPrinted ==
    Parsed => \A p \in read : \A i \in 1 .. Len(p.metrics) :
        (NumericValue(p.metrics[i]) # {}) <=>
            \E v \in {u \in MetricValues : u.kind # "String"} :
                FormatValue(p.metrics[i]) = FormatValue([value |-> ToProto(v).value])

----------------------------------------------------------------------------
(* Safety: wire options.                                                   *)

\* Whatever topic a caller builds, no message that carries a seq is retained by
\* the broker, and a publisher's messages are all tracked (types.rs, "Only
\* STATE is retained"; reserve_seq refuses it).
NothingWithASeqIsRetained ==
    sent # NoTopic => ~options.retain /\ (Role = "Publisher" => options.tracked)

\* types.rs:178 on an edge-node client: "so nothing is tracked".
EdgeNodeTracksNothing == Role = "EdgeNode" => ~options.tracked
=============================================================================
