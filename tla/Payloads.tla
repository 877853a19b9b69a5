------------------------------ MODULE Payloads ------------------------------
(***************************************************************************)
(* The Sparkplug payload: MetricValue (src/src/sparkplug/types.rs), the    *)
(* builders (payload_helpers.rs), the datatype table (datatype.rs) and     *)
(* what a reader does with a payload (src/src/payload.rs). All of it is    *)
(* pure.                                                                   *)
(*                                                                         *)
(* An unsigned integer has LongBits bits (64 in the code), a double keeps  *)
(* MantissaBits significant bits (53). Negative numbers and fractions are  *)
(* left out: they add no case to any of these functions. An Option is a    *)
(* set of at most one element.                                             *)
(***************************************************************************)
EXTENDS Integers, Sequences, TLC

CONSTANTS
    LongBits,      \* width of MetricValue::Int
    MantissaBits,  \* significant bits of a double
    Strings        \* the values of MetricValue::String

ASSUME LongBitsAssumption == LongBits \in Nat \ {0}
ASSUME MantissaBitsAssumption == MantissaBits \in 1 .. LongBits

Longs == 0 .. 2 ^ LongBits - 1

\* The distance between neighbouring doubles at n.
Ulp(n) ==
    CHOOSE u \in {2 ^ e : e \in 0 .. LongBits} :
        /\ n < u * 2 ^ MantissaBits
        /\ u = 1 \/ n >= (u \div 2) * 2 ^ MantissaBits

\* Rust's `as f64` from an integer: the nearest double, a tie to the even one.
AsDouble(n) ==
    LET q == n \div Ulp(n)
        twice == 2 * (n % Ulp(n))
    IN  IF twice > Ulp(n) \/ (twice = Ulp(n) /\ q % 2 = 1) THEN (q + 1) * Ulp(n)
                                                           ELSE q * Ulp(n)

Doubles == {AsDouble(n) : n \in Longs}

----------------------------------------------------------------------------
(* DataType.                                                               *)

\* The table of datatypes: the code of a datatype is its position.
DataTypes ==
    <<"Int8", "Int16", "Int32", "Int64", "UInt8", "UInt16", "UInt32", "UInt64",
      "Float", "Double", "Boolean", "String", "DateTime", "Text", "Uuid", "DataSet",
      "Bytes", "File", "Template", "PropertySet", "PropertySetList">>

\* DataType::code
Code(datatype) == CHOOSE c \in DOMAIN DataTypes : DataTypes[c] = datatype

\* DataType::from_code
FromCode(code) == IF code \in DOMAIN DataTypes THEN {DataTypes[code]} ELSE {}

----------------------------------------------------------------------------
(* What a caller publishes.                                                *)

\* MetricValue
MetricValues ==
    [kind : {"Float"}, of : Doubles] \cup [kind : {"String"}, of : Strings]
        \cup [kind : {"Bool"}, of : BOOLEAN] \cup [kind : {"Int"}, of : Longs]

\* The value field of a protobuf Metric, a oneof; NoValue when it is not set.
Value(field, of) == [field |-> field, of |-> of]
NoValue == Value("none", 0)

\* Mutant: an unsigned number announced as a signed one.
SignedInt ==
    [Float |-> <<"DoubleValue", "Double">>, String |-> <<"StringValue", "String">>,
     Bool |-> <<"BooleanValue", "Boolean">>, Int |-> <<"LongValue", "Int64">>]

\* MetricValue::to_proto: the value field and the datatype beside it.
FieldAndDatatype ==
    [Float |-> <<"DoubleValue", "Double">>, String |-> <<"StringValue", "String">>,
     Bool |-> <<"BooleanValue", "Boolean">>, Int |-> <<"LongValue", "UInt64">>]

ToProto(v) ==
    [value |-> Value(FieldAndDatatype[v.kind][1], v.of),
     datatype |-> FieldAndDatatype[v.kind][2]]

\* create_metric
CreateMetric(name, v, timestamp) ==
    [name |-> name, value |-> ToProto(v).value,
     datatype |-> Code(ToProto(v).datatype), timestamp |-> timestamp]

\* proto_metrics: each metric keeps the instant the caller gives beside it.
ProtoMetrics(batch) ==
    [i \in 1 .. Len(batch) |-> CreateMetric(batch[i].name, batch[i].value, batch[i].ts)]

\* create_payload
CreatePayload(metrics, timestamp, seq) ==
    [timestamp |-> timestamp, metrics |-> metrics, seq |-> seq]

Rebirth(name, timestamp) ==
    <<CreateMetric(name, [kind |-> "Float", of |-> 0], timestamp)>>

\* create_birth_certificate
BirthCertificate(timestamp, seq) ==
    [timestamp |-> timestamp, metrics |-> Rebirth("Node Control/Rebirth", timestamp),
     seq |-> seq]

\* create_device_birth_certificate
DeviceBirthCertificate(timestamp, seq) ==
    [timestamp |-> timestamp, metrics |-> Rebirth("Device Control/Rebirth", timestamp),
     seq |-> seq]

----------------------------------------------------------------------------
(* Onto the wire and off it.                                               *)

\* prost writes the fields that are set and reads back the same fields; bytes
\* that are no payload are an error.
Encode(payload) == [kind |-> "payload", payload |-> payload]
Garbage == [kind |-> "garbage"]

\* decode_payload
DecodePayload(bytes) == IF bytes.kind = "payload" THEN {bytes.payload} ELSE {}

\* Mutants of numeric_value: it casts an integer down to fewer bits first; it
\* parses a string.
NumericNarrow(metric) ==
    IF metric.value.field = "LongValue"
    THEN {AsDouble(metric.value.of % 2 ^ (LongBits - 1))} ELSE {}
NumericText(metric) ==
    IF metric.value.field = "StringValue"
    THEN {n \in Longs : ToString(n) = metric.value.of} ELSE {}

\* Metric::numeric_value. The datatype has no say in it.
NumericValue(metric) ==
    LET v == metric.value
    IN  CASE v.field \in {"IntValue", "LongValue"}     -> {AsDouble(v.of)}
          [] v.field \in {"FloatValue", "DoubleValue"} -> {v.of}
          [] v.field = "BooleanValue"                  -> {IF v.of THEN 1 ELSE 0}
          [] OTHER                                     -> {}

\* Metric::format_value, as the pieces it writes one after the other.
FormatValue(metric) ==
    LET v == metric.value
    IN  CASE v.field \in {"IntValue", "LongValue", "FloatValue", "DoubleValue",
                          "BooleanValue"}  -> <<ToString(v.of)>>
          [] v.field = "StringValue"       -> <<"\"", v.of, "\"">>
          [] v.field = "BytesValue"        -> <<"[", "]">>
          [] v.field = "none"              -> <<"No value">>
          [] OTHER                         -> <<"Unknown value type">>

\* How Rust writes a number or a boolean: never as one of the two fixed words.
ASSUME FormatAssumption ==
    /\ \A n \in Longs \cup Doubles : ToString(n) \notin {"No value", "Unknown value type"}
    /\ \A b \in BOOLEAN : ToString(b) \notin {"No value", "Unknown value type"}

=============================================================================
