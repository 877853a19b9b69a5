------------------------------- MODULE Topics -------------------------------
(***************************************************************************)
(* Sparkplug topics: src/src/sparkplug/topic.rs, its ids (topic/ids.rs),   *)
(* MessageType (types.rs) and key_of (seq.rs), as operators. Messages is   *)
(* the state machine that renders, sends and parses with them.             *)
(*                                                                         *)
(* A text is the sequence of its segments, split at "/", so joining with   *)
(* "/" is concatenation. A raw identifier is a text too: one that contains *)
(* "/" has more than one segment, and the empty string is one empty        *)
(* segment. Wild holds the segments with a "+" or a "#" in them.           *)
(***************************************************************************)
EXTENDS Naturals, Sequences, SequencesExt

CONSTANTS
    Version,   \* the namespace segment
    Words,     \* the segments that texts and identifiers are made of
    Wild,      \* those of them that hold a wildcard
    MaxParts   \* bound: segments of a text

\* Namespace::new: a version that fails is_usable_segment makes no namespace.
ASSUME VersionAssumption == Version \in Words \ (Wild \cup {""})
ASSUME MaxPartsAssumption == MaxParts \in Nat

NodeTypes == {"NBIRTH", "NDATA", "NDEATH", "NCMD"}
DeviceTypes == {"DBIRTH", "DDATA", "DDEATH", "DCMD"}
MessageTypes == NodeTypes \cup DeviceTypes \cup {"STATE"}

\* MessageType::shape
ShapeOf(type) ==
    CASE type \in NodeTypes -> "Node"
      [] type \in DeviceTypes -> "Device"
      [] type = "STATE" -> "Host"

\* How many identifiers an address of that shape has.
Arity(shape) == CASE shape = "Node" -> 2 [] shape = "Device" -> 3 [] shape = "Host" -> 1

RawIds == {<<w>> : w \in Words} \cup {<<w, w>> : w \in Words}
Texts == UNION {[1 .. k -> Words] : k \in 1 .. MaxParts}

\* Mutant: a separator passes the check.
UsableWithSeparator(raw) == \A i \in 1 .. Len(raw) : raw[i] \notin Wild \cup {""}

\* is_usable_segment: not empty, and free of "/", "+" and "#".
IsUsable(raw) == Len(raw) = 1 /\ raw[1] \notin Wild \cup {""}

Ids == {raw \in RawIds : IsUsable(raw)}
IsTopic(t) == t.type \in MessageTypes /\ t.ids \in [1 .. Arity(ShapeOf(t.type)) -> Ids]

NoTopic == [type |-> "none", ids |-> <<>>]
Ok(topic) == [kind |-> "ok", topic |-> topic]
Err(kind) == [kind |-> kind, topic |-> NoTopic]
Errors == {"InvalidTopic", "UnknownMessageType", "WrongTopicShape"}

\* Display for SparkplugTopic.
Display(topic) ==
    IF ShapeOf(topic.type) = "Host"
    THEN <<Version, topic.type>> \o topic.ids[1]
    ELSE <<Version>> \o topic.ids[1] \o <<topic.type>> \o FlattenSeq(Tail(topic.ids))

\* Mutant: the parser wraps the segments without checking them.
AddressUnchecked(type, parts) ==
    Ok([type |-> type, ids |-> [i \in 1 .. Len(parts) |-> <<parts[i]>>]])

\* An address from its segments, each checked where it enters its type.
Address(type, parts) ==
    LET ids == [i \in 1 .. Len(parts) |-> <<parts[i]>>]
    IN  IF \A i \in 1 .. Len(ids) : IsUsable(ids[i])
        THEN Ok([type |-> type, ids |-> ids])
        ELSE Err("InvalidTopic")

\* Mutants of parse: it reads a longer text as the shape it begins with; it
\* takes the group and the edge node in the wrong order.
ParsePrefix(s) ==
    IF s[1] # Version \/ Len(s) < 3 THEN Err("InvalidTopic")
    ELSE IF s[2] = "STATE" THEN Address("STATE", <<s[3]>>)
    ELSE IF s[3] \notin MessageTypes THEN Err("UnknownMessageType")
    ELSE IF ShapeOf(s[3]) = "Host" \/ Len(s) < 2 + Arity(ShapeOf(s[3])) THEN Err("WrongTopicShape")
    ELSE Address(s[3], <<s[2]>> \o SubSeq(s, 4, 2 + Arity(ShapeOf(s[3]))))
ParseSwapped(s) ==
    IF Len(s) = 4 /\ s[1] = Version /\ s[2] # "STATE" /\ s[3] \in NodeTypes
    THEN Address(s[3], <<s[4], s[2]>>)
    ELSE ParsePrefix(s)

\* Namespace::parse. STATE names itself in the second segment, every other
\* type in the third, and the number of segments has to fit the type exactly.
Parse(s) ==
    IF s[1] # Version THEN Err("InvalidTopic")
    ELSE IF Len(s) > 1 /\ s[2] = "STATE"
    THEN IF Len(s) = 3 THEN Address("STATE", <<s[3]>>) ELSE Err("WrongTopicShape")
    ELSE IF Len(s) < 3 THEN Err("InvalidTopic")
    ELSE IF s[3] \notin MessageTypes THEN Err("UnknownMessageType")
    ELSE IF ShapeOf(s[3]) # "Host" /\ Len(s) = 2 + Arity(ShapeOf(s[3]))
    THEN Address(s[3], <<s[2]>> \o SubSeq(s, 4, Len(s)))
    ELSE Err("WrongTopicShape")

\* key_of: the key of an edge node in the map of gates.
KeyOf(group, node) == group \o node

=============================================================================
