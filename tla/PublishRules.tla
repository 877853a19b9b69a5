---------------------------- MODULE PublishRules ----------------------------
(***************************************************************************)
(* How a message goes out, by the role of the client and the type of the   *)
(* message: the rules of src/src/sparkplug/types.rs. A QoS is its number.  *)
(***************************************************************************)
EXTENDS Naturals

\* Role
AllRoles == {"Publisher", "EdgeNode"}

\* MessageType::spec_qos
SpecQos(type) == IF type \in {"NDEATH", "STATE"} THEN 1 ELSE 0

\* MessageType::spec_retain
SpecRetain(type) == type = "STATE"

\* Mutant: every publish is tracked.
TrackedByDefault(role, type) ==
    [qos |-> IF role = "EdgeNode" THEN SpecQos(type) ELSE 1,
     retain |-> SpecRetain(type), tracked |-> TRUE]

\* wire_options: tracked follows the QoS.
WireOptions(role, type) ==
    LET qos == IF role = "EdgeNode" THEN SpecQos(type) ELSE 1
    IN  [qos |-> qos, retain |-> SpecRetain(type), tracked |-> qos = 1]
=============================================================================
