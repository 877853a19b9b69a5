--------------------------- MODULE MessagesProofs ---------------------------
(***************************************************************************)
(* Proofs about Messages, for any words and identifiers, any owners, any   *)
(* width of an integer and any length of the run: what a topic renders is  *)
(* read back as that topic, what is read is what was rendered, and what a  *)
(* caller publishes is what a reader finds.                                *)
(***************************************************************************)
EXTENDS Messages, FiniteSetTheorems, SequenceTheorems, TLAPS

----------------------------------------------------------------------------
(* FlattenSeq, for the one or two identifiers after the group.             *)

\* One part is itself.
LEMMA FlattenOne ==
    ASSUME NEW a
    PROVE  FlattenSeq(<<a>>) = a
<1> DEFINE D(f) == f = [i \in 1 .. Len(<<a>>) |->
                          IF i = 1 THEN <<a>>[i] ELSE f[i - 1] \o <<a>>[i]]
           F == CHOOSE f : D(f)
<1>1. D([i \in 1 .. 1 |-> a])
  OBVIOUS
<1>2. D(F)
  BY <1>1, Zenon
<1>3. F[1] = a
  BY <1>2
<1>4. FlattenSeq(<<a>>) = F[1]
  BY DEF FlattenSeq
<1> QED BY <1>3, <1>4

\* Two parts are concatenated.
LEMMA FlattenTwo ==
    ASSUME NEW a, NEW b
    PROVE  FlattenSeq(<<a, b>>) = a \o b
<1> DEFINE D(f) == f = [i \in 1 .. Len(<<a, b>>) |->
                          IF i = 1 THEN <<a, b>>[i] ELSE f[i - 1] \o <<a, b>>[i]]
           F == CHOOSE f : D(f)
<1>1. D([i \in 1 .. 2 |-> IF i = 1 THEN a ELSE a \o b])
  OBVIOUS
<1>2. D(F)
  BY <1>1, Zenon
<1>3. FlattenSeq(<<a, b>>) = F[2]
  BY DEF FlattenSeq
<1>4. ASSUME NEW f, D(f)
      PROVE  f[2] = a \o b
  <2> DEFINE G(i) == IF i = 1 THEN <<a, b>>[i] ELSE f[i - 1] \o <<a, b>>[i]
  <2>1. Len(<<a, b>>) = 2 /\ <<a, b>>[1] = a /\ <<a, b>>[2] = b /\ 2 - 1 = 1
        /\ ~(2 = 1)
    OBVIOUS
  <2>2. f = [i \in 1 .. 2 |-> G(i)]
    BY <1>4, <2>1
  <2>3. G(1) = a
    BY <2>1
  <2>4. G(2) = f[1] \o b
    BY <2>1, Zenon
  <2> HIDE DEF G
  <2>5. f[1] = G(1) /\ f[2] = G(2)
    BY <2>2
  <2> QED BY <2>3, <2>4, <2>5
<1>5. F[2] = a \o b
  BY <1>2, <1>4
<1> QED BY <1>3, <1>5

----------------------------------------------------------------------------
(* Topics by their shape.                                                  *)

NodeTopics == [type : NodeTypes, ids : [1 .. 2 -> Ids]]
DeviceTopics == [type : DeviceTypes, ids : [1 .. 3 -> Ids]]
HostTopics == [type : {"STATE"}, ids : [1 .. 1 -> Ids]]
TopicSet == NodeTopics \cup DeviceTopics \cup HostTopics

\* The segments that an identifier may be.
Usable == Words \ (Wild \cup {""})

\* The shape of a type, and how many identifiers it takes.
LEMMA Shapes ==
    /\ \A type \in NodeTypes : ShapeOf(type) = "Node"
    /\ \A type \in DeviceTypes : ShapeOf(type) = "Device"
    /\ ShapeOf("STATE") = "Host"
    /\ Arity("Node") = 2 /\ Arity("Device") = 3 /\ Arity("Host") = 1
BY DEF ShapeOf, Arity, NodeTypes, DeviceTypes

\* A segment on its own passes the check exactly if it is a usable one.
LEMMA OneSegment ==
    ASSUME NEW w
    PROVE  IsUsable(<<w>>) <=> w \notin Wild \cup {""}
BY DEF IsUsable

\* An identifier is one usable segment.
LEMMA IdsAre ==
    ASSUME NEW id
    PROVE  id \in Ids <=> \E w \in Usable : id = <<w>>
<1>1. ASSUME NEW w \in Words, IsUsable(<<w, w>>)
      PROVE  FALSE
  <2>1. Len(<<w, w>>) = 2
    OBVIOUS
  <2>2. Len(<<w, w>>) = 1
    BY <1>1, Zenon DEF IsUsable
  <2> QED BY <2>1, <2>2
<1>2. CASE id \in Ids
  BY <1>1, <1>2, OneSegment DEF Ids, RawIds, Usable
<1>3. ASSUME NEW w \in Usable, id = <<w>>
      PROVE  id \in Ids
  BY <1>3, OneSegment DEF Ids, RawIds, Usable
<1> QED BY <1>2, <1>3

\* It is given by its segment.
LEMMA IdOf ==
    ASSUME NEW id \in Ids
    PROVE  id = <<id[1]>> /\ id[1] \in Usable
<1>1. PICK w \in Usable : id = <<w>>
  BY IdsAre
<1>2. id[1] = w
  BY <1>1
<1> QED BY <1>1, <1>2

\* A function on 1 .. n is a sequence of length n.
LEMMA FunctionIsSeq ==
    ASSUME NEW S, NEW n \in Nat, NEW f \in [1 .. n -> S]
    PROVE  f \in Seq(S) /\ Len(f) = n
<1>1. f \in Seq(S)
  OBVIOUS
<1>2. Len(f) \in Nat /\ 1 .. Len(f) = 1 .. n
  BY <1>1, LenProperties
<1> QED BY <1>1, <1>2

\* Segments are joined one after the other.
LEMMA JoiningOne ==
    ASSUME NEW S, NEW s \in Seq(S), NEW e \in S
    PROVE  /\ s \o <<e>> \in Seq(S) /\ Len(s \o <<e>>) = Len(s) + 1
           /\ \A i \in 1 .. Len(s) : (s \o <<e>>)[i] = s[i]
           /\ (s \o <<e>>)[Len(s) + 1] = e
<1>1. s \o <<e>> = Append(s, e)
  BY AppendIsConcat
<1> QED BY <1>1, AppendProperties

LEMMA Joining ==
    ASSUME NEW a, NEW b, NEW c, NEW d
    PROVE  /\ <<a>> \o <<b>> = <<a, b>>
           /\ <<a, b>> \o <<c>> = <<a, b, c>>
           /\ <<a, b, c>> \o <<d>> = <<a, b, c, d>>
<1> DEFINE S == {a, b, c, d}
<1>1. /\ <<a>> \in Seq(S) /\ <<a, b>> \in Seq(S) /\ <<a, b, c>> \in Seq(S)
      /\ <<a, b, c, d>> \in Seq(S)
  OBVIOUS
<1>2. b \in S /\ c \in S /\ d \in S
  OBVIOUS
<1>3. Len(<<a>>) = 1 /\ Len(<<a, b>>) = 2 /\ Len(<<a, b, c>>) = 3 /\ Len(<<a, b, c, d>>) = 4
  OBVIOUS
<1> HIDE DEF S
<1>4. <<a>> \o <<b>> = <<a, b>>
  <2> DEFINE u == <<a>> \o <<b>>
  <2>1. u \in Seq(S) /\ Len(u) = 2 /\ u[1] = a /\ u[2] = b
    BY <1>1, <1>2, <1>3, JoiningOne
  <2> HIDE DEF u
  <2>2. \A i \in 1 .. 2 : u[i] = <<a, b>>[i]
    BY <2>1
  <2>3. u = <<a, b>>
    BY <1>1, <1>3, <2>1, <2>2, SeqEqual
  <2> QED BY <2>3 DEF u
<1>5. <<a, b>> \o <<c>> = <<a, b, c>>
  <2> DEFINE u == <<a, b>> \o <<c>>
  <2>1. u \in Seq(S) /\ Len(u) = 3 /\ u[1] = a /\ u[2] = b /\ u[3] = c
    BY <1>1, <1>2, <1>3, JoiningOne
  <2> HIDE DEF u
  <2>2. \A i \in 1 .. 3 : u[i] = <<a, b, c>>[i]
    BY <2>1
  <2>3. u = <<a, b, c>>
    BY <1>1, <1>3, <2>1, <2>2, SeqEqual
  <2> QED BY <2>3 DEF u
<1>6. <<a, b, c>> \o <<d>> = <<a, b, c, d>>
  <2> DEFINE u == <<a, b, c>> \o <<d>>
  <2>1. u \in Seq(S) /\ Len(u) = 4 /\ u[1] = a /\ u[2] = b /\ u[3] = c /\ u[4] = d
    BY <1>1, <1>2, <1>3, JoiningOne
  <2> HIDE DEF u
  <2>2. \A i \in 1 .. 4 : u[i] = <<a, b, c, d>>[i]
    BY <2>1
  <2>3. u = <<a, b, c, d>>
    BY <1>1, <1>3, <2>1, <2>2, SeqEqual
  <2> QED BY <2>3 DEF u
<1> QED BY <1>4, <1>5, <1>6

\* So are the last two of a device's topic.
LEMMA JoiningTwo ==
    ASSUME NEW a, NEW b, NEW c, NEW d, NEW e
    PROVE  <<a, b, c>> \o <<d, e>> = <<a, b, c, d, e>>
<1> DEFINE S == {a, b, c, d, e}
<1>1. <<a, b, c>> \in Seq(S) /\ <<d, e>> \in Seq(S) /\ <<a, b, c, d, e>> \in Seq(S)
  OBVIOUS
<1>2. /\ Len(<<a, b, c>>) = 3 /\ Len(<<d, e>>) = 2 /\ Len(<<a, b, c, d, e>>) = 5
  OBVIOUS
<1> HIDE DEF S
<1> DEFINE u == <<a, b, c>> \o <<d, e>>
<1>3. u \in Seq(S) /\ Len(u) = 5
  BY <1>1, <1>2, ConcatProperties
<1>4. \A i \in 1 .. 5 : u[i] = IF i <= 3 THEN <<a, b, c>>[i] ELSE <<d, e>>[i - 3]
  BY <1>1, <1>2, ConcatProperties
<1> HIDE DEF u
<1>5. \A i \in 1 .. 5 : u[i] = <<a, b, c, d, e>>[i]
  BY <1>4
<1>6. u = <<a, b, c, d, e>>
  BY <1>1, <1>2, <1>3, <1>5, SeqEqual
<1> QED BY <1>6 DEF u

\* So is a group before the rest of its address.
LEMMA JoiningFirst ==
    ASSUME NEW g, NEW n, NEW d
    PROVE  <<g>> \o <<n, d>> = <<g, n, d>>
<1> DEFINE S == {g, n, d}
           u == <<g>> \o <<n, d>>
<1>1. <<g>> \in Seq(S) /\ <<n, d>> \in Seq(S) /\ <<g, n, d>> \in Seq(S)
  OBVIOUS
<1>2. Len(<<g>>) = 1 /\ Len(<<n, d>>) = 2 /\ Len(<<g, n, d>>) = 3
  OBVIOUS
<1> HIDE DEF S
<1>3. u \in Seq(S) /\ Len(u) = 3
  BY <1>1, <1>2, ConcatProperties
<1>4. \A i \in 1 .. 3 : u[i] = IF i <= 1 THEN <<g>>[i] ELSE <<n, d>>[i - 1]
  BY <1>1, <1>2, ConcatProperties
<1> HIDE DEF u
<1>5. \A i \in 1 .. 3 : u[i] = <<g, n, d>>[i]
  BY <1>4
<1>6. u = <<g, n, d>>
  BY <1>1, <1>2, <1>3, <1>5, SeqEqual
<1> QED BY <1>6 DEF u

\* The tail of a node's or a device's identifiers.
LEMMA Tails ==
    /\ \A ids \in [1 .. 2 -> Ids] : Tail(ids) = <<ids[2]>>
    /\ \A ids \in [1 .. 3 -> Ids] : Tail(ids) = <<ids[2], ids[3]>>
<1>1. ASSUME NEW ids \in [1 .. 2 -> Ids]
      PROVE  Tail(ids) = <<ids[2]>>
  <2>1. Len(ids) = 2 /\ ids \in Seq(Ids)
    BY FunctionIsSeq
  <2>0. ids # <<>>
    BY <2>1
  <2>2. Tail(ids) \in Seq(Ids) /\ Len(Tail(ids)) = 1 /\ Tail(ids)[1] = ids[2]
    <3>1. /\ Tail(ids) \in Seq(Ids) /\ Len(Tail(ids)) = Len(ids) - 1
          /\ \A i \in 1 .. Len(Tail(ids)) : Tail(ids)[i] = ids[i + 1]
      BY <2>0, <2>1, HeadTailProperties, Zenon
    <3> DEFINE u == Tail(ids)
    <3>2. Len(u) = Len(ids) - 1 /\ \A i \in 1 .. Len(u) : u[i] = ids[i + 1]
      BY <3>1
    <3> HIDE DEF u
    <3>3. Len(u) = 1
      BY <2>1, <3>2
    <3>4. u[1] = ids[1 + 1]
      BY <3>2, <3>3
    <3> QED BY <3>1, <3>3, <3>4 DEF u
  <2>3. <<ids[2]>> \in Seq(Ids) /\ Len(<<ids[2]>>) = 1
    OBVIOUS
  <2> DEFINE u == Tail(ids)
  <2>4. u \in Seq(Ids) /\ Len(u) = 1 /\ u[1] = ids[2]
    BY <2>2
  <2> HIDE DEF u
  <2>5. \A i \in 1 .. 1 : u[i] = <<ids[2]>>[i]
    BY <2>4
  <2>6. u = <<ids[2]>>
    BY <2>3, <2>4, <2>5, SeqEqual
  <2> QED BY <2>6 DEF u
<1>2. ASSUME NEW ids \in [1 .. 3 -> Ids]
      PROVE  Tail(ids) = <<ids[2], ids[3]>>
  <2>1. Len(ids) = 3 /\ ids \in Seq(Ids)
    BY FunctionIsSeq
  <2>0. ids # <<>>
    BY <2>1
  <2>2. /\ Tail(ids) \in Seq(Ids) /\ Len(Tail(ids)) = 2
        /\ Tail(ids)[1] = ids[2] /\ Tail(ids)[2] = ids[3]
    <3>1. /\ Tail(ids) \in Seq(Ids) /\ Len(Tail(ids)) = Len(ids) - 1
          /\ \A i \in 1 .. Len(Tail(ids)) : Tail(ids)[i] = ids[i + 1]
      BY <2>0, <2>1, HeadTailProperties, Zenon
    <3> QED BY <2>1, <3>1
  <2>3. <<ids[2], ids[3]>> \in Seq(Ids) /\ Len(<<ids[2], ids[3]>>) = 2
    OBVIOUS
  <2> DEFINE u == Tail(ids)
  <2>4. u \in Seq(Ids) /\ Len(u) = 2 /\ \A i \in 1 .. 2 : u[i] = <<ids[2], ids[3]>>[i]
    BY <2>2
  <2> HIDE DEF u
  <2>5. u = <<ids[2], ids[3]>>
    BY <2>3, <2>4, SeqEqual
  <2> QED BY <2>5 DEF u
<1> QED BY <1>1, <1>2

\* What is built from identifiers is a topic.
LEMMA TopicsAre ==
    /\ \A t \in TopicSet : IsTopic(t)
    /\ \A type \in MessageTypes : \A ids \in [1 .. Arity(ShapeOf(type)) -> Ids] :
          Topic(type, ids) \in TopicSet
<1>1. ASSUME NEW t \in TopicSet
      PROVE  IsTopic(t)
  <2>1. CASE t \in NodeTopics
    BY <2>1, Shapes DEF NodeTopics, IsTopic, MessageTypes
  <2>2. CASE t \in DeviceTopics
    BY <2>2, Shapes DEF DeviceTopics, IsTopic, MessageTypes
  <2>3. CASE t \in HostTopics
    BY <2>3, Shapes DEF HostTopics, IsTopic, MessageTypes
  <2> QED BY <2>1, <2>2, <2>3 DEF TopicSet
<1>2. ASSUME NEW type \in MessageTypes, NEW ids \in [1 .. Arity(ShapeOf(type)) -> Ids]
      PROVE  Topic(type, ids) \in TopicSet
  <2>1. CASE type \in NodeTypes
    <3>1. ids \in [1 .. 2 -> Ids]
      BY <2>1, Shapes, Zenon
    <3> QED BY <2>1, <3>1 DEF Topic, TopicSet, NodeTopics
  <2>2. CASE type \in DeviceTypes
    <3>1. ids \in [1 .. 3 -> Ids]
      BY <2>2, Shapes, Zenon
    <3> QED BY <2>2, <3>1 DEF Topic, TopicSet, DeviceTopics
  <2>3. CASE type = "STATE"
    <3>1. ids \in [1 .. 1 -> Ids]
      BY <2>3, Shapes, Zenon
    <3> QED BY <2>3, <3>1 DEF Topic, TopicSet, HostTopics
  <2> QED BY <2>1, <2>2, <2>3 DEF MessageTypes
<1> QED BY <1>1, <1>2

\* What a topic renders.
LEMMA Displayed ==
    /\ \A t \in NodeTopics :
          Display(t) = <<Version, t.ids[1][1], t.type, t.ids[2][1]>>
    /\ \A t \in DeviceTopics :
          Display(t) = <<Version, t.ids[1][1], t.type, t.ids[2][1], t.ids[3][1]>>
    /\ \A t \in HostTopics : Display(t) = <<Version, "STATE", t.ids[1][1]>>
<1>1. ASSUME NEW t \in NodeTopics
      PROVE  Display(t) = <<Version, t.ids[1][1], t.type, t.ids[2][1]>>
  <2> DEFINE g == t.ids[1][1]
             n == t.ids[2][1]
  <2>1. ShapeOf(t.type) = "Node" /\ t.ids \in [1 .. 2 -> Ids]
    BY Shapes DEF NodeTopics
  <2>2. t.ids[1] = <<g>> /\ t.ids[2] = <<n>>
    BY <2>1, IdOf
  <2> HIDE DEF g, n
  <2>3. FlattenSeq(Tail(t.ids)) = <<n>>
    BY <2>1, <2>2, Tails, FlattenOne
  <2>4. Display(t) = <<Version>> \o <<g>> \o <<t.type>> \o <<n>>
    BY <2>1, <2>2, <2>3, Zenon DEF Display
  <2>5. /\ <<Version>> \o <<g>> = <<Version, g>>
        /\ <<Version, g>> \o <<t.type>> = <<Version, g, t.type>>
        /\ <<Version, g, t.type>> \o <<n>> = <<Version, g, t.type, n>>
    BY Joining
  <2>6. Display(t) = <<Version, g, t.type, n>>
    BY <2>4, <2>5, Zenon
  <2> QED BY <2>6 DEF g, n
<1>2. ASSUME NEW t \in DeviceTopics
      PROVE  Display(t) = <<Version, t.ids[1][1], t.type, t.ids[2][1], t.ids[3][1]>>
  <2> DEFINE g == t.ids[1][1]
             n == t.ids[2][1]
             d == t.ids[3][1]
  <2>1. ShapeOf(t.type) = "Device" /\ t.ids \in [1 .. 3 -> Ids]
    BY Shapes DEF DeviceTopics
  <2>2. t.ids[1] = <<g>> /\ t.ids[2] = <<n>> /\ t.ids[3] = <<d>>
    BY <2>1, IdOf
  <2> HIDE DEF g, n, d
  <2>3. FlattenSeq(Tail(t.ids)) = <<n>> \o <<d>>
    BY <2>1, <2>2, Tails, FlattenTwo
  <2>4. Display(t) = <<Version>> \o <<g>> \o <<t.type>> \o (<<n>> \o <<d>>)
    BY <2>1, <2>2, <2>3, Zenon DEF Display
  <2>5. /\ <<Version>> \o <<g>> = <<Version, g>>
        /\ <<Version, g>> \o <<t.type>> = <<Version, g, t.type>>
        /\ <<n>> \o <<d>> = <<n, d>>
    BY Joining
  <2>6. Display(t) = <<Version, g, t.type>> \o <<n, d>>
    BY <2>4, <2>5, Zenon
  <2>7. Display(t) = <<Version, g, t.type, n, d>>
    BY <2>6, JoiningTwo
  <2> QED BY <2>7 DEF g, n, d
<1>3. ASSUME NEW t \in HostTopics
      PROVE  Display(t) = <<Version, "STATE", t.ids[1][1]>>
  <2> DEFINE h == t.ids[1][1]
  <2>1. t.type = "STATE" /\ ShapeOf(t.type) = "Host" /\ t.ids[1] = <<h>>
    BY Shapes, IdOf DEF HostTopics
  <2> HIDE DEF h
  <2>2. Display(t) = <<Version, "STATE">> \o <<h>>
    BY <2>1, Zenon DEF Display
  <2>3. Display(t) = <<Version, "STATE", h>>
    BY <2>2, Joining
  <2> QED BY <2>3 DEF h
<1> QED BY <1>1, <1>2, <1>3

----------------------------------------------------------------------------
(* What the parser makes of a text.                                        *)

\* An address from usable segments is the topic they name.
LEMMA AddressOf ==
    /\ \A type \in NodeTypes : \A g, n \in Usable :
          Address(type, <<g, n>>) = Ok([type |-> type, ids |-> <<<<g>>, <<n>>>>])
    /\ \A type \in DeviceTypes : \A g, n, d \in Usable :
          Address(type, <<g, n, d>>)
            = Ok([type |-> type, ids |-> <<<<g>>, <<n>>, <<d>>>>])
    /\ \A h \in Usable : Address("STATE", <<h>>) = Ok([type |-> "STATE", ids |-> <<<<h>>>>])
<1>1. ASSUME NEW type, NEW g \in Usable, NEW n \in Usable
      PROVE  Address(type, <<g, n>>) = Ok([type |-> type, ids |-> <<<<g>>, <<n>>>>])
  <2> DEFINE ids == [i \in 1 .. Len(<<g, n>>) |-> <<<<g, n>>[i]>>]
  <2>1. ids = <<<<g>>, <<n>>>>
    OBVIOUS
  <2>2. IsUsable(<<g>>) /\ IsUsable(<<n>>)
    BY OneSegment DEF Usable
  <2>3. \A i \in 1 .. Len(ids) : IsUsable(ids[i])
    BY <2>1, <2>2
  <2> QED BY <2>1, <2>3, Zenon DEF Address
<1>2. ASSUME NEW type, NEW g \in Usable, NEW n \in Usable, NEW d \in Usable
      PROVE  Address(type, <<g, n, d>>)
               = Ok([type |-> type, ids |-> <<<<g>>, <<n>>, <<d>>>>])
  <2> DEFINE ids == [i \in 1 .. Len(<<g, n, d>>) |-> <<<<g, n, d>>[i]>>]
  <2>1. ids = <<<<g>>, <<n>>, <<d>>>>
    OBVIOUS
  <2>2. IsUsable(<<g>>) /\ IsUsable(<<n>>) /\ IsUsable(<<d>>)
    BY OneSegment DEF Usable
  <2>3. \A i \in 1 .. Len(ids) : IsUsable(ids[i])
    BY <2>1, <2>2
  <2> QED BY <2>1, <2>3, Zenon DEF Address
<1>3. ASSUME NEW h \in Usable
      PROVE  Address("STATE", <<h>>) = Ok([type |-> "STATE", ids |-> <<<<h>>>>])
  <2> DEFINE ids == [i \in 1 .. Len(<<h>>) |-> <<<<h>>[i]>>]
  <2>1. ids = <<<<h>>>>
    OBVIOUS
  <2>2. IsUsable(<<h>>)
    BY OneSegment DEF Usable
  <2>3. \A i \in 1 .. Len(ids) : IsUsable(ids[i])
    BY <2>1, <2>2
  <2> QED BY <2>1, <2>3, Zenon DEF Address
<1> QED BY <1>1, <1>2, <1>3

\* An address is usable only if each of its segments is.
LEMMA AddressNeedsUsable ==
    ASSUME NEW type, NEW parts, Address(type, parts).kind = "ok",
           NEW i \in 1 .. Len(parts)
    PROVE  parts[i] \notin Wild \cup {""}
<1> DEFINE ids == [j \in 1 .. Len(parts) |-> <<parts[j]>>]
<1>1. \A j \in 1 .. Len(ids) : IsUsable(ids[j])
  BY DEF Address, Err
<1>2. Len(ids) = Len(parts)
  OBVIOUS
<1>3. IsUsable(<<parts[i]>>)
  BY <1>1, <1>2
<1> QED BY <1>3, OneSegment

\* Where the identifiers after the type begin.
LEMMA Rest ==
    /\ \A a, b, c, d : SubSeq(<<a, b, c, d>>, 4, 4) = <<d>>
    /\ \A a, b, c, d, e : SubSeq(<<a, b, c, d, e>>, 4, 5) = <<d, e>>
<1>1. ASSUME NEW a, NEW b, NEW c, NEW d
      PROVE  SubSeq(<<a, b, c, d>>, 4, 4) = <<d>>
  <2> DEFINE S == {d}
             s == <<a, b, c, d>>
             u == SubSeq(s, 4, 4)
  <2>1. (\A i \in 4 .. 4 : s[i] \in S) /\ s[4] = d
    OBVIOUS
  <2>2. <<d>> \in Seq(S) /\ Len(<<d>>) = 1
    OBVIOUS
  <2> HIDE DEF S, s
  <2>3. u \in Seq(S) /\ Len(u) = 1 /\ \A i \in 1 .. 1 : u[i] = s[4 + i - 1]
    BY <2>1, SubSeqProperties
  <2> HIDE DEF u
  <2>4. \A i \in 1 .. 1 : u[i] = <<d>>[i]
    BY <2>1, <2>3
  <2>5. u = <<d>>
    BY <2>2, <2>3, <2>4, SeqEqual
  <2> QED BY <2>5 DEF u, s
<1>2. ASSUME NEW a, NEW b, NEW c, NEW d, NEW e
      PROVE  SubSeq(<<a, b, c, d, e>>, 4, 5) = <<d, e>>
  <2> DEFINE S == {d, e}
             s == <<a, b, c, d, e>>
             u == SubSeq(s, 4, 5)
  <2>1. (\A i \in 4 .. 5 : s[i] \in S) /\ s[4] = d /\ s[5] = e
    OBVIOUS
  <2>2. <<d, e>> \in Seq(S) /\ Len(<<d, e>>) = 2
    OBVIOUS
  <2> HIDE DEF S, s
  <2>3. u \in Seq(S) /\ Len(u) = 2 /\ \A i \in 1 .. 2 : u[i] = s[4 + i - 1]
    BY <2>1, SubSeqProperties
  <2> HIDE DEF u
  <2>4. \A i \in 1 .. 2 : u[i] = <<d, e>>[i]
    BY <2>1, <2>3
  <2>5. u = <<d, e>>
    BY <2>2, <2>3, <2>4, SeqEqual
  <2> QED BY <2>5 DEF u, s
<1> QED BY <1>1, <1>2

\* The type in the third segment decides, unless the second is STATE.
LEMMA ParseByType ==
    ASSUME NEW s, s[1] = Version, s[2] # "STATE", Len(s) \in Nat, Len(s) >= 3,
           s[3] \in NodeTypes \cup DeviceTypes,
           Len(s) = 2 + Arity(ShapeOf(s[3]))
    PROVE  Parse(s) = Address(s[3], <<s[2]>> \o SubSeq(s, 4, Len(s)))
<1>1. s[3] \in MessageTypes /\ ShapeOf(s[3]) # "Host"
  BY Shapes DEF MessageTypes
<1>2. Len(s) > 1 /\ ~(Len(s) < 3)
  OBVIOUS
<1> QED BY <1>1, <1>2, Zenon DEF Parse

\* A topic of an edge node or of a device is read back, unless its group is
\* STATE.
LEMMA ParseNode ==
    ASSUME NEW type \in NodeTypes, NEW g \in Usable, NEW n \in Usable, g # "STATE"
    PROVE  Parse(<<Version, g, type, n>>) = Ok([type |-> type, ids |-> <<<<g>>, <<n>>>>])
<1> DEFINE s == <<Version, g, type, n>>
<1>1. s[1] = Version /\ s[2] = g /\ s[3] = type /\ Len(s) = 4
  OBVIOUS
<1>2. SubSeq(s, 4, 4) = <<n>>
  BY Rest
<1> HIDE DEF s
<1>3. /\ s[2] # "STATE" /\ Len(s) \in Nat /\ Len(s) >= 3
      /\ s[3] \in NodeTypes \cup DeviceTypes
      /\ Len(s) = 2 + Arity(ShapeOf(s[3]))
  BY <1>1, Shapes
<1>4. Parse(s) = Address(type, <<g>> \o SubSeq(s, 4, 4))
  BY <1>1, <1>3, ParseByType, Zenon
<1>5. <<g>> \o <<n>> = <<g, n>>
  BY Joining
<1>6. Parse(s) = Address(type, <<g, n>>)
  BY <1>2, <1>4, <1>5, Zenon
<1>7. Parse(s) = Ok([type |-> type, ids |-> <<<<g>>, <<n>>>>])
  BY <1>6, AddressOf, Zenon
<1> QED BY <1>7 DEF s

LEMMA ParseDevice ==
    ASSUME NEW type \in DeviceTypes, NEW g \in Usable, NEW n \in Usable, NEW d \in Usable,
           g # "STATE"
    PROVE  Parse(<<Version, g, type, n, d>>)
             = Ok([type |-> type, ids |-> <<<<g>>, <<n>>, <<d>>>>])
<1> DEFINE s == <<Version, g, type, n, d>>
<1>1. s[1] = Version /\ s[2] = g /\ s[3] = type /\ Len(s) = 5
  OBVIOUS
<1>2. SubSeq(s, 4, 5) = <<n, d>>
  BY Rest
<1> HIDE DEF s
<1>3. /\ s[2] # "STATE" /\ Len(s) \in Nat /\ Len(s) >= 3
      /\ s[3] \in NodeTypes \cup DeviceTypes
      /\ Len(s) = 2 + Arity(ShapeOf(s[3]))
  BY <1>1, Shapes
<1>4. Parse(s) = Address(type, <<g>> \o SubSeq(s, 4, 5))
  BY <1>1, <1>3, ParseByType, Zenon
<1>5. <<g>> \o <<n, d>> = <<g, n, d>>
  BY JoiningFirst
<1>6. Parse(s) = Address(type, <<g, n, d>>)
  BY <1>2, <1>4, <1>5, Zenon
<1>7. Parse(s) = Ok([type |-> type, ids |-> <<<<g>>, <<n>>, <<d>>>>])
  BY <1>6, AddressOf, Zenon
<1> QED BY <1>7 DEF s

\* So is the topic of a host application.
LEMMA ParseHost ==
    ASSUME NEW h \in Usable
    PROVE  Parse(<<Version, "STATE", h>>) = Ok([type |-> "STATE", ids |-> <<<<h>>>>])
<1> DEFINE s == <<Version, "STATE", h>>
<1>1. s[1] = Version /\ s[2] = "STATE" /\ s[3] = h /\ Len(s) = 3 /\ Len(s) > 1
  OBVIOUS
<1> HIDE DEF s
<1>2. Parse(s) = Address("STATE", <<h>>)
  BY <1>1, Zenon DEF Parse
<1>3. Parse(s) = Ok([type |-> "STATE", ids |-> <<<<h>>>>])
  BY <1>2, AddressOf, Zenon
<1> QED BY <1>3 DEF s

\* A group named STATE is read as a host application with too many segments.
LEMMA ParseStateGroup ==
    ASSUME NEW s, s[1] = Version, s[2] = "STATE", Len(s) \in {4, 5}
    PROVE  Parse(s) = Err("WrongTopicShape")
<1>1. Len(s) > 1 /\ ~(Len(s) = 3)
  OBVIOUS
<1> QED BY <1>1, Zenon DEF Parse

\* A topic is given by its type and the segments of its identifiers.
LEMMA TopicOf ==
    /\ \A t \in NodeTopics : \E g, n \in Usable :
          t = [type |-> t.type, ids |-> <<<<g>>, <<n>>>>]
    /\ \A t \in DeviceTopics : \E g, n, d \in Usable :
          t = [type |-> t.type, ids |-> <<<<g>>, <<n>>, <<d>>>>]
    /\ \A t \in HostTopics : \E h \in Usable : t = [type |-> "STATE", ids |-> <<<<h>>>>]
<1>1. ASSUME NEW t \in NodeTopics
      PROVE  \E g, n \in Usable : t = [type |-> t.type, ids |-> <<<<g>>, <<n>>>>]
  <2>1. t.ids \in [1 .. 2 -> Ids] /\ t = [type |-> t.type, ids |-> t.ids]
    BY DEF NodeTopics
  <2>2. t.ids = <<t.ids[1], t.ids[2]>> /\ t.ids[1] \in Ids /\ t.ids[2] \in Ids
    BY <2>1
  <2>3. PICK g \in Usable : t.ids[1] = <<g>>
    BY <2>2, IdsAre
  <2>4. PICK n \in Usable : t.ids[2] = <<n>>
    BY <2>2, IdsAre
  <2> QED BY <2>1, <2>2, <2>3, <2>4, Zenon
<1>2. ASSUME NEW t \in DeviceTopics
      PROVE  \E g, n, d \in Usable :
                t = [type |-> t.type, ids |-> <<<<g>>, <<n>>, <<d>>>>]
  <2>1. t.ids \in [1 .. 3 -> Ids] /\ t = [type |-> t.type, ids |-> t.ids]
    BY DEF DeviceTopics
  <2>2. /\ t.ids = <<t.ids[1], t.ids[2], t.ids[3]>>
        /\ t.ids[1] \in Ids /\ t.ids[2] \in Ids /\ t.ids[3] \in Ids
    BY <2>1
  <2>3. PICK g \in Usable : t.ids[1] = <<g>>
    BY <2>2, IdsAre
  <2>4. PICK n \in Usable : t.ids[2] = <<n>>
    BY <2>2, IdsAre
  <2>5. PICK d \in Usable : t.ids[3] = <<d>>
    BY <2>2, IdsAre
  <2> QED BY <2>1, <2>2, <2>3, <2>4, <2>5, Zenon
<1>3. ASSUME NEW t \in HostTopics
      PROVE  \E h \in Usable : t = [type |-> "STATE", ids |-> <<<<h>>>>]
  <2>1. t.ids \in [1 .. 1 -> Ids] /\ t = [type |-> "STATE", ids |-> t.ids]
    BY DEF HostTopics
  <2>2. t.ids = <<t.ids[1]>> /\ t.ids[1] \in Ids
    BY <2>1
  <2>3. PICK h \in Usable : t.ids[1] = <<h>>
    BY <2>2, IdsAre
  <2> QED BY <2>1, <2>2, <2>3, Zenon
<1> QED BY <1>1, <1>2, <1>3

\* And the segments it renders are these.
LEMMA DisplayOf ==
    /\ \A type \in NodeTypes : \A g, n \in Usable :
          LET t == [type |-> type, ids |-> <<<<g>>, <<n>>>>]
          IN  t \in NodeTopics /\ Display(t) = <<Version, g, type, n>>
    /\ \A type \in DeviceTypes : \A g, n, d \in Usable :
          LET t == [type |-> type, ids |-> <<<<g>>, <<n>>, <<d>>>>]
          IN  t \in DeviceTopics /\ Display(t) = <<Version, g, type, n, d>>
    /\ \A h \in Usable :
          LET t == [type |-> "STATE", ids |-> <<<<h>>>>]
          IN  t \in HostTopics /\ Display(t) = <<Version, "STATE", h>>
<1>1. ASSUME NEW type \in NodeTypes, NEW g \in Usable, NEW n \in Usable,
             NEW t, t = [type |-> type, ids |-> <<<<g>>, <<n>>>>]
      PROVE  t \in NodeTopics /\ Display(t) = <<Version, g, type, n>>
  <2>1. <<g>> \in Ids /\ <<n>> \in Ids
    BY IdsAre
  <2>2. <<<<g>>, <<n>>>> \in [1 .. 2 -> Ids]
    BY <2>1
  <2>3. t \in NodeTopics
    BY <1>1, <2>2 DEF NodeTopics
  <2>4. t.type = type /\ t.ids[1][1] = g /\ t.ids[2][1] = n
    BY <1>1
  <2> QED BY <2>3, <2>4, Displayed, Zenon
<1>2. ASSUME NEW type \in DeviceTypes, NEW g \in Usable, NEW n \in Usable,
             NEW d \in Usable,
             NEW t, t = [type |-> type, ids |-> <<<<g>>, <<n>>, <<d>>>>]
      PROVE  t \in DeviceTopics /\ Display(t) = <<Version, g, type, n, d>>
  <2>1. <<g>> \in Ids /\ <<n>> \in Ids /\ <<d>> \in Ids
    BY IdsAre
  <2>2. <<<<g>>, <<n>>, <<d>>>> \in [1 .. 3 -> Ids]
    BY <2>1
  <2>3. t \in DeviceTopics
    BY <1>2, <2>2 DEF DeviceTopics
  <2>4. t.type = type /\ t.ids[1][1] = g /\ t.ids[2][1] = n /\ t.ids[3][1] = d
    BY <1>2
  <2> QED BY <2>3, <2>4, Displayed, Zenon
<1>3. ASSUME NEW h \in Usable, NEW t, t = [type |-> "STATE", ids |-> <<<<h>>>>]
      PROVE  t \in HostTopics /\ Display(t) = <<Version, "STATE", h>>
  <2>1. <<<<h>>>> \in [1 .. 1 -> Ids]
    BY IdsAre
  <2>2. t \in HostTopics
    BY <1>3, <2>1 DEF HostTopics
  <2>3. t.ids[1][1] = h
    BY <1>3
  <2> QED BY <2>2, <2>3, Displayed, Zenon
<1> QED BY <1>1, <1>2, <1>3

\* A topic is read back from what it renders, unless its group is STATE.
LEMMA RoundTrip ==
    ASSUME NEW t \in TopicSet, t.ids[1] # <<"STATE">>
    PROVE  Parse(Display(t)) = Ok(t)
<1>1. CASE t \in NodeTopics
  <2>1. PICK g \in Usable, n \in Usable : t = [type |-> t.type, ids |-> <<<<g>>, <<n>>>>]
    BY <1>1, TopicOf
  <2>2. t.type \in NodeTypes
    BY <1>1 DEF NodeTopics
  <2>3. g # "STATE"
    BY <2>1
  <2>4. Display(t) = <<Version, g, t.type, n>>
    BY <2>1, <2>2, DisplayOf, Zenon
  <2> QED BY <2>1, <2>2, <2>3, <2>4, ParseNode, Zenon
<1>2. CASE t \in DeviceTopics
  <2> DEFINE type == t.type
  <2>1. PICK g \in Usable, n \in Usable, d \in Usable :
            t = [type |-> type, ids |-> <<<<g>>, <<n>>, <<d>>>>]
    BY <1>2, TopicOf
  <2>2. type \in DeviceTypes
    BY <1>2 DEF DeviceTopics
  <2>3. g # "STATE"
    BY <2>1
  <2> HIDE DEF type
  <2>4. Display(t) = <<Version, g, type, n, d>>
    BY <2>1, <2>2, DisplayOf, Zenon
  <2>5. Parse(<<Version, g, type, n, d>>)
          = Ok([type |-> type, ids |-> <<<<g>>, <<n>>, <<d>>>>])
    BY <2>2, <2>3, ParseDevice, Zenon
  <2> QED BY <2>1, <2>4, <2>5, Zenon
<1>3. CASE t \in HostTopics
  <2>1. PICK h \in Usable : t = [type |-> "STATE", ids |-> <<<<h>>>>]
    BY <1>3, TopicOf
  <2>2. Display(t) = <<Version, "STATE", h>>
    BY <2>1, DisplayOf, Zenon
  <2> QED BY <2>1, <2>2, ParseHost, Zenon
<1> QED BY <1>1, <1>2, <1>3 DEF TopicSet

\* A group named STATE is what no topic below it is read with.
LEMMA StateGroup ==
    ASSUME NEW t \in NodeTopics \cup DeviceTopics, t.ids[1] = <<"STATE">>
    PROVE  Parse(Display(t)) = Err("WrongTopicShape")
<1>1. t.ids[1][1] = "STATE"
  OBVIOUS
<1> DEFINE s == Display(t)
<1>2. s[1] = Version /\ s[2] = "STATE" /\ Len(s) \in {4, 5}
  <2>1. CASE t \in NodeTopics
    BY <1>1, <2>1, Displayed
  <2>2. CASE t \in DeviceTopics
    BY <1>1, <2>2, Displayed
  <2> QED BY <2>1, <2>2
<1> HIDE DEF s
<1>3. Parse(s) = Err("WrongTopicShape")
  BY <1>2, ParseStateGroup
<1> QED BY <1>3 DEF s

\* What is read as a topic is the text that topic renders.
LEMMA Strict ==
    ASSUME NEW s \in Seq(Words), Parse(s).kind = "ok"
    PROVE  Parse(s).topic \in TopicSet /\ Display(Parse(s).topic) = s
<1>1. Len(s) \in Nat /\ \A i \in 1 .. Len(s) : s[i] \in Words
  BY LenProperties, ElementOfSeq
<1>2. s[1] = Version
  BY DEF Parse, Err
<1>3. CASE Len(s) > 1 /\ s[2] = "STATE"
  <2>1. Len(s) = 3 /\ Parse(s) = Address("STATE", <<s[3]>>)
    BY <1>2, <1>3 DEF Parse, Err
  <2> DEFINE h == s[3]
             parts == <<h>>
  <2>2. parts[1] = h /\ 1 \in 1 .. Len(parts)
    OBVIOUS
  <2> HIDE DEF parts
  <2>3. h \notin Wild \cup {""}
    BY <2>1, <2>2, AddressNeedsUsable DEF parts
  <2>4. h \in Usable
    <3>1. h \in Words
      BY <1>1, <2>1
    <3> QED BY <2>3, <3>1 DEF Usable
  <2>5. s = <<Version, "STATE", h>>
    BY <1>2, <1>3, <2>1
  <2> HIDE DEF h
  <2> DEFINE t == [type |-> "STATE", ids |-> <<<<h>>>>]
  <2>6. t \in HostTopics /\ Display(t) = s
    BY <2>4, <2>5, DisplayOf, Zenon
  <2>7. Parse(s) = Ok(t)
    BY <2>4, <2>5, ParseHost, Zenon
  <2>8. Parse(s).topic = t
    BY <2>7 DEF Ok
  <2> QED BY <2>6, <2>8, Zenon DEF TopicSet
<1>4. CASE ~(Len(s) > 1 /\ s[2] = "STATE")
  <2>1. /\ ~(Len(s) < 3) /\ s[3] \in MessageTypes /\ ShapeOf(s[3]) # "Host"
        /\ Len(s) = 2 + Arity(ShapeOf(s[3]))
        /\ Parse(s) = Address(s[3], <<s[2]>> \o SubSeq(s, 4, Len(s)))
    BY <1>2, <1>4, Zenon DEF Parse, Err
  <2> DEFINE type == s[3]
             g == s[2]
             n == s[4]
             d == s[5]
  <2>2. g # "STATE"
    BY <1>1, <1>4, <2>1
  <2>3. CASE type \in NodeTypes
    <3>1. Len(s) = 4
      BY <2>1, <2>3, Shapes
    <3>2. s = <<Version, g, type, n>>
      BY <1>2, <3>1
    <3>3. g \in Words /\ n \in Words
      BY <1>1, <3>1
    <3>4. SubSeq(s, 4, 4) = <<n>>
      BY <3>2, Rest
    <3> HIDE DEF type, g, n
    <3>5. <<g>> \o <<n>> = <<g, n>>
      BY Joining
    <3>6. Address(type, <<g, n>>).kind = "ok"
      BY <2>1, <3>1, <3>4, <3>5, Zenon DEF type, g
    <3> DEFINE parts == <<g, n>>
    <3>7. parts[1] = g /\ parts[2] = n /\ 1 \in 1 .. Len(parts) /\ 2 \in 1 .. Len(parts)
      OBVIOUS
    <3> HIDE DEF parts
    <3>8. g \notin Wild \cup {""} /\ n \notin Wild \cup {""}
      BY <3>6, <3>7, AddressNeedsUsable DEF parts
    <3>9. g \in Usable /\ n \in Usable
      BY <3>3, <3>8 DEF Usable
    <3> DEFINE t == [type |-> type, ids |-> <<<<g>>, <<n>>>>]
    <3>10. t \in NodeTopics /\ Display(t) = s
      BY <2>3, <3>2, <3>9, DisplayOf, Zenon
    <3>11. g # "STATE"
      BY <2>2 DEF g
    <3>12. Parse(s) = Ok(t)
      BY <2>3, <3>2, <3>9, <3>11, ParseNode, Zenon
    <3>13. Parse(s).topic = t
      BY <3>12 DEF Ok
    <3> QED BY <3>10, <3>13, Zenon DEF TopicSet
  <2>4. CASE type \in DeviceTypes
    <3>1. Len(s) = 5
      BY <2>1, <2>4, Shapes
    <3>2. s = <<Version, g, type, n, d>>
      BY <1>2, <3>1
    <3>3. g \in Words /\ n \in Words /\ d \in Words
      BY <1>1, <3>1
    <3>4. SubSeq(s, 4, 5) = <<n, d>>
      BY <3>2, Rest
    <3> HIDE DEF type, g, n, d
    <3>5. <<g>> \o <<n, d>> = <<g, n, d>>
      BY JoiningFirst
    <3>6. Address(type, <<g, n, d>>).kind = "ok"
      BY <2>1, <3>1, <3>4, <3>5, Zenon DEF type, g
    <3> DEFINE parts == <<g, n, d>>
    <3>7. /\ parts[1] = g /\ parts[2] = n /\ parts[3] = d
          /\ 1 \in 1 .. Len(parts) /\ 2 \in 1 .. Len(parts) /\ 3 \in 1 .. Len(parts)
      OBVIOUS
    <3> HIDE DEF parts
    <3>8. g \notin Wild \cup {""} /\ n \notin Wild \cup {""} /\ d \notin Wild \cup {""}
      BY <3>6, <3>7, AddressNeedsUsable DEF parts
    <3>9. g \in Usable /\ n \in Usable /\ d \in Usable
      BY <3>3, <3>8 DEF Usable
    <3> DEFINE t == [type |-> type, ids |-> <<<<g>>, <<n>>, <<d>>>>]
    <3>10. t \in DeviceTopics /\ Display(t) = s
      BY <2>4, <3>2, <3>9, DisplayOf, Zenon
    <3>11. g # "STATE"
      BY <2>2 DEF g
    <3>12. Parse(s) = Ok(t)
      BY <2>4, <3>2, <3>9, <3>11, ParseDevice, Zenon
    <3>13. Parse(s).topic = t
      BY <3>12 DEF Ok
    <3> QED BY <3>10, <3>13, Zenon DEF TopicSet
  <2> QED BY <2>1, <2>3, <2>4, Shapes DEF MessageTypes
<1> QED BY <1>3, <1>4

\* What the parser does not read is an error of its three.
LEMMA OrAnError ==
    ASSUME NEW s
    PROVE  Parse(s).kind = "ok" \/ \E e \in Errors : Parse(s) = Err(e)
<1>1. ASSUME NEW type, NEW parts
      PROVE  \/ Address(type, parts).kind = "ok"
             \/ Address(type, parts) = Err("InvalidTopic")
  BY DEF Address, Ok
<1>2. /\ "InvalidTopic" \in Errors /\ "UnknownMessageType" \in Errors
      /\ "WrongTopicShape" \in Errors
  BY DEF Errors
<1> QED BY <1>1, <1>2, Zenon DEF Parse

----------------------------------------------------------------------------
(* Edge nodes and their keys.                                              *)

\* The first two identifiers of an address below a group.
LEMMA FirstTwo ==
    ASSUME NEW n \in {2, 3}, NEW ids \in [1 .. n -> Ids]
    PROVE  /\ SubSeq(ids, 1, 2) = <<ids[1], ids[2]>>
           /\ SubSeq(ids, 1, 2) \in [1 .. 2 -> Ids]
<1> DEFINE u == SubSeq(ids, 1, 2)
<1>1. \A i \in 1 .. 2 : ids[i] \in Ids
  OBVIOUS
<1>2. u \in Seq(Ids) /\ Len(u) = 2 /\ \A i \in 1 .. 2 : u[i] = ids[1 + i - 1]
  BY <1>1, SubSeqProperties
<1> HIDE DEF u
<1>3. <<ids[1], ids[2]>> \in Seq(Ids) /\ Len(<<ids[1], ids[2]>>) = 2
  BY <1>1
<1>4. \A i \in 1 .. 2 : u[i] = <<ids[1], ids[2]>>[i]
  BY <1>2
<1>5. u = <<ids[1], ids[2]>>
  BY <1>2, <1>3, <1>4, SeqEqual
<1>6. <<ids[1], ids[2]>> \in [1 .. 2 -> Ids]
  BY <1>1
<1> QED BY <1>5, <1>6 DEF u

\* The edge node that a topic names, if its type is below a group.
LEMMA EdgeNode ==
    /\ \A t \in NodeTopics \cup DeviceTopics :
          /\ EdgeNodeOf(t) = {<<t.ids[1], t.ids[2]>>}
          /\ <<t.ids[1], t.ids[2]>> \in [1 .. 2 -> Ids]
    /\ \A t \in HostTopics : EdgeNodeOf(t) = {}
<1>1. ASSUME NEW t \in NodeTopics
      PROVE  /\ EdgeNodeOf(t) = {<<t.ids[1], t.ids[2]>>}
             /\ <<t.ids[1], t.ids[2]>> \in [1 .. 2 -> Ids]
  <2>1. ShapeOf(t.type) = "Node" /\ t.ids \in [1 .. 2 -> Ids]
    BY Shapes DEF NodeTopics
  <2>2. EdgeNodeOf(t) = {SubSeq(t.ids, 1, 2)}
    BY <2>1 DEF EdgeNodeOf
  <2>3. /\ SubSeq(t.ids, 1, 2) = <<t.ids[1], t.ids[2]>>
        /\ SubSeq(t.ids, 1, 2) \in [1 .. 2 -> Ids]
    BY <2>1, FirstTwo
  <2> QED BY <2>2, <2>3, Zenon
<1>2. ASSUME NEW t \in DeviceTopics
      PROVE  /\ EdgeNodeOf(t) = {<<t.ids[1], t.ids[2]>>}
             /\ <<t.ids[1], t.ids[2]>> \in [1 .. 2 -> Ids]
  <2>1. ShapeOf(t.type) = "Device" /\ t.ids \in [1 .. 3 -> Ids]
    BY Shapes DEF DeviceTopics
  <2>2. EdgeNodeOf(t) = {SubSeq(t.ids, 1, 2)}
    BY <2>1 DEF EdgeNodeOf
  <2>3. /\ SubSeq(t.ids, 1, 2) = <<t.ids[1], t.ids[2]>>
        /\ SubSeq(t.ids, 1, 2) \in [1 .. 2 -> Ids]
    BY <2>1, FirstTwo
  <2> QED BY <2>2, <2>3, Zenon
<1>3. ASSUME NEW t \in HostTopics
      PROVE  EdgeNodeOf(t) = {}
  BY <1>3, Shapes DEF EdgeNodeOf, HostTopics
<1> QED BY <1>1, <1>2, <1>3

\* No two pairs of identifiers write the same key.
LEMMA KeysDiffer ==
    ASSUME NEW g \in Ids, NEW n \in Ids, NEW h \in Ids, NEW m \in Ids,
           KeyOf(g, n) = KeyOf(h, m)
    PROVE  g = h /\ n = m
<1>1. PICK a \in Usable : g = <<a>>
  BY IdsAre
<1>2. PICK b \in Usable : n = <<b>>
  BY IdsAre
<1>3. PICK c \in Usable : h = <<c>>
  BY IdsAre
<1>4. PICK d \in Usable : m = <<d>>
  BY IdsAre
<1>5. KeyOf(g, n) = <<a, b>> /\ KeyOf(h, m) = <<c, d>>
  BY <1>1, <1>2, <1>3, <1>4, Joining, Zenon DEF KeyOf
<1>6. <<a, b>> = <<c, d>>
  BY <1>5
<1>7. a = c /\ b = d
  BY <1>6
<1> QED BY <1>1, <1>2, <1>3, <1>4, <1>7

----------------------------------------------------------------------------
(* What a reader finds in a payload.                                       *)

Batches == {<<>>, Batch} \cup {<<m>> : m \in Single}
Kinds == {"Float", "String", "Bool", "Int"}

\* The datatypes that the crate writes are in the table.
LEMMA Written ==
    \A d \in {"Double", "String", "Boolean", "UInt64"} : FromCode(Code(d)) = {d}
<1>1. /\ 10 \in DOMAIN DataTypes /\ DataTypes[10] = "Double"
      /\ 12 \in DOMAIN DataTypes /\ DataTypes[12] = "String"
      /\ 11 \in DOMAIN DataTypes /\ DataTypes[11] = "Boolean"
      /\ 8 \in DOMAIN DataTypes /\ DataTypes[8] = "UInt64"
  BY DEF DataTypes
<1>2. ASSUME NEW d, NEW c \in DOMAIN DataTypes, DataTypes[c] = d
      PROVE  FromCode(Code(d)) = {d}
  <2>1. Code(d) \in DOMAIN DataTypes /\ DataTypes[Code(d)] = d
    BY <1>2, Zenon DEF Code
  <2> QED BY <2>1, Zenon DEF FromCode
<1> QED BY <1>1, <1>2

\* A metric that a caller gives has a name, a value of one of four kinds and an
\* instant, and a reader of what the crate makes of it finds the three.
LEMMA MetricIsCarried ==
    ASSUME NEW m, m.value.kind \in Kinds
    PROVE  Carries(CreateMetric(m.name, m.value, m.ts), m)
<1> DEFINE w == CreateMetric(m.name, m.value, m.ts)
           d == FieldAndDatatype[m.value.kind][2]
<1>1. /\ w.name = m.name /\ w.timestamp = m.ts
      /\ w.value.of = m.value.of /\ w.datatype = Code(d)
      /\ w.value.field = FieldAndDatatype[m.value.kind][1]
  BY DEF CreateMetric, ToProto, Value
<1>2. d \in {"Double", "String", "Boolean", "UInt64"}
  BY DEF FieldAndDatatype, Kinds
<1>3. d \in HeldBy(FieldAndDatatype[m.value.kind][1])
  BY DEF FieldAndDatatype, Kinds, HeldBy
<1> HIDE DEF w, d
<1>4. FromCode(w.datatype) \cap HeldBy(w.value.field) = {d}
  BY <1>1, <1>2, <1>3, Written, Zenon
<1>5. UnderDatatype(w) = {w.value.of}
  BY <1>2, <1>4 DEF UnderDatatype
<1>6. Carries(w, m)
  BY <1>1, <1>5 DEF Carries
<1> QED BY <1>6 DEF w

\* So does a reader of a whole batch, in its order.
LEMMA BatchIsCarried ==
    ASSUME NEW batch \in Batches
    PROVE  /\ Len(ProtoMetrics(batch)) = Len(batch)
           /\ \A i \in 1 .. Len(batch) : Carries(ProtoMetrics(batch)[i], batch[i])
<1>1. Len(batch) \in Nat /\ \A i \in 1 .. Len(batch) : batch[i].value.kind \in Kinds
  <2>1. CASE batch = <<>>
    BY <2>1
  <2>2. CASE batch = Batch
    BY <2>2 DEF Batch, Metric, Kinds
  <2>3. ASSUME NEW m \in Single, batch = <<m>>
        PROVE  Len(batch) \in Nat
               /\ \A i \in 1 .. Len(batch) : batch[i].value.kind \in Kinds
    <3>1. m.value.kind \in Kinds
      BY DEF Single, Metric, MetricValues, Kinds
    <3> QED BY <2>3, <3>1
  <2> QED BY <2>1, <2>2, <2>3 DEF Batches
<1>2. Len(ProtoMetrics(batch)) = Len(batch)
  BY <1>1 DEF ProtoMetrics
<1>3. ASSUME NEW i \in 1 .. Len(batch)
      PROVE  Carries(ProtoMetrics(batch)[i], batch[i])
  <2>1. ProtoMetrics(batch)[i]
          = CreateMetric(batch[i].name, batch[i].value, batch[i].ts)
    BY DEF ProtoMetrics
  <2>2. batch[i].value.kind \in Kinds
    BY <1>1
  <2> QED BY <2>1, <2>2, MetricIsCarried, Zenon
<1> QED BY <1>2, <1>3

----------------------------------------------------------------------------
(* Powers of two, and rounding to a double.                                *)

\* A power of two counts the subsets of a set, which is what FiniteSetTheorems
\* has to say about it.
LEMMA PowerIsSubsets ==
    ASSUME NEW e \in Nat
    PROVE  /\ IsFiniteSet(1 .. e) /\ IsFiniteSet(SUBSET (1 .. e))
           /\ Cardinality(SUBSET (1 .. e)) = 2 ^ e
           /\ 2 ^ e \in Nat
<1>1. IsFiniteSet(1 .. e) /\ Cardinality(1 .. e) = e
  BY FS_Interval
<1>2. IsFiniteSet(SUBSET (1 .. e)) /\ Cardinality(SUBSET (1 .. e)) = 2 ^ e
  BY <1>1, FS_SUBSET
<1> QED BY <1>1, <1>2, FS_CardinalityType

LEMMA PowerOfZero == 2 ^ 0 = 1
<1>1. 1 .. 0 = {} /\ 0 \in Nat
  OBVIOUS
<1>2. SUBSET {} = {{}}
  OBVIOUS
<1> QED BY <1>1, <1>2, PowerIsSubsets, FS_Singleton

LEMMA PowerStep ==
    ASSUME NEW e \in Nat
    PROVE  2 ^ (e + 1) = 2 * 2 ^ e
<1> DEFINE n == e + 1
           Old == SUBSET (1 .. e)
           New == (SUBSET (1 .. n)) \ Old
           f == [x \in Old |-> x \cup {n}]
<1>1. f \in Bijection(Old, New)
  <2>1. f \in [Old -> New]
    OBVIOUS
  <2>2. \A x, y \in Old : f[x] = f[y] => x = y
    <3>1. \A x \in Old : n \notin x
      OBVIOUS
    <3>2. \A x \in Old : f[x] \ {n} = x
      BY <3>1
    <3> QED BY <3>2
  <2>3. ASSUME NEW y \in New
        PROVE  \E x \in Old : f[x] = y
    <3>1. n \in y
      <4> SUFFICES ASSUME n \notin y PROVE FALSE
        OBVIOUS
      <4>1. y \subseteq 1 .. n /\ y \notin Old
        OBVIOUS
      <4>2. \A i \in y : i \in 1 .. e
        BY <4>1
      <4> QED BY <4>1, <4>2
    <3>2. y \ {n} \in Old
      OBVIOUS
    <3>3. f[y \ {n}] = (y \ {n}) \cup {n}
      BY <3>2
    <3>4. (y \ {n}) \cup {n} = y
      BY <3>1
    <3> QED BY <3>2, <3>3, <3>4
  <2> HIDE DEF Old, New, f
  <2>4. f \in Injection(Old, New)
    BY <2>1, <2>2 DEF Injection, IsInjective
  <2>5. f \in Surjection(Old, New)
    BY <2>1, <2>3 DEF Surjection
  <2> QED BY <2>4, <2>5 DEF Bijection
<1>2. /\ IsFiniteSet(Old) /\ Cardinality(Old) = 2 ^ e /\ 2 ^ e \in Nat
      /\ IsFiniteSet(SUBSET (1 .. n)) /\ Cardinality(SUBSET (1 .. n)) = 2 ^ n
      /\ 2 ^ n \in Nat
  <2>1. n \in Nat
    OBVIOUS
  <2> QED BY <2>1, PowerIsSubsets
<1>3. IsFiniteSet(New) /\ Cardinality(New) = 2 ^ e
  <2>1. ExistsBijection(Old, New)
    BY <1>1 DEF ExistsBijection
  <2> QED BY <1>2, <2>1, FS_Bijection
<1>4. Old \cap New = {} /\ Old \cup New = SUBSET (1 .. n)
  OBVIOUS
<1> HIDE DEF Old, New
<1>5. Cardinality(Old \cup New) = Cardinality(Old) + Cardinality(New) - Cardinality(Old \cap New)
  BY <1>2, <1>3, FS_Union
<1>6. Cardinality(Old \cap New) = 0
  BY <1>4, FS_EmptySet
<1>7. 2 ^ n = 2 ^ e + 2 ^ e
  <2> DEFINE p == 2 ^ e
             q == 2 ^ n
  <2>1. p \in Nat /\ q \in Nat
    BY <1>2
  <2>2. q = Cardinality(Old \cup New)
    BY <1>2, <1>4
  <2>3. q = p + p - 0
    BY <1>2, <1>3, <1>5, <1>6, <2>2
  <2> HIDE DEF p, q
  <2>4. q = p + p
    BY <2>1, <2>3
  <2> QED BY <2>4 DEF p, q
<1> DEFINE p == 2 ^ e
<1>8. p \in Nat /\ 2 ^ n = p + p
  BY <1>2, <1>7
<1> HIDE DEF p
<1>9. 2 ^ n = 2 * p
  BY <1>8
<1> QED BY <1>9 DEF p

LEMMA PowerIsPositive ==
    ASSUME NEW e \in Nat
    PROVE  2 ^ e \in Nat \ {0}
<1>1. {} \in SUBSET (1 .. e)
  OBVIOUS
<1> QED BY <1>1, PowerIsSubsets, FS_EmptySet

\* Every set of numbers has a least one: what the numbers below all its members
\* count is a member.
LEMMA Least ==
    ASSUME NEW S \in SUBSET Nat, S # {}
    PROVE  \E n \in S : \A m \in S : n <= m
<1>1. PICK x \in S : TRUE
  OBVIOUS
<1> DEFINE Below == {k \in 0 .. x : \A m \in S : k < m}
           c == Cardinality(Below)
<1>2. \A k \in Below : k \in 0 .. (x - 1) /\ 0 .. k \subseteq Below
  BY <1>1
<1>3. /\ IsFiniteSet(0 .. (x - 1)) /\ Cardinality(0 .. (x - 1)) = x /\ x \in Nat
  <2>1. 0 \in Int /\ x - 1 \in Int /\ x \in Nat
    OBVIOUS
  <2>2. /\ IsFiniteSet(0 .. (x - 1))
        /\ Cardinality(0 .. (x - 1)) = IF 0 > x - 1 THEN 0 ELSE (x - 1) - 0 + 1
    BY <2>1, FS_Interval
  <2> QED BY <2>1, <2>2
<1>4. /\ IsFiniteSet(Below) /\ c <= x /\ c \in Nat
  <2>1. Below \in SUBSET (0 .. (x - 1))
    BY <1>2
  <2> QED BY <1>3, <2>1, FS_Subset, FS_CardinalityType
<1> HIDE DEF c
<1>5. /\ IsFiniteSet(0 .. (c - 1)) /\ Cardinality(0 .. (c - 1)) = c
  <2>1. 0 \in Int /\ c - 1 \in Int
    BY <1>4
  <2>2. /\ IsFiniteSet(0 .. (c - 1))
        /\ Cardinality(0 .. (c - 1)) = IF 0 > c - 1 THEN 0 ELSE (c - 1) - 0 + 1
    BY <2>1, FS_Interval
  <2> QED BY <1>4, <2>2
<1>6. Below \in SUBSET (0 .. (c - 1))
  <2> SUFFICES ASSUME NEW k \in Below
               PROVE  k \in 0 .. (c - 1)
    OBVIOUS
  <2>1. k \in Nat /\ 0 .. k \in SUBSET Below
    BY <1>2
  <2>2. Cardinality(0 .. k) <= c
    BY <1>4, <2>1, FS_Subset DEF c
  <2>3. Cardinality(0 .. k) = IF 0 > k THEN 0 ELSE k - 0 + 1
    BY <2>1, FS_Interval
  <2> QED BY <1>4, <2>1, <2>2, <2>3
<1>7. Below = 0 .. (c - 1)
  BY <1>5, <1>6, FS_Subset DEF c
<1>8. \A m \in S : c <= m
  <2> SUFFICES ASSUME NEW m \in S, m < c
               PROVE  FALSE
    BY <1>4
  <2>1. m \in 0 .. (c - 1)
    BY <1>4
  <2>2. m \in Below
    BY <1>7, <2>1
  <2> QED BY <2>2
<1>9. c \notin Below /\ c \in 0 .. x
  <2>1. c \notin 0 .. (c - 1) /\ c \in 0 .. x
    BY <1>3, <1>4
  <2> QED BY <1>7, <2>1
<1>10. \E m \in S : ~(c < m)
  BY <1>9
<1> QED BY <1>4, <1>8, <1>10

LEMMA PowerOfSum ==
    ASSUME NEW i \in Nat, NEW d \in Nat
    PROVE  2 ^ (i + d) = 2 ^ i * 2 ^ d
<1> DEFINE Wrong == {k \in Nat : 2 ^ (i + k) # 2 ^ i * 2 ^ k}
<1> SUFFICES ASSUME Wrong # {}
             PROVE  FALSE
  OBVIOUS
<1>1. PICK k \in Wrong : \A m \in Wrong : k <= m
  BY Least
<1>2. k # 0
  <2> DEFINE a == 2 ^ i
  <2>1. a \in Nat /\ 2 ^ (i + 0) = a
    BY PowerIsPositive
  <2> HIDE DEF a
  <2>2. a = a * 1
    BY <2>1
  <2>3. 0 \notin Wrong
    BY <2>1, <2>2, PowerOfZero DEF a
  <2> QED BY <2>3
<1>3. k - 1 \in Nat /\ k - 1 \notin Wrong
  BY <1>1, <1>2
<1> DEFINE j == k - 1
<1>4. j \in Nat /\ 2 ^ (i + j) = 2 ^ i * 2 ^ j /\ k = j + 1 /\ i + k = (i + j) + 1
  BY <1>3
<1> HIDE DEF j
<1>5. 2 ^ k = 2 * 2 ^ j /\ 2 ^ (i + k) = 2 * 2 ^ (i + j)
  BY <1>4, PowerStep
<1> DEFINE a == 2 ^ i
           b == 2 ^ j
<1>6. a \in Nat /\ b \in Nat
  BY <1>4, PowerIsPositive
<1>7. 2 ^ k = 2 * b /\ 2 ^ (i + k) = 2 * (a * b)
  BY <1>4, <1>5
<1> HIDE DEF a, b
<1>8. 2 * (a * b) = a * (2 * b)
  BY <1>6
<1>9. 2 ^ (i + k) = a * 2 ^ k
  BY <1>7, <1>8
<1> QED BY <1>1, <1>9 DEF a

LEMMA Mul ==
    /\ \A a, b, c \in Nat : a <= b => a * c <= b * c
    /\ \A a, b, c \in Nat : a < b => a * c + c <= b * c
    /\ \A a, b, c \in Nat : a * (b * c) = (a * b) * c /\ a * b = b * a /\ a * b \in Nat
<1>1. ASSUME NEW a \in Nat, NEW b \in Nat, NEW c \in Nat, a <= b PROVE a * c <= b * c
  BY <1>1
<1>2. ASSUME NEW a \in Nat, NEW b \in Nat, NEW c \in Nat, a < b PROVE a * c + c <= b * c
  <2>1. a + 1 <= b /\ a + 1 \in Nat
    BY <1>2
  <2>2. (a + 1) * c <= b * c
    BY <1>1, <2>1
  <2> QED BY <2>2
<1>3. ASSUME NEW a \in Nat, NEW b \in Nat, NEW c \in Nat PROVE a * (b * c) = (a * b) * c /\ a * b = b * a /\ a * b \in Nat
  OBVIOUS
<1> QED BY <1>1, <1>2, <1>3

LEMMA Division ==
    ASSUME NEW n \in Nat, NEW u \in Nat \ {0}
    PROVE  /\ n \div u \in Nat /\ n % u \in 0 .. (u - 1)
           /\ n = (n \div u) * u + (n % u)
  OBVIOUS

Half == 2 ^ (MantissaBits - 1)

\* What the constants of the arithmetic are.
LEMMA Sizes ==
    /\ LongBits \in Nat /\ MantissaBits \in Nat /\ MantissaBits - 1 \in Nat
    /\ Half \in Nat \ {0} /\ 2 ^ MantissaBits = 2 * Half
    /\ 2 ^ LongBits \in Nat \ {0}
<1>1. LongBits \in Nat /\ MantissaBits \in Nat /\ MantissaBits - 1 \in Nat
  BY LongBitsAssumption, MantissaBitsAssumption
<1> DEFINE k == MantissaBits - 1
<1>2. k \in Nat /\ k + 1 = MantissaBits
  BY <1>1
<1> HIDE DEF k
<1>3. 2 ^ MantissaBits = 2 * 2 ^ k
  BY <1>2, PowerStep
<1> QED BY <1>1, <1>2, <1>3, PowerIsPositive DEF Half, k

\* The distance between the doubles at a number is the least power of two under
\* which the number fits the mantissa.
LEMMA UlpIs ==
    ASSUME NEW n \in Longs
    PROVE  \E e \in Nat : /\ Ulp(n) = 2 ^ e
                          /\ n < Ulp(n) * (2 * Half)
                          /\ e > 0 => n >= 2 ^ (e - 1) * (2 * Half)
<1> DEFINE B == 2 * Half
           Fits == {e \in 0 .. LongBits : n < 2 ^ e * B}
           Right(u) == n < u * B /\ (u = 1 \/ n >= (u \div 2) * B)
<1>1. n \in Nat /\ n < 2 ^ LongBits
  BY Sizes DEF Longs
<1>2. LongBits \in Fits
  <2> DEFINE p == 2 ^ LongBits
  <2>1. p \in Nat \ {0} /\ n < p /\ B \in Nat /\ B >= 1
    BY <1>1, Sizes
  <2> HIDE DEF p, B
  <2>2. 1 * p <= B * p
    BY <2>1, Mul
  <2>3. n < p * B
    BY <1>1, <2>1, <2>2
  <2> QED BY <2>3, Sizes DEF p
<1>3. PICK e \in Fits : \A k \in Fits : e <= k
  <2>1. Fits \in SUBSET Nat
    BY Sizes
  <2> HIDE DEF Fits
  <2> QED BY <1>2, <2>1, Least
<1>4. e \in 0 .. LongBits /\ e \in Nat /\ n < 2 ^ e * B
  BY <1>3, Sizes
<1>5. ASSUME e > 0
      PROVE  n >= 2 ^ (e - 1) * B /\ 2 ^ e = 2 * 2 ^ (e - 1)
  <2> DEFINE k == e - 1
  <2>1. k \in Nat /\ k \in 0 .. LongBits /\ k + 1 = e /\ ~(e <= k)
    <3> HIDE DEF B, Fits, Right
    <3> QED BY <1>4, <1>5, Sizes
  <2>2. ~(n < 2 ^ k * B)
    BY <1>3, <2>1
  <2>3. 2 ^ k \in Nat /\ B \in Nat
    BY <2>1, PowerIsPositive, Sizes
  <2> HIDE DEF k, B
  <2>4. n >= 2 ^ k * B
    BY <1>1, <2>2, <2>3
  <2>5. 2 ^ e = 2 * 2 ^ k
    BY <2>1, PowerStep
  <2> QED BY <2>4, <2>5 DEF k
<1>6. Right(2 ^ e)
  <2>1. CASE e = 0
    BY <1>4, <2>1, PowerOfZero
  <2>2. CASE e # 0
    <3> DEFINE p == 2 ^ (e - 1)
               q == 2 ^ e
    <3>1. e > 0 /\ e - 1 \in Nat
      BY <1>4, <2>2
    <3>2. p \in Nat /\ q = 2 * p /\ n >= p * B /\ n < q * B
      BY <1>4, <1>5, <3>1, PowerIsPositive
    <3> HIDE DEF p, q, B
    <3>3. q \div 2 = p
      BY <3>2
    <3> QED BY <3>2, <3>3 DEF q
  <2> QED BY <2>1, <2>2
<1> DEFINE Powers == {2 ^ k : k \in 0 .. LongBits}
<1>7. Ulp(n) = CHOOSE u \in Powers : Right(u)
  BY Sizes DEF Ulp
<1>8. \E u \in Powers : Right(u)
  BY <1>4, <1>6
<1> HIDE DEF Right, Powers
<1>9. Ulp(n) \in Powers /\ Right(Ulp(n))
  BY <1>7, <1>8
<1>10. PICK k \in 0 .. LongBits : Ulp(n) = 2 ^ k
  BY <1>9 DEF Powers
<1>11. k \in Nat
  BY <1>10, Sizes
<1>12. n < Ulp(n) * B
  BY <1>9 DEF Right
<1>13. ASSUME k > 0
       PROVE  n >= 2 ^ (k - 1) * B
  <2> DEFINE p == 2 ^ (k - 1)
             q == 2 ^ k
  <2>1. k - 1 \in Nat /\ (k - 1) + 1 = k
    BY <1>11, <1>13
  <2>2. p \in Nat \ {0} /\ q = 2 * p
    BY <2>1, PowerIsPositive, PowerStep
  <2>3. q = 1 \/ n >= (q \div 2) * B
    BY <1>9, <1>10 DEF Right
  <2> HIDE DEF p, q
  <2>4. q # 1 /\ q \div 2 = p
    BY <2>2
  <2>5. n >= p * B
    BY <2>3, <2>4
  <2> QED BY <2>5 DEF p
<1> QED BY <1>10, <1>11, <1>12, <1>13

\* The two doubles around a number, and which of them AsDouble takes.
LEMMA Rounds ==
    ASSUME NEW n \in Longs
    PROVE  \E q, r \in Nat :
              /\ n = q * Ulp(n) + r /\ r < Ulp(n) /\ Ulp(n) \in Nat \ {0}
              /\ q < 2 * Half
              /\ \/ AsDouble(n) = q * Ulp(n) /\ r <= Ulp(n) - r
                 \/ AsDouble(n) = q * Ulp(n) + Ulp(n) /\ Ulp(n) - r <= r
<1> DEFINE u == Ulp(n)
           q == n \div u
           r == n % u
<1>1. n \in Nat
  BY Sizes DEF Longs
<1>2. u \in Nat \ {0} /\ n < u * (2 * Half)
  BY UlpIs, PowerIsPositive
<1>0. AsDouble(n) = IF 2 * r > u \/ (2 * r = u /\ q % 2 = 1) THEN (q + 1) * u ELSE q * u
  BY DEF AsDouble
<1> HIDE DEF u
<1>3. q \in Nat /\ r \in 0 .. (u - 1) /\ n = q * u + r
  BY <1>1, <1>2, Division
<1> HIDE DEF q, r
<1>4. q < 2 * Half
  <2> DEFINE B == 2 * Half
  <2>1. B \in Nat
    BY Sizes
  <2> HIDE DEF B
  <2> SUFFICES ASSUME B <= q
               PROVE  FALSE
    BY <1>3, <2>1 DEF B
  <2>2. B * u <= q * u
    BY <1>2, <1>3, <2>1, Mul
  <2>3. n < B * u
    BY <1>2, <2>1, Mul DEF B
  <2>4. q * u \in Nat /\ B * u \in Nat
    BY <1>2, <1>3, <2>1
  <2> DEFINE x == q * u
             y == B * u
  <2>5. x \in Nat /\ y \in Nat /\ y <= x /\ n < y /\ n = x + r
    BY <1>3, <2>2, <2>3, <2>4
  <2> HIDE DEF x, y
  <2> QED BY <1>1, <1>2, <1>3, <2>5
<1>5. (q + 1) * u = q * u + u
  BY <1>2, <1>3
<1>6. \/ AsDouble(n) = q * u /\ r <= u - r
      \/ AsDouble(n) = q * u + u /\ u - r <= r
  <2>1. CASE 2 * r > u \/ (2 * r = u /\ q % 2 = 1)
    <3>1. AsDouble(n) = q * u + u
      BY <1>0, <1>5, <2>1
    <3>2. u - r <= r
      BY <1>2, <1>3, <2>1
    <3> QED BY <3>1, <3>2
  <2>2. CASE ~(2 * r > u \/ (2 * r = u /\ q % 2 = 1))
    <3>1. AsDouble(n) = q * u
      BY <1>0, <2>2
    <3>2. r <= u - r
      BY <1>2, <1>3, <2>2
    <3> QED BY <3>1, <3>2
  <2> QED BY <2>1, <2>2
<1>7. r \in Nat /\ r < u
  BY <1>2, <1>3
<1> QED BY <1>2, <1>3, <1>4, <1>6, <1>7 DEF u

\* A double is a natural number, and 0 is one.
LEMMA DoubleIsNat ==
    ASSUME NEW n \in Longs
    PROVE  AsDouble(n) \in Nat /\ (n = 0 => AsDouble(n) = 0)
<1>1. PICK q, r \in Nat :
         /\ n = q * Ulp(n) + r /\ r < Ulp(n) /\ Ulp(n) \in Nat \ {0}
         /\ q < 2 * Half
         /\ \/ AsDouble(n) = q * Ulp(n) /\ r <= Ulp(n) - r
            \/ AsDouble(n) = q * Ulp(n) + Ulp(n) /\ Ulp(n) - r <= r
  BY Rounds
<1> DEFINE u == Ulp(n)
           x == q * u
           a == AsDouble(n)
<1>2. /\ x \in Nat /\ u \in Nat \ {0} /\ n = x + r /\ r < u
      /\ (a = x /\ r <= u - r) \/ (a = x + u /\ u - r <= r)
  BY <1>1
<1> HIDE DEF a, x, u
<1>3. a \in Nat /\ (n = 0 => a = 0)
  BY <1>2
<1> QED BY <1>3 DEF a

\* No double lies strictly between the two around a number.
LEMMA NoDoubleBetween ==
    ASSUME NEW n \in Longs, NEW m \in Longs, NEW q \in Nat, NEW r \in Nat,
           n = q * Ulp(n) + r, r < Ulp(n)
    PROVE  AsDouble(m) <= q * Ulp(n) \/ AsDouble(m) >= q * Ulp(n) + Ulp(n)
<1>1. PICK p, s \in Nat :
         /\ m = p * Ulp(m) + s /\ s < Ulp(m) /\ Ulp(m) \in Nat \ {0}
         /\ p < 2 * Half
         /\ \/ AsDouble(m) = p * Ulp(m) /\ s <= Ulp(m) - s
            \/ AsDouble(m) = p * Ulp(m) + Ulp(m) /\ Ulp(m) - s <= s
  BY Rounds
<1>2. PICK i \in Nat : /\ Ulp(n) = 2 ^ i
                       /\ i > 0 => n >= 2 ^ (i - 1) * (2 * Half)
  BY UlpIs
<1>3. PICK k \in Nat : Ulp(m) = 2 ^ k
  BY UlpIs
<1> DEFINE u == Ulp(n)
           v == Ulp(m)
           C == Half
           e == AsDouble(m)
<1>4. u \in Nat \ {0} /\ v \in Nat \ {0} /\ C \in Nat \ {0} /\ n \in Nat
  BY <1>1, <1>2, PowerIsPositive, Sizes DEF Longs
<1>5. PICK j \in Nat : e = j * v /\ j <= 2 * C
  <2>1. CASE e = p * v
    BY <1>1, <1>4, <2>1
  <2>2. CASE e = p * v + v
    <3>1. (p + 1) * v = p * v + v
      BY <1>1, <1>4
    <3>2. p + 1 \in Nat /\ p + 1 <= 2 * C
      BY <1>1, <1>4
    <3> QED BY <2>2, <3>1, <3>2
  <2> QED BY <1>1, <2>1, <2>2
<1>6. CASE i <= k
  <2>1. PICK d \in Nat : k = i + d
    <3>1. k - i \in Nat /\ k = i + (k - i)
      BY <1>6
    <3> QED BY <3>1
  <2> DEFINE w == 2 ^ d
             t == j * w
  <2>2. w \in Nat /\ v = u * w
    <3>1. 2 ^ (i + d) = 2 ^ i * 2 ^ d
      BY PowerOfSum
    <3> QED BY <1>2, <1>3, <2>1, <3>1, PowerIsPositive
  <2> HIDE DEF u, v, w, e
  <2>3. e = (j * w) * u
    BY <1>4, <1>5, <2>2, Mul
  <2>4. t \in Nat /\ e = t * u
    BY <1>5, <2>2, <2>3
  <2> HIDE DEF t
  <2>5. CASE t <= q
    BY <1>4, <2>4, <2>5, Mul DEF u, e
  <2>6. CASE q < t
    BY <1>4, <2>4, <2>6, Mul DEF u, e
  <2> QED BY <2>4, <2>5, <2>6
<1>7. CASE k < i
  <2> DEFINE h == 2 ^ (i - 1)
  <2>1. i - 1 \in Nat /\ (i - 1) + 1 = i /\ i > 0
    BY <1>7
  <2>2. h \in Nat \ {0} /\ u = 2 * h /\ n >= h * (2 * C)
    BY <1>2, <2>1, PowerIsPositive, PowerStep
  <2>3. PICK d \in Nat : i - 1 = k + d
    <3>1. (i - 1) - k \in Nat /\ i - 1 = k + ((i - 1) - k)
      BY <1>7, <2>1
    <3> QED BY <3>1
  <2> DEFINE w == 2 ^ d
  <2>4. w \in Nat \ {0} /\ h = v * w
    BY <1>3, <2>3, PowerIsPositive, PowerOfSum
  <2> HIDE DEF u, v, w, e, h, C
  \* u * C is a multiple of u, and n lies above it.
  <2>5. h * (2 * C) = C * u
    BY <1>4, <2>2
  <2>6. C <= q
    <3> SUFFICES ASSUME q < C
                 PROVE  FALSE
      BY <1>4
    <3>1. q * u + u <= C * u
      BY <1>4, Mul
    <3> DEFINE x == q * u
               y == C * u
    <3>2. x \in Nat /\ y \in Nat
      BY <1>4
    <3>3. n = x + r /\ r < u /\ x + u <= y /\ n >= y
      BY <2>2, <2>5, <3>1 DEF u
    <3> HIDE DEF x, y
    <3> QED BY <1>4, <3>2, <3>3
  <2>7. C * u <= q * u
    BY <1>4, <2>6, Mul
  \* The doubles at m end where those at n begin.
  <2>8. v <= h
    <3>1. 1 * v <= w * v
      BY <1>4, <2>4, Mul
    <3> QED BY <1>4, <2>4, <3>1, Mul
  <2>9. e <= C * u
    <3>1. j * v <= (2 * C) * v
      BY <1>4, <1>5, Mul
    <3>2. v * (2 * C) <= h * (2 * C)
      BY <1>4, <2>2, <2>8, Mul
    <3>3. (2 * C) * v = v * (2 * C)
      BY <1>4
    <3> DEFINE x == j * v
               y == v * (2 * C)
               z == C * u
    <3>4. x \in Nat /\ y \in Nat /\ z \in Nat
      BY <1>4, <1>5
    <3>5. x <= y /\ y <= z /\ e = x
      BY <1>5, <2>5, <3>1, <3>2, <3>3 DEF C, e, v
    <3> HIDE DEF x, y, z
    <3> QED BY <3>4, <3>5 DEF z
  <2>10. e <= q * u
    <3> DEFINE x == q * u
               y == C * u
    <3>1. x \in Nat /\ y \in Nat /\ e \in Nat
      BY <1>4, <1>5
    <3>2. e <= y /\ y <= x
      BY <2>7, <2>9
    <3> HIDE DEF x, y
    <3>3. e <= x
      BY <3>1, <3>2
    <3> QED BY <3>3 DEF x
  <2> QED BY <2>10 DEF e, u
<1> QED BY <1>6, <1>7

\* AsDouble takes a double nearest to its argument.
LEMMA AsDoubleIsNearest ==
    ASSUME NEW n \in Longs, NEW d \in Doubles
    PROVE  Distance(AsDouble(n), n) <= Distance(d, n)
<1>1. PICK q, r \in Nat :
         /\ n = q * Ulp(n) + r /\ r < Ulp(n) /\ Ulp(n) \in Nat \ {0}
         /\ q < 2 * Half
         /\ \/ AsDouble(n) = q * Ulp(n) /\ r <= Ulp(n) - r
            \/ AsDouble(n) = q * Ulp(n) + Ulp(n) /\ Ulp(n) - r <= r
  BY Rounds
<1>2. PICK m \in Longs : d = AsDouble(m)
  BY DEF Doubles
<1>3. d \in Nat
  BY <1>2, DoubleIsNat
<1>4. d <= q * Ulp(n) \/ d >= q * Ulp(n) + Ulp(n)
  BY <1>1, <1>2, NoDoubleBetween
<1> DEFINE u == Ulp(n)
           x == q * u
           a == AsDouble(n)
<1>5. /\ x \in Nat /\ u \in Nat /\ n = x + r /\ r < u /\ a \in Nat
      /\ (a = x /\ r <= u - r) \/ (a = x + u /\ u - r <= r)
      /\ d <= x \/ d >= x + u
  BY <1>1, <1>4, DoubleIsNat
<1> HIDE DEF a, x, u
<1>6. n \in Nat
  BY <1>5
<1>7. Distance(a, n) <= Distance(d, n)
  BY <1>3, <1>5, <1>6 DEF Distance
<1> QED BY <1>7 DEF a

\* 0 is a double, and 1 an integer.
LEMMA SmallNumbers == 0 \in Longs /\ 1 \in Longs /\ 0 \in Doubles
<1>1. 2 ^ LongBits \in Nat /\ 2 ^ LongBits > 1
  <2> DEFINE k == LongBits - 1
             p == 2 ^ k
             q == 2 ^ LongBits
  <2>1. k \in Nat /\ k + 1 = LongBits
    BY LongBitsAssumption
  <2>2. p \in Nat \ {0} /\ q = 2 * p
    BY <2>1, PowerIsPositive, PowerStep
  <2> HIDE DEF p, q
  <2>3. q \in Nat /\ q > 1
    BY <2>2
  <2> QED BY <2>3 DEF q
<1>2. 0 \in Longs /\ 1 \in Longs
  BY <1>1 DEF Longs
<1>3. AsDouble(0) = 0
  BY <1>2, DoubleIsNat
<1> QED BY <1>2, <1>3 DEF Doubles

\* The metrics of a batch hold values that a caller can give.
LEMMA BatchValues ==
    ASSUME NEW batch \in Batches, NEW i \in 1 .. Len(batch)
    PROVE  batch[i].value \in MetricValues
<1>1. CASE batch = <<>>
  BY <1>1
<1>2. CASE batch = Batch
  <2>1. /\ [kind |-> "Bool", of |-> TRUE] \in MetricValues
        /\ [kind |-> "Int", of |-> 1] \in MetricValues
    BY SmallNumbers DEF MetricValues
  <2>2. /\ Len(Batch) = 2
        /\ Batch[1].value = [kind |-> "Bool", of |-> TRUE]
        /\ Batch[2].value = [kind |-> "Int", of |-> 1]
    BY DEF Batch, Metric
  <2>3. i = 1 \/ i = 2
    BY <1>2, <2>2
  <2> QED BY <1>2, <2>1, <2>2, <2>3
<1>3. ASSUME NEW m \in Single, batch = <<m>>
      PROVE  batch[i].value \in MetricValues
  <2>1. m.value \in MetricValues
    BY DEF Single, Metric
  <2> QED BY <1>3, <2>1
<1> QED BY <1>1, <1>2, <1>3 DEF Batches

\* What the crate writes for a value.
WrittenFor(v) == Value(FieldAndDatatype[v.kind][1], v.of)
WrittenValues == {WrittenFor(v) : v \in MetricValues}

LEMMA BatchIsWritten ==
    ASSUME NEW batch, NEW i \in 1 .. Len(batch)
    PROVE  ProtoMetrics(batch)[i].value = WrittenFor(batch[i].value)
BY DEF ProtoMetrics, CreateMetric, ToProto, WrittenFor

----------------------------------------------------------------------------
(* The invariant.                                                          *)

Stages == {"start", "entered", "refused", "text", "parsed"}
Calls == [kind : {"metrics", "birth"}, topic : TopicSet, batch : Batches,
          at : Instants, seq : Seqs]
OnWire == stage \in {"text", "parsed"}

\* Who the client is, the time, and what it asked for; nothing is on the wire
\* before a number is drawn.
CallInv ==
    /\ identity \in Identities /\ clock \in Instants /\ stage \in Stages
    /\ call = NoCall \/ call \in Calls
    /\ stage = "start" => call = NoCall
    /\ stage \in {"entered", "refused"} => call \in Calls
    /\ ~OnWire => sent = NoTopic /\ text = <<>> /\ bytes = Garbage
    /\ call.kind = "birth" =>
          identity # NoIdentity /\ call.topic \in NodeTopics /\ call.batch = <<>>

\* A message that was sent is on a topic that names an edge node, and the text
\* and the options are this topic's.
SentInv ==
    /\ sent = NoTopic => options = NoOptions
    /\ sent # NoTopic => /\ sent \in NodeTopics \cup DeviceTopics
                         /\ text = Display(sent)
                         /\ options = WireOptions(Role, sent.type)

\* What is on the wire is any text of the words, or what some topic renders.
TextInv == OnWire => text \in Texts \/ \E t \in TopicSet : text = Display(t)

\* What another publisher's metric is sent as.
ForeignBytes(v, code) ==
    Encode(CreatePayload(<<[name |-> "metric", value |-> v,
                            datatype |-> code, timestamp |-> 0]>>, 0, 0))

IsForeign(b) == \E v \in Foreign, code \in DOMAIN DataTypes : b = ForeignBytes(v, code)

\* The bytes are made from the call whose message is on the wire, or come from
\* somebody else.
BytesInv ==
    /\ bytes.kind \in {"payload", "garbage"}
    /\ (OnWire /\ call.kind = "metrics") =>
          bytes = Encode(CreatePayload(ProtoMetrics(call.batch), call.at, call.seq))
    /\ (OnWire /\ call.kind = "birth") =>
          bytes \in {Encode(BirthCertificate(call.at, 0)),
                     Encode(DeviceBirthCertificate(call.at, 1))}
    /\ (OnWire /\ call = NoCall) => bytes = Garbage \/ IsForeign(bytes)

\* The reader's answers are those of the message before it.
ReadInv ==
    IF Parsed THEN got = Parse(text) /\ read = DecodePayload(bytes)
              ELSE got = Err("none") /\ read = {}

IInv == CallInv /\ SentInv /\ TextInv /\ BytesInv /\ ReadInv

\* The identifiers that pass their checks make a topic.
LEMMA CheckedIsTopic ==
    ASSUME NEW type \in MessageTypes,
           NEW raws \in [1 .. Arity(ShapeOf(type)) -> RawIds], AllUsable(raws)
    PROVE  Topic(type, raws) \in TopicSet
<1>1. Arity(ShapeOf(type)) \in Nat
  BY Shapes DEF MessageTypes
<1>2. Len(raws) = Arity(ShapeOf(type))
  BY <1>1, FunctionIsSeq
<1>3. raws \in [1 .. Arity(ShapeOf(type)) -> Ids]
  BY <1>2 DEF AllUsable, Ids
<1> QED BY <1>3, TopicsAre

\* NoTopic is not a topic.
LEMMA NoTopicIsNone == NoTopic \notin TopicSet
BY DEF NoTopic, TopicSet, NodeTopics, DeviceTopics, HostTopics, NodeTypes, DeviceTypes

\* Nor is NoCall a call.
LEMMA NoCallIsNone == NoCall \notin Calls /\ NoCall.kind = "none"
BY DEF NoCall, Calls

\* An edge node is a topic's two identifiers.
LEMMA NodeAsTopic ==
    ASSUME NEW type \in NodeTypes, NEW node \in [1 .. 2 -> Ids]
    PROVE  Topic(type, node) \in NodeTopics
BY DEF Topic, NodeTopics

LEMMA InitInv == Init => IInv
<1> SUFFICES ASSUME Init PROVE IInv
  OBVIOUS
<1>1. stage = "start" /\ call = NoCall /\ sent = NoTopic /\ options = NoOptions
      /\ text = <<>> /\ bytes = Garbage /\ got = Err("none") /\ read = {}
      /\ identity \in Identities /\ clock = 0
  BY DEF Init
<1>2. 0 \in Instants
  BY MaxClockAssumption DEF Instants
<1>3. CallInv
  BY <1>1, <1>2, NoCallIsNone DEF CallInv, Stages, OnWire
<1>4. SentInv
  BY <1>1 DEF SentInv
<1>5. TextInv
  BY <1>1 DEF TextInv, OnWire
<1>6. BytesInv
  BY <1>1 DEF BytesInv, OnWire, Garbage
<1>7. ReadInv
  BY <1>1 DEF ReadInv, Parsed
<1> QED BY <1>3, <1>4, <1>5, <1>6, <1>7 DEF IInv

\* A call enters with a topic of its own.
LEMMA EnterKeepsInv ==
    ASSUME IInv, stage = "start",
           NEW kind \in {"metrics", "birth"}, NEW topic \in TopicSet,
           NEW batch \in Batches, NEW at \in Instants,
           kind = "birth" => identity # NoIdentity /\ topic \in NodeTopics /\ batch = <<>>,
           Enter(kind, topic, batch, at)
    PROVE  IInv'
<1>1. /\ stage' = "entered"
      /\ call' = [kind |-> kind, topic |-> topic, batch |-> batch, at |-> at, seq |-> 0]
      /\ UNCHANGED <<identity, clock, sent, text, options, bytes, got, read>>
  BY DEF Enter, wire, reader
<1>2. call' \in Calls /\ call'.kind = kind /\ call'.topic = topic /\ call'.batch = batch
  BY <1>1 DEF Calls, Seqs
<1>3. CallInv'
  BY <1>1, <1>2 DEF IInv, CallInv, Stages, OnWire
<1>4. SentInv'
  BY <1>1 DEF IInv, SentInv, Role
<1>5. TextInv'
  BY <1>1 DEF TextInv, OnWire
<1>6. BytesInv'
  BY <1>1 DEF IInv, BytesInv, OnWire
<1>7. ReadInv'
  BY <1>1 DEF IInv, ReadInv, Parsed
<1> QED BY <1>3, <1>4, <1>5, <1>6, <1>7 DEF IInv

\* A message is sent for a call, on a topic that names an edge node.
LEMMA SendKeepsInv ==
    ASSUME IInv, NEW topic \in NodeTopics \cup DeviceTopics, NEW payload,
           Send(topic, payload), call' \in Calls,
           call'.kind = "metrics" =>
              payload = CreatePayload(ProtoMetrics(call'.batch), call'.at, call'.seq),
           call'.kind = "birth" =>
              /\ identity # NoIdentity /\ call'.topic \in NodeTopics /\ call'.batch = <<>>
              /\ payload \in {BirthCertificate(call'.at, 0),
                              DeviceBirthCertificate(call'.at, 1)}
    PROVE  IInv'
<1>1. /\ stage' = "text" /\ sent' = topic /\ text' = Display(topic)
      /\ options' = WireOptions(Role, topic.type) /\ bytes' = Encode(payload)
      /\ got' = Err("none") /\ read' = {} /\ UNCHANGED <<identity, clock>>
  BY DEF Send
<1>2. CallInv'
  BY <1>1 DEF IInv, CallInv, Stages, OnWire
<1>3. SentInv'
  <2>1. sent' # NoTopic
    BY <1>1, NoTopicIsNone DEF TopicSet
  <2>2. Role' = Role
    BY <1>1 DEF Role
  <2> QED BY <1>1, <2>1, <2>2, Zenon DEF SentInv
<1>4. TextInv'
  BY <1>1 DEF TextInv, TopicSet
<1>5. BytesInv'
  <2>1. bytes'.kind = "payload" /\ call' # NoCall
    BY <1>1, NoCallIsNone DEF Encode
  <2> QED BY <1>1, <2>1, Zenon DEF BytesInv
<1>6. ReadInv'
  BY <1>1 DEF ReadInv, Parsed
<1> QED BY <1>2, <1>3, <1>4, <1>5, <1>6 DEF IInv

\* A text from somewhere else arrives beside no call of the client.
LEMMA ArrivalKeepsInv ==
    ASSUME IInv, stage = "start", stage' = "text",
           text' \in Texts \/ \E t \in TopicSet : text' = Display(t),
           bytes' = Garbage \/ IsForeign(bytes'),
           UNCHANGED <<identity, clock, call, sent, options, got, read>>
    PROVE  IInv'
<1>1. call = NoCall /\ sent = NoTopic
  BY DEF IInv, CallInv, OnWire
<1>2. call'.kind = "none"
  BY <1>1, NoCallIsNone
<1>3. CallInv'
  BY <1>1, <1>2 DEF IInv, CallInv, Stages, OnWire
<1>4. SentInv'
  BY <1>1 DEF IInv, SentInv
<1>5. TextInv'
  BY DEF TextInv
<1>6. BytesInv'
  <2>1. bytes'.kind \in {"payload", "garbage"}
    <3>1. Garbage.kind = "garbage" /\ \A p : Encode(p).kind = "payload"
      BY DEF Garbage, Encode
    <3> QED BY <3>1, Zenon DEF IsForeign, ForeignBytes
  <2> QED BY <1>2, <2>1 DEF BytesInv
<1>7. ReadInv'
  BY DEF IInv, ReadInv, Parsed
<1> QED BY <1>3, <1>4, <1>5, <1>6, <1>7 DEF IInv

\* What the reader reads is a topic, and its text is the one on the wire; or it
\* is an error.
LEMMA ReadTopic ==
    ASSUME IInv, Parsed
    PROVE  \/ got.kind = "ok" /\ got.topic \in TopicSet /\ Display(got.topic) = text
           \/ \E e \in Errors : got = Err(e)
<1>1. got = Parse(text) /\ (text \in Texts \/ \E t \in TopicSet : text = Display(t))
  BY DEF IInv, ReadInv, TextInv, OnWire, Parsed
<1>2. CASE got.kind # "ok"
  BY <1>1, <1>2, OrAnError
<1>3. CASE got.kind = "ok" /\ text \in Texts
  <2>1. PICK k \in 1 .. MaxParts : text \in [1 .. k -> Words]
    BY <1>3 DEF Texts
  <2>2. k \in Nat
    BY <2>1, MaxPartsAssumption
  <2>3. text \in Seq(Words)
    BY <2>1, <2>2, FunctionIsSeq
  <2> QED BY <1>1, <1>3, <2>3, Strict
<1>4. ASSUME got.kind = "ok", NEW t \in TopicSet, text = Display(t)
      PROVE  got.topic \in TopicSet /\ Display(got.topic) = text
  <2>1. CASE t.ids[1] # <<"STATE">>
    <3>1. got = Ok(t)
      BY <1>1, <1>4, <2>1, RoundTrip
    <3>2. got.topic = t
      BY <3>1 DEF Ok
    <3> QED BY <1>4, <3>2
  <2>2. CASE t.ids[1] = <<"STATE">> /\ t \in NodeTopics \cup DeviceTopics
    BY <1>1, <1>4, <2>2, StateGroup DEF Err
  <2>3. CASE t \in HostTopics
    <3>1. PICK h \in Usable : t = [type |-> "STATE", ids |-> <<<<h>>>>]
      BY <2>3, TopicOf
    <3>2. Display(t) = <<Version, "STATE", h>>
      BY <3>1, DisplayOf, Zenon
    <3>3. got = Ok(t)
      BY <1>1, <1>4, <3>1, <3>2, ParseHost, Zenon
    <3>4. got.topic = t
      BY <3>3 DEF Ok
    <3> QED BY <1>4, <3>4
  <2> QED BY <2>1, <2>2, <2>3 DEF TopicSet
<1> QED BY <1>1, <1>2, <1>3, <1>4

\* Every step of the message keeps the invariant.
LEMMA NextKeepsInv == IInv /\ [Next]_vars => IInv'
<1> SUFFICES ASSUME IInv, [Next]_vars PROVE IInv'
  OBVIOUS
<1>1. CASE PublishMetric
  <2>0. PICK type \in MessageTypes :
               \E raws \in [1 .. Arity(ShapeOf(type)) -> RawIds] :
                  /\ AllUsable(raws)
                  /\ \E m \in Single : Enter("metrics", Topic(type, raws), <<m>>, m.ts)
    BY <1>1 DEF PublishMetric
  <2>1. PICK raws \in [1 .. Arity(ShapeOf(type)) -> RawIds], m \in Single :
               /\ AllUsable(raws)
               /\ Enter("metrics", Topic(type, raws), <<m>>, m.ts)
    BY <2>0
  <2>2. Topic(type, raws) \in TopicSet
    BY <2>1, CheckedIsTopic
  <2>3. <<m>> \in Batches /\ m.ts \in Instants
    BY DEF Batches, Single, Metric
  <2>4. stage = "start"
    BY <1>1 DEF PublishMetric
  <2> QED BY <2>1, <2>2, <2>3, <2>4, EnterKeepsInv
<1>2. CASE PublishMetrics
  <2>0. PICK type \in MessageTypes :
               \E raws \in [1 .. Arity(ShapeOf(type)) -> RawIds] :
                  AllUsable(raws) /\ Enter("metrics", Topic(type, raws), Batch, clock)
    BY <1>2 DEF PublishMetrics
  <2>1. PICK raws \in [1 .. Arity(ShapeOf(type)) -> RawIds] :
               AllUsable(raws) /\ Enter("metrics", Topic(type, raws), Batch, clock)
    BY <2>0
  <2>2. Topic(type, raws) \in TopicSet
    BY <2>1, CheckedIsTopic
  <2>3. Batch \in Batches /\ clock \in Instants
    BY DEF Batches, IInv, CallInv
  <2>4. stage = "start"
    BY <1>2 DEF PublishMetrics
  <2> QED BY <2>1, <2>2, <2>3, <2>4, EnterKeepsInv
<1>3. CASE PublishBirth
  <2>1. /\ stage = "start" /\ identity # NoIdentity
        /\ Enter("birth", Topic("NBIRTH", identity), <<>>, clock)
    BY <1>3 DEF PublishBirth
  <2>2. identity \in [1 .. 2 -> Ids]
    BY <2>1 DEF IInv, CallInv, Identities
  <2>3. Topic("NBIRTH", identity) \in NodeTopics
    BY <2>2, NodeAsTopic DEF NodeTypes
  <2>4. <<>> \in Batches /\ clock \in Instants
    BY DEF Batches, IInv, CallInv
  <2> QED BY <2>1, <2>3, <2>4, EnterKeepsInv DEF TopicSet
<1>4. CASE Tick
  <2>1. clock' = clock + 1 /\ clock < MaxClock
        /\ UNCHANGED <<identity, stage, call, sent, text, options, bytes, got, read>>
    BY <1>4 DEF Tick, wire, reader
  <2>2. clock' \in Instants
    BY <2>1, MaxClockAssumption DEF IInv, CallInv, Instants
  <2>3. CallInv'
    BY <2>1, <2>2 DEF IInv, CallInv, OnWire
  <2>4. SentInv' /\ TextInv' /\ BytesInv' /\ ReadInv'
    BY <2>1 DEF IInv, SentInv, Role, TextInv, OnWire, BytesInv, ReadInv, Parsed
  <2> QED BY <2>3, <2>4 DEF IInv
<1>5. CASE Refuse
  <2>1. stage = "entered" /\ stage' = "refused"
        /\ UNCHANGED <<identity, clock, call, sent, text, options, bytes, got, read>>
    BY <1>5 DEF Refuse, wire, reader
  <2>2. CallInv'
    BY <2>1 DEF IInv, CallInv, OnWire, Stages
  <2>3. SentInv' /\ TextInv' /\ BytesInv' /\ ReadInv'
    BY <2>1 DEF IInv, SentInv, Role, TextInv, OnWire, BytesInv, ReadInv, Parsed
  <2> QED BY <2>2, <2>3 DEF IInv
<1>6. CASE SendMetrics
  <2>1. /\ stage = "entered" /\ call.kind = "metrics" /\ EdgeNodeOf(call.topic) # {}
    BY <1>6 DEF SendMetrics
  <2>2. PICK seq \in Seqs :
            /\ call' = [call EXCEPT !.seq = seq]
            /\ Send(call.topic, CreatePayload(ProtoMetrics(call.batch), call.at, seq))
    BY <1>6 DEF SendMetrics, Seqs
  <2>3. call \in Calls
    BY <2>1 DEF IInv, CallInv
  <2>4. /\ call' \in Calls /\ call'.kind = "metrics" /\ call'.batch = call.batch
        /\ call'.at = call.at /\ call'.seq = seq
    BY <2>1, <2>2, <2>3 DEF Calls
  <2>5. call.topic \in NodeTopics \cup DeviceTopics
    BY <2>1, <2>3, EdgeNode DEF Calls, TopicSet
  <2> QED BY <2>2, <2>4, <2>5, SendKeepsInv
<1>7. CASE SendNbirth
  <2>1. /\ stage = "entered" /\ call.kind = "birth" /\ call' = call
        /\ Send(call.topic, BirthCertificate(call.at, 0))
    BY <1>7 DEF SendNbirth
  <2>2. /\ call \in Calls /\ identity # NoIdentity /\ call.topic \in NodeTopics
        /\ call.batch = <<>>
    BY <2>1 DEF IInv, CallInv
  <2> QED BY <2>1, <2>2, SendKeepsInv
<1>8. CASE SendDbirth
  <2>1. /\ call.kind = "birth" /\ stage \in {"text", "parsed"}
        /\ call' = [call EXCEPT !.seq = 1]
    BY <1>8 DEF SendDbirth, Dbirth
  <2>2. PICK device \in Ids :
          Send(Topic("DBIRTH", Append(identity, device)), DeviceBirthCertificate(call.at, 1))
    BY <1>8 DEF SendDbirth, Dbirth
  <2>3. /\ call \in Calls /\ identity # NoIdentity /\ call.topic \in NodeTopics
        /\ call.batch = <<>>
    BY <2>1, NoCallIsNone DEF IInv, CallInv
  <2>4. /\ call' \in Calls /\ call'.kind = "birth" /\ call'.at = call.at
        /\ call'.topic = call.topic /\ call'.batch = <<>>
    BY <2>1, <2>3 DEF Calls, Seqs
  <2>5. Topic("DBIRTH", Append(identity, device)) \in DeviceTopics
    <3>1. identity \in [1 .. 2 -> Ids]
      BY <2>3 DEF IInv, CallInv, Identities
    <3>2. identity \in Seq(Ids) /\ Len(identity) = 2
      BY <3>1, FunctionIsSeq
    <3> DEFINE u == Append(identity, device)
    <3>3. u \in Seq(Ids) /\ Len(u) = Len(identity) + 1
      BY <2>2, <3>2, AppendProperties, Zenon
    <3> HIDE DEF u
    <3>4. u \in [1 .. 3 -> Ids]
      BY <3>2, <3>3, LenProperties
    <3> QED BY <3>4 DEF u, Topic, DeviceTopics, DeviceTypes
  <2> QED BY <2>2, <2>3, <2>4, <2>5, SendKeepsInv
<1>9. CASE ArriveText
  <2>1. /\ stage = "start" /\ stage' = "text" /\ text' \in Texts
        /\ UNCHANGED <<identity, clock, call, sent, options, bytes, got, read>>
    BY <1>9 DEF ArriveText, reader
  <2>2. bytes = Garbage
    BY <2>1 DEF IInv, CallInv, OnWire
  <2> QED BY <2>1, <2>2, ArrivalKeepsInv
<1>10. CASE ArriveMetric
  <2>1. /\ stage = "start" /\ stage' = "text"
        /\ UNCHANGED <<identity, clock, call, sent, options, got, read>>
    BY <1>10 DEF ArriveMetric, reader
  <2>2. PICK type \in NodeTypes, id \in Ids : text' = Display(Topic(type, <<id, id>>))
    BY <1>10 DEF ArriveMetric
  <2>3. Topic(type, <<id, id>>) \in TopicSet
    <3>1. <<id, id>> \in [1 .. 2 -> Ids]
      OBVIOUS
    <3> QED BY <3>1, NodeAsTopic DEF TopicSet
  <2>4. IsForeign(bytes')
    BY <1>10, Zenon DEF ArriveMetric, IsForeign, ForeignBytes
  <2> QED BY <2>1, <2>2, <2>3, <2>4, ArrivalKeepsInv
<1>11. CASE Read
  <2>1. /\ stage = "text" /\ stage' = "parsed"
        /\ got' = Parse(text) /\ read' = DecodePayload(bytes)
        /\ UNCHANGED <<identity, clock, call, sent, text, options, bytes>>
    BY <1>11 DEF Read, wire
  <2>2. CallInv'
    BY <2>1 DEF IInv, CallInv, OnWire, Stages
  <2>3. SentInv' /\ TextInv' /\ BytesInv'
    BY <2>1 DEF IInv, SentInv, Role, TextInv, OnWire, BytesInv
  <2>4. ReadInv'
    BY <2>1 DEF ReadInv, Parsed
  <2> QED BY <2>2, <2>3, <2>4 DEF IInv
<1>12. CASE Answer
  <2>1. stage = "parsed" /\ got.kind = "ok"
    BY <1>12 DEF Answer
  <2>2. PICK node \in EdgeNodeOf(got.topic), seq \in Seqs :
          /\ call' = [kind |-> "metrics", topic |-> Topic("NCMD", node),
                      batch |-> Batch, at |-> clock, seq |-> seq]
          /\ Send(Topic("NCMD", node), CreatePayload(ProtoMetrics(Batch), clock, seq))
    BY <1>12 DEF Answer
  <2>3. got.topic \in TopicSet
    BY <2>1, ReadTopic DEF Parsed, Err, Errors
  <2>4. node \in [1 .. 2 -> Ids]
    BY <2>3, EdgeNode DEF TopicSet
  <2>5. Topic("NCMD", node) \in NodeTopics
    BY <2>4, NodeAsTopic DEF NodeTypes
  <2>6. /\ call' \in Calls /\ call'.kind = "metrics" /\ call'.batch = Batch
        /\ call'.at = clock /\ call'.seq = seq
    BY <2>2, <2>5 DEF Calls, Batches, IInv, CallInv, TopicSet
  <2> QED BY <2>2, <2>5, <2>6, SendKeepsInv
<1>13. CASE UNCHANGED vars
  BY <1>13 DEF IInv, CallInv, SentInv, TextInv, BytesInv, ReadInv, vars, OnWire, Parsed, Role
<1> QED BY <1>1, <1>2, <1>3, <1>4, <1>5, <1>6, <1>7, <1>8, <1>9, <1>10, <1>11, <1>12,
           <1>13 DEF Next

LEMMA Inductive == Spec => []IInv
BY InitInv, NextKeepsInv, PTL DEF Spec

----------------------------------------------------------------------------
(* The theorems.                                                           *)

\* What is on the wire is a sequence of segments.
LEMMA TextIsSegments ==
    ASSUME IInv
    PROVE  text \in Seq(Words \cup MessageTypes)
<1> DEFINE W == Words \cup MessageTypes
<1>1. CASE text = <<>>
  BY <1>1, EmptySeq
<1>2. CASE text \in Texts
  <2>1. PICK k \in 1 .. MaxParts : text \in [1 .. k -> Words]
    BY <1>2 DEF Texts
  <2>2. k \in Nat /\ text \in [1 .. k -> W]
    BY <2>1, MaxPartsAssumption
  <2> QED BY <2>2, FunctionIsSeq
<1>3. ASSUME NEW t \in TopicSet, text = Display(t)
      PROVE  text \in Seq(Words \cup MessageTypes)
  <2>1. /\ Version \in W /\ "STATE" \in W
        /\ \A w \in Usable : w \in W
        /\ \A type \in NodeTypes \cup DeviceTypes : type \in W
    BY VersionAssumption DEF Usable, MessageTypes
  <2> HIDE DEF W
  <2>2. CASE t \in NodeTopics
    <3> DEFINE type == t.type
    <3>1. PICK g \in Usable, n \in Usable : t = [type |-> type, ids |-> <<<<g>>, <<n>>>>]
      BY <2>2, TopicOf
    <3>2. type \in NodeTypes
      BY <2>2 DEF NodeTopics
    <3> HIDE DEF type
    <3>3. Display(t) = <<Version, g, type, n>>
      BY <3>1, <3>2, DisplayOf, Zenon
    <3>4. g \in W /\ n \in W /\ type \in W
      BY <2>1, <3>2
    <3>5. <<Version, g, type, n>> \in Seq(W)
      BY <2>1, <3>4
    <3> QED BY <1>3, <3>3, <3>5 DEF W
  <2>3. CASE t \in DeviceTopics
    <3> DEFINE type == t.type
    <3>1. PICK g \in Usable, n \in Usable, d \in Usable :
             t = [type |-> type, ids |-> <<<<g>>, <<n>>, <<d>>>>]
      BY <2>3, TopicOf
    <3>2. type \in DeviceTypes
      BY <2>3 DEF DeviceTopics
    <3> HIDE DEF type
    <3>3. Display(t) = <<Version, g, type, n, d>>
      BY <3>1, <3>2, DisplayOf, Zenon
    <3>4. g \in W /\ n \in W /\ d \in W /\ type \in W
      BY <2>1, <3>2
    <3>5. <<Version, g, type, n, d>> \in Seq(W)
      BY <2>1, <3>4
    <3> QED BY <1>3, <3>3, <3>5 DEF W
  <2>4. CASE t \in HostTopics
    <3>1. PICK h \in Usable : t = [type |-> "STATE", ids |-> <<<<h>>>>]
      BY <2>4, TopicOf
    <3>2. Display(t) = <<Version, "STATE", h>>
      BY <3>1, DisplayOf, Zenon
    <3>3. <<Version, "STATE", h>> \in Seq(W)
      BY <2>1
    <3> QED BY <1>3, <3>2, <3>3 DEF W
  <2> QED BY <2>2, <2>3, <2>4 DEF TopicSet
<1> QED BY <1>1, <1>2, <1>3 DEF IInv, CallInv, TextInv

\* The options of a message are of their type, whatever the role and the type.
LEMMA Options ==
    ASSUME NEW role, NEW type
    PROVE  WireOptions(role, type) \in [qos : {0, 1}, retain : BOOLEAN, tracked : BOOLEAN]
<1> DEFINE qos == IF role = "EdgeNode" THEN SpecQos(type) ELSE 1
           retain == SpecRetain(type)
           tracked == qos = 1
<1>1. qos \in {0, 1}
  BY DEF SpecQos
<1>2. retain \in BOOLEAN /\ tracked \in BOOLEAN
  BY Zenon DEF SpecRetain
<1>3. WireOptions(role, type) = [qos |-> qos, retain |-> retain, tracked |-> tracked]
  BY Zenon DEF WireOptions
<1> HIDE DEF qos, retain, tracked
<1> QED BY <1>1, <1>2, <1>3

\* Every variable of the message keeps its type.
THEOREM TypeCorrect == Spec => []TypeOK
<1>1. IInv => TypeOK
  <2> SUFFICES ASSUME IInv PROVE TypeOK
    OBVIOUS
  <2>1. identity \in Identities /\ clock \in Instants /\ stage \in Stages
    BY DEF IInv, CallInv
  <2>2. /\ call.kind \in {"none", "metrics", "birth"} /\ call.at \in Instants
        /\ call.seq \in Seqs /\ (call.topic = NoTopic \/ IsTopic(call.topic))
    <3>1. CASE call = NoCall
      BY <3>1, MaxClockAssumption DEF NoCall, Instants, Seqs
    <3>2. CASE call \in Calls
      BY <3>2, TopicsAre DEF Calls
    <3> QED BY <3>1, <3>2 DEF IInv, CallInv
  <2>3. sent = NoTopic \/ IsTopic(sent)
    BY TopicsAre DEF IInv, SentInv, TopicSet
  <2>4. options \in [qos : {0, 1}, retain : BOOLEAN, tracked : BOOLEAN]
    <3>1. CASE sent = NoTopic
      <4>1. options = NoOptions
        BY <3>1 DEF IInv, SentInv
      <4>2. NoOptions \in [qos : {0, 1}, retain : BOOLEAN, tracked : BOOLEAN]
        BY DEF NoOptions
      <4> QED BY <4>1, <4>2, Zenon
    <3>2. CASE sent # NoTopic
      BY <3>2, Options DEF IInv, SentInv
    <3> QED BY <3>1, <3>2
  <2>5. \/ got.kind = "ok" /\ IsTopic(got.topic)
        \/ got.kind \in Errors \cup {"none"} /\ got.topic = NoTopic
    <3>1. CASE Parsed
      BY <3>1, ReadTopic, TopicsAre DEF Err
    <3>2. CASE ~Parsed
      BY <3>2 DEF IInv, ReadInv, Err
    <3> QED BY <3>1, <3>2
  <2> QED BY <2>1, <2>2, <2>3, <2>4, <2>5, TextIsSegments
        DEF TypeOK, Stages, IInv, BytesInv
<1> QED BY <1>1, Inductive, PTL

\* A text made from a topic reads back as that topic, whatever identifiers it
\* holds, unless its group is named STATE (Display and Namespace::parse).
THEOREM RoundTrips == Spec => []RoundTripUnlessState
<1>1. IInv => RoundTripUnlessState
  <2> SUFFICES ASSUME IInv, Parsed, sent # NoTopic, sent.ids[1] # <<"STATE">>
               PROVE  got = Ok(sent)
    BY DEF RoundTripUnlessState
  <2>1. sent \in TopicSet /\ text = Display(sent)
    BY DEF IInv, SentInv, TopicSet
  <2>2. got = Parse(text)
    BY DEF IInv, ReadInv
  <2> QED BY <2>1, <2>2, RoundTrip
<1> QED BY <1>1, Inductive, PTL

\* A text that is read as a topic is the text that topic renders, so no two
\* texts are read as one topic (Namespace::parse).
THEOREM ParsingIsStrict == Spec => []ParseReadsWhatItRenders
<1>1. IInv => ParseReadsWhatItRenders
  <2> SUFFICES ASSUME IInv, Parsed, got.kind = "ok"
               PROVE  Display(got.topic) = text
    BY DEF ParseReadsWhatItRenders
  <2> QED BY ReadTopic DEF Err, Errors
<1> QED BY <1>1, Inductive, PTL

\* No two edge nodes whose identifiers pass their checks write the key of one
\* gate (key_of).
THEOREM KeysAreEdgeNodes == Spec => []KeyNamesOneEdgeNode
<1>1. IInv => KeyNamesOneEdgeNode
  <2> SUFFICES ASSUME IInv, sent # NoTopic, NEW pair \in EdgeNodeOf(sent),
                      NEW group \in Ids, NEW node \in Ids,
                      KeyOf(group, node) = KeyOf(pair[1], pair[2])
               PROVE  <<group, node>> = pair
    BY DEF KeyNamesOneEdgeNode
  <2>1. sent \in NodeTopics \cup DeviceTopics
    BY DEF IInv, SentInv
  <2>2. pair = <<sent.ids[1], sent.ids[2]>> /\ pair \in [1 .. 2 -> Ids]
    BY <2>1, EdgeNode
  <2>3. pair[1] \in Ids /\ pair[2] \in Ids /\ pair = <<pair[1], pair[2]>>
    BY <2>2
  <2>4. group = pair[1] /\ node = pair[2]
    BY <2>3, KeysDiffer
  <2> QED BY <2>3, <2>4
<1> QED BY <1>1, Inductive, PTL

\* The reader of a message finds the caller's metrics in the caller's order,
\* each with its instant, and reads each value under its datatype as the one
\* that was published (create_metric, to_proto, decode_payload).
THEOREM MetricsAreFound == Spec => []ReaderFindsTheMetrics
<1>1. IInv => ReaderFindsTheMetrics
  <2> SUFFICES ASSUME IInv, Parsed, call.kind = "metrics"
               PROVE  \E p \in read :
                         /\ p.seq = call.seq /\ p.timestamp = call.at
                         /\ Len(p.metrics) = Len(call.batch)
                         /\ \A i \in 1 .. Len(call.batch) :
                               Carries(p.metrics[i], call.batch[i])
    BY DEF ReaderFindsTheMetrics
  <2> DEFINE p == CreatePayload(ProtoMetrics(call.batch), call.at, call.seq)
  <2>1. bytes = Encode(p)
    BY DEF IInv, BytesInv, OnWire, Parsed
  <2>2. p \in read
    BY <2>1 DEF IInv, ReadInv, DecodePayload, Encode
  <2>3. /\ p.seq = call.seq /\ p.timestamp = call.at
        /\ p.metrics = ProtoMetrics(call.batch)
    BY DEF CreatePayload
  <2>4. call.batch \in Batches
    BY NoCallIsNone DEF IInv, CallInv, Calls
  <2> HIDE DEF p
  <2> QED BY <2>2, <2>3, <2>4, BatchIsCarried, Zenon
<1> QED BY <1>1, Inductive, PTL

\* Both certificates of a birth carry one instant, in the payload and in the
\* metric, however long the call waited between them (publish_birth).
THEOREM BirthsAreOneInstant == Spec => []BirthIsOneInstant
<1>1. IInv => BirthIsOneInstant
  <2> SUFFICES ASSUME IInv, Parsed, call.kind = "birth", NEW p \in read
               PROVE  {p.timestamp, p.metrics[1].timestamp} = {call.at}
    BY DEF BirthIsOneInstant
  <2>1. bytes \in {Encode(BirthCertificate(call.at, 0)),
                   Encode(DeviceBirthCertificate(call.at, 1))}
    BY DEF IInv, BytesInv, OnWire, Parsed
  <2>2. p \in {BirthCertificate(call.at, 0), DeviceBirthCertificate(call.at, 1)}
    BY <2>1 DEF IInv, ReadInv, DecodePayload, Encode
  <2>3. p.timestamp = call.at /\ p.metrics[1].timestamp = call.at
    <3>1. \A name : Rebirth(name, call.at)[1].timestamp = call.at
      BY DEF Rebirth, CreateMetric
    <3>2. CASE p = BirthCertificate(call.at, 0)
      <4>1. p.timestamp = call.at /\ p.metrics = Rebirth("Node Control/Rebirth", call.at)
        BY <3>2 DEF BirthCertificate
      <4> QED BY <3>1, <4>1, Zenon
    <3>3. CASE p = DeviceBirthCertificate(call.at, 1)
      <4>1. /\ p.timestamp = call.at
            /\ p.metrics = Rebirth("Device Control/Rebirth", call.at)
        BY <3>3 DEF DeviceBirthCertificate
      <4> QED BY <3>1, <4>1, Zenon
    <3> QED BY <2>2, <3>2, <3>3
  <2> QED BY <2>3
<1> QED BY <1>1, Inductive, PTL

\* No message that carries a seq is retained, and a publisher's are all tracked
\* (wire_options behind reserve_seq).
THEOREM SeqIsNeverRetained == Spec => []NothingWithASeqIsRetained
<1>1. IInv => NothingWithASeqIsRetained
  <2> SUFFICES ASSUME IInv, sent # NoTopic
               PROVE  ~options.retain /\ (Role = "Publisher" => options.tracked)
    BY DEF NothingWithASeqIsRetained
  <2>1. sent \in NodeTopics \cup DeviceTopics /\ options = WireOptions(Role, sent.type)
    BY DEF IInv, SentInv
  <2>2. sent.type # "STATE"
    BY <2>1 DEF NodeTopics, DeviceTopics, NodeTypes, DeviceTypes
  <2> QED BY <2>1, <2>2 DEF WireOptions, SpecRetain
<1> QED BY <1>1, Inductive, PTL

\* An edge-node client tracks an NDEATH and nothing else, whatever topics its
\* caller builds: that message is the one exception to "nothing is tracked"
\* (types.rs:178, wire_options).
THEOREM EdgeNodeTracksOnlyDeaths ==
    Spec => []((Role = "EdgeNode" /\ options.tracked) => sent.type = "NDEATH")
<1>1. IInv => ((Role = "EdgeNode" /\ options.tracked) => sent.type = "NDEATH")
  <2> SUFFICES ASSUME IInv, Role = "EdgeNode", options.tracked
               PROVE  sent.type = "NDEATH"
    OBVIOUS
  <2>1. sent # NoTopic
    BY DEF IInv, SentInv, NoOptions
  <2>2. sent \in NodeTopics \cup DeviceTopics /\ options = WireOptions(Role, sent.type)
    BY <2>1 DEF IInv, SentInv
  <2>3. sent.type # "STATE"
    BY <2>2 DEF NodeTopics, DeviceTopics, NodeTypes, DeviceTypes
  <2>4. options.tracked = (SpecQos(sent.type) = 1)
    BY <2>2 DEF WireOptions
  <2>5. SpecQos(sent.type) = 1
    BY <2>4
  <2> QED BY <2>3, <2>5 DEF SpecQos
<1> QED BY <1>1, Inductive, PTL

\* What a reader plots for a published integer is a double nearest to it: the
\* cast of numeric_value never loses more than rounding must (payload.rs).
THEOREM PlottingIsNearest == Spec => []PlotsTheNearestDouble
<1>1. IInv => PlotsTheNearestDouble
  <2> SUFFICES ASSUME IInv, Parsed, NEW p \in read, NEW i \in 1 .. Len(call.batch),
                      call.batch[i].value.kind = "Int"
               PROVE  \E d \in NumericValue(p.metrics[i]) :
                         \A e \in Doubles : Distance(d, call.batch[i].value.of)
                                               <= Distance(e, call.batch[i].value.of)
    BY DEF PlotsTheNearestDouble
  <2>1. call # NoCall /\ call.kind # "birth"
    BY DEF IInv, CallInv, NoCall
  <2>2. call \in Calls /\ call.kind = "metrics"
    BY <2>1 DEF IInv, CallInv, Calls
  <2> DEFINE q == CreatePayload(ProtoMetrics(call.batch), call.at, call.seq)
  <2>3. p = q
    <3>1. bytes = Encode(q)
      BY <2>2 DEF IInv, BytesInv, OnWire, Parsed
    <3> QED BY <3>1 DEF IInv, ReadInv, DecodePayload, Encode
  <2>4. p.metrics = ProtoMetrics(call.batch)
    BY <2>3 DEF CreatePayload
  <2> DEFINE v == call.batch[i].value
             n == v.of
  <2>5. v \in MetricValues
    BY <2>2, BatchValues DEF Calls
  <2>6. n \in Longs
    BY <2>5 DEF MetricValues
  <2>7. p.metrics[i].value = Value("LongValue", n)
    <3>1. p.metrics[i].value = WrittenFor(v)
      BY <2>4, BatchIsWritten
    <3> QED BY <3>1 DEF WrittenFor, FieldAndDatatype
  <2>8. NumericValue(p.metrics[i]) = {AsDouble(n)}
    BY <2>7 DEF NumericValue, Value
  <2>9. \A e \in Doubles : Distance(AsDouble(n), n) <= Distance(e, n)
    BY <2>6, AsDoubleIsNearest
  <2> QED BY <2>8, <2>9
<1> QED BY <1>1, Inductive, PTL

\* What the metrics of a message hold: what the crate writes for a value, or
\* what somebody else may write.
LEMMA ReadValues ==
    ASSUME IInv, Parsed, NEW p \in read, NEW i \in 1 .. Len(p.metrics)
    PROVE  p.metrics[i].value \in WrittenValues \cup Foreign
<1>1. bytes = Encode(p)
  <2>1. bytes.kind = "payload" /\ p = bytes.payload
    BY Zenon DEF IInv, ReadInv, DecodePayload
  <2>2. ~(bytes = Garbage)
    BY <2>1 DEF Garbage
  <2>3. \E q : bytes = Encode(q)
    BY <2>2, NoCallIsNone DEF IInv, BytesInv, CallInv, Calls, OnWire, Parsed, IsForeign, ForeignBytes
  <2> QED BY <2>1, <2>3 DEF Encode
<1>2. \A q, r : Encode(q) = Encode(r) => q = r
  BY DEF Encode
<1>3. CASE call = NoCall
  <2>1. bytes # Garbage
    BY <1>1 DEF Encode, Garbage
  <2>2. PICK v \in Foreign, code \in DOMAIN DataTypes : bytes = ForeignBytes(v, code)
    BY <1>3, <2>1 DEF IInv, BytesInv, OnWire, Parsed, IsForeign
  <2>3. p = CreatePayload(<<[name |-> "metric", value |-> v,
                             datatype |-> code, timestamp |-> 0]>>, 0, 0)
    BY <1>1, <1>2, <2>2, Zenon DEF ForeignBytes
  <2>4. p.metrics[i].value = v
    BY <2>3 DEF CreatePayload
  <2> QED BY <2>4
<1>4. CASE call.kind = "metrics"
  <2>1. call \in Calls
    BY <1>4, NoCallIsNone DEF IInv, CallInv
  <2>2. bytes = Encode(CreatePayload(ProtoMetrics(call.batch), call.at, call.seq))
    BY <1>4 DEF IInv, BytesInv, OnWire, Parsed
  <2>3. p.metrics = ProtoMetrics(call.batch)
    <3>1. p = CreatePayload(ProtoMetrics(call.batch), call.at, call.seq)
      BY <1>1, <1>2, <2>2, Zenon
    <3> QED BY <3>1 DEF CreatePayload
  <2>4. call.batch \in Batches
    BY <2>1 DEF Calls
  <2>5. i \in 1 .. Len(call.batch)
    BY <2>3, <2>4, BatchIsCarried
  <2>6. p.metrics[i].value = WrittenFor(call.batch[i].value)
    BY <2>3, <2>5, BatchIsWritten
  <2> QED BY <2>4, <2>5, <2>6, BatchValues DEF WrittenValues
<1>5. CASE call.kind = "birth"
  <2> DEFINE f == [kind |-> "Float", of |-> 0]
  <2>1. p \in {BirthCertificate(call.at, 0), DeviceBirthCertificate(call.at, 1)}
    BY <1>1, <1>2, <1>5, Zenon DEF IInv, BytesInv, OnWire, Parsed
  <2>2. PICK name : p.metrics = Rebirth(name, call.at)
    <3>1. CASE p = BirthCertificate(call.at, 0)
      <4>1. p.metrics = Rebirth("Node Control/Rebirth", call.at)
        BY <3>1 DEF BirthCertificate
      <4> QED BY <4>1
    <3>2. CASE p = DeviceBirthCertificate(call.at, 1)
      <4>1. p.metrics = Rebirth("Device Control/Rebirth", call.at)
        BY <3>2 DEF DeviceBirthCertificate
      <4> QED BY <4>1
    <3> QED BY <2>1, <3>1, <3>2
  <2>3. Len(p.metrics) = 1 /\ p.metrics[1].value = WrittenFor(f)
    BY <2>2 DEF Rebirth, CreateMetric, ToProto, WrittenFor
  <2>4. i = 1
    BY <2>3
  <2>5. f \in MetricValues
    BY SmallNumbers DEF MetricValues
  <2> QED BY <2>3, <2>4, <2>5 DEF WrittenValues
<1> QED BY <1>3, <1>4, <1>5, NoCallIsNone DEF IInv, CallInv, Calls

\* The pieces that format_value writes, by the field that is set.
LEMMA Formatted ==
    ASSUME NEW m
    PROVE  /\ m.value.field \in {"IntValue", "LongValue", "FloatValue", "DoubleValue",
                                 "BooleanValue"}
                 => FormatValue(m) = <<ToString(m.value.of)>>
           /\ m.value.field = "StringValue" => Len(FormatValue(m)) = 3
           /\ m.value.field = "BytesValue" => Len(FormatValue(m)) = 2
           /\ m.value.field = "none" => FormatValue(m) = <<"No value">>
           /\ m.value.field = "DatasetValue" => FormatValue(m) = <<"Unknown value type">>
BY DEF FormatValue

\* A reader plots a metric exactly if it prints like a number or a boolean
\* (numeric_value and format_value take the same fields).
THEOREM PlottingFollowsPrinting == Spec => []PlottedAsPrinted
<1> DEFINE Plain == {u \in MetricValues : u.kind # "String"}
           Printed(v) == FormatValue([value |-> ToProto(v).value])
           Fields == {"IntValue", "LongValue", "FloatValue", "DoubleValue", "BooleanValue"}
\* A plain value prints as the text of a number or a boolean.
<1>1. ASSUME NEW v \in Plain
      PROVE  /\ v.of \in Longs \cup Doubles \cup BOOLEAN
             /\ Printed(v) = <<ToString(v.of)>>
  <2>1. v.kind \in {"Float", "Bool", "Int"} /\ v.of \in Longs \cup Doubles \cup BOOLEAN
    BY DEF MetricValues
  <2> DEFINE m == [value |-> ToProto(v).value]
  <2>2. m.value.field \in Fields /\ m.value.of = v.of
    BY <2>1 DEF ToProto, Value, FieldAndDatatype
  <2> HIDE DEF m
  <2>3. FormatValue(m) = <<ToString(m.value.of)>>
    BY <2>2, Formatted
  <2> QED BY <2>1, <2>2, <2>3 DEF m
<1>2. ASSUME IInv, Parsed, NEW p \in read, NEW i \in 1 .. Len(p.metrics)
      PROVE  (NumericValue(p.metrics[i]) # {})
                <=> \E v \in Plain : FormatValue(p.metrics[i]) = Printed(v)
  <2> DEFINE m == p.metrics[i]
  <2>1. m.value \in WrittenValues \cup Foreign
    BY <1>2, ReadValues
  <2> HIDE DEF m, Printed
  <2>2. \/ m.value.field \in Fields
        \/ m.value.field \in {"StringValue", "BytesValue", "none", "DatasetValue"}
    BY <2>1 DEF WrittenValues, WrittenFor, MetricValues, FieldAndDatatype, Value,
                Foreign, NoValue
  <2>3. NumericValue(m) # {} <=> m.value.field \in Fields
    BY <2>2 DEF NumericValue
  <2>4. ASSUME m.value.field \in Fields
        PROVE  \E v \in Plain : FormatValue(m) = Printed(v)
    <3>1. m.value.of \in Longs \cup Doubles \cup BOOLEAN
      BY <2>1, <2>4 DEF WrittenValues, WrittenFor, MetricValues, FieldAndDatatype, Value,
                        Foreign, NoValue
    <3>2. \E v \in Plain : v.of = m.value.of
      <4>1. CASE m.value.of \in Longs
        <5>1. [kind |-> "Int", of |-> m.value.of] \in Plain
          BY <4>1 DEF MetricValues
        <5> QED BY <5>1
      <4>2. CASE m.value.of \in Doubles
        <5>1. [kind |-> "Float", of |-> m.value.of] \in Plain
          BY <4>2 DEF MetricValues
        <5> QED BY <5>1
      <4>3. CASE m.value.of \in BOOLEAN
        <5>1. [kind |-> "Bool", of |-> m.value.of] \in Plain
          BY <4>3 DEF MetricValues
        <5> QED BY <5>1
      <4> QED BY <3>1, <4>1, <4>2, <4>3
    <3>3. FormatValue(m) = <<ToString(m.value.of)>>
      BY <2>4, Formatted
    <3> HIDE DEF Plain
    <3> QED BY <1>1, <3>2, <3>3, Zenon
  <2>5. ASSUME m.value.field \notin Fields, NEW v \in Plain
        PROVE  FormatValue(m) # Printed(v)
    <3>1. /\ Printed(v) = <<ToString(v.of)>>
          /\ ToString(v.of) \notin {"No value", "Unknown value type"}
      BY <1>1, FormatAssumption, Zenon
    <3>2. \/ Len(FormatValue(m)) \in {2, 3}
          \/ FormatValue(m) \in {<<"No value">>, <<"Unknown value type">>}
      BY <2>2, <2>5, Formatted
    <3> DEFINE t == ToString(v.of)
               w == FormatValue(m)
    <3> HIDE DEF t, w
    <3>3. SUFFICES ASSUME w = <<t>>
                   PROVE  FALSE
      BY <3>1 DEF t, w
    <3>4. w[1] = t /\ Len(w) = 1
      BY <3>3
    <3>5. w \in {<<"No value">>, <<"Unknown value type">>}
      <4>1. Len(w) \in {2, 3} \/ w \in {<<"No value">>, <<"Unknown value type">>}
        BY <3>2 DEF w
      <4>2. Len(w) \notin {2, 3}
        <5> DEFINE n == Len(w)
        <5>1. n = 1
          BY <3>4
        <5> HIDE DEF n
        <5>2. n \notin {2, 3}
          BY <5>1
        <5> QED BY <5>2 DEF n
      <4> QED BY <4>1, <4>2, Zenon
    <3>6. t \in {"No value", "Unknown value type"}
      <4>1. CASE w = <<"No value">>
        <5>1. w[1] = "No value"
          BY <4>1
        <5> QED BY <3>4, <5>1, Zenon
      <4>2. CASE w = <<"Unknown value type">>
        <5>1. w[1] = "Unknown value type"
          BY <4>2
        <5> QED BY <3>4, <5>1, Zenon
      <4>3. w = <<"No value">> \/ w = <<"Unknown value type">>
        BY <3>5, Zenon
      <4> QED BY <4>1, <4>2, <4>3
    <3> QED BY <3>1, <3>6 DEF t
  <2> QED BY <2>3, <2>4, <2>5 DEF m
<1>3. IInv => PlottedAsPrinted
  BY <1>2 DEF PlottedAsPrinted
<1> QED BY <1>3, Inductive, PTL

=============================================================================
