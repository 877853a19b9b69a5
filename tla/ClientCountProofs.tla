------------------------- MODULE ClientCountProofs -------------------------
(***************************************************************************)
(* Proofs about what SparkplugClient counts: the tracker's count is what   *)
(* the link, the channel and the callers hold, and what the link drops is  *)
(* recorded as lost.                                                       *)
(*                                                                         *)
(* The second one adds up three facts. Every kept message and every        *)
(* publish that waits is in one of the tracker's totals, or is an answer   *)
(* (AccountInv). The count is not more than the publishes outstanding      *)
(* (DeliveryProofs). And of those each one waits, or has a message of its  *)
(* own on the way (CarryInv and RideInv). The messages that are left over  *)
(* were dropped, and what is left of the totals is the record.             *)
(***************************************************************************)
EXTENDS ClientProofs

----------------------------------------------------------------------------
(* The kept messages, as a function of the wires.                          *)

Kept(w) == {m \in EdgeNodes \X Nat : m[2] \in 1 .. Len(w[m[1]]) /\ w[m[1]][m[2]].kept}

\* KeptMessages is that of the wires.
LEMMA KeptIsKept == KeptMessages = Kept(wire) /\ KeptMessages' = Kept(wire')
<1>1. KeptMessages = Kept(wire)
  BY DEF KeptMessages, AllTaken, Kept
<1>2. KeptMessages' = Kept(wire')
  BY DEF KeptMessages, AllTaken, Kept
<1> QED BY <1>1, <1>2

\* One more message is one more kept message.
LEMMA KeptGrows ==
    ASSUME NEW w \in [EdgeNodes -> Seq(G!Taken)], NEW n \in EdgeNodes,
           NEW e \in G!Taken, e.kept, IsFiniteSet(Kept(w)),
           NEW v, v = [w EXCEPT ![n] = Append(@, e)]
    PROVE  IsFiniteSet(Kept(v)) /\ Cardinality(Kept(v)) = Cardinality(Kept(w)) + 1
<1> DEFINE m == <<n, Len(w[n]) + 1>>
<1>1. /\ Len(w[n]) \in Nat /\ Len(v[n]) = Len(w[n]) + 1
      /\ \A i \in 1 .. Len(w[n]) : v[n][i] = w[n][i]
      /\ v[n][Len(w[n]) + 1] = e
      /\ \A k \in EdgeNodes \ {n} : v[k] = w[k]
  <2>1. w[n] \in Seq(G!Taken) /\ v[n] = Append(w[n], e)
    OBVIOUS
  <2> QED BY <2>1
<1>2. Kept(v) = Kept(w) \cup {m}
  <2>1. ASSUME NEW k \in EdgeNodes, NEW i \in Nat
        PROVE  <<k, i>> \in Kept(v) <=> <<k, i>> \in Kept(w) \/ <<k, i>> = m
    <3>1. CASE k # n
      BY <1>1, <3>1 DEF Kept
    <3>2. CASE k = n
      BY <1>1, <3>2 DEF Kept
    <3> QED BY <3>1, <3>2
  <2>2. m \in EdgeNodes \X Nat
    BY <1>1
  <2>3. Kept(v) \subseteq EdgeNodes \X Nat /\ Kept(w) \subseteq EdgeNodes \X Nat
    BY DEF Kept
  <2>4. ASSUME NEW x \in EdgeNodes \X Nat
        PROVE  x \in Kept(v) <=> x \in Kept(w) \cup {m}
    <3>1. PICK k \in EdgeNodes, i \in Nat : x = <<k, i>>
      OBVIOUS
    <3> HIDE DEF m
    <3> QED BY <2>1, <3>1
  <2> HIDE DEF m
  <2> QED BY <2>2, <2>3, <2>4
<1>3. m \notin Kept(w)
  BY <1>1 DEF Kept
<1> HIDE DEF m
<1>4. /\ IsFiniteSet(Kept(w) \cup {m})
      /\ Cardinality(Kept(w) \cup {m}) = Cardinality(Kept(w)) + 1
  BY <1>3, FS_AddElement
<1> QED BY <1>2, <1>4, Zenon

\* A cut of the last message is one kept message less.
LEMMA KeptCuts ==
    ASSUME NEW w \in [EdgeNodes -> Seq(G!Taken)], NEW n \in EdgeNodes,
           Len(w[n]) > 0, w[n][Len(w[n])].kept, IsFiniteSet(Kept(w)),
           NEW v, v = [w EXCEPT ![n] = G!CutLast(@, 1)]
    PROVE  /\ IsFiniteSet(Kept(v)) /\ Cardinality(Kept(w)) \in Nat
           /\ Cardinality(Kept(v)) = Cardinality(Kept(w)) - 1
<1> DEFINE m == <<n, Len(w[n])>>
<1>1. /\ Len(w[n]) \in Nat /\ Len(v[n]) = Len(w[n])
      /\ \A i \in 1 .. Len(w[n]) : v[n][i].kept <=> w[n][i].kept /\ i # Len(w[n])
      /\ \A k \in EdgeNodes \ {n} : v[k] = w[k]
  <2>1. /\ w[n] \in Seq(G!Taken) /\ v[n] = G!CutLast(w[n], 1)
        /\ \A k \in EdgeNodes \ {n} : v[k] = w[k]
    OBVIOUS
  <2>2. ASSUME NEW s \in Seq(G!Taken)
        PROVE  /\ Len(G!CutLast(s, 1)) = Len(s) /\ Len(s) \in Nat
               /\ \A i \in 1 .. Len(s) : G!CutLast(s, 1)[i].kept <=> s[i].kept /\ i # Len(s)
    <3>1. Len(G!CutLast(s, 1)) = Len(s) /\ Len(s) \in Nat
      BY DEF G!CutLast
    <3>2. ASSUME NEW i \in 1 .. Len(s)
          PROVE  G!CutLast(s, 1)[i].kept <=> s[i].kept /\ i # Len(s)
      <4>1. CASE i + 1 > Len(s)
        <5>1. G!CutLast(s, 1)[i] = [s[i] EXCEPT !.kept = FALSE] /\ s[i] \in G!Taken
          BY <4>1 DEF G!CutLast
        <5>2. ~G!CutLast(s, 1)[i].kept
          BY <5>1 DEF G!Taken
        <5> QED BY <3>1, <4>1, <5>2
      <4>2. CASE ~(i + 1 > Len(s))
        <5>1. G!CutLast(s, 1)[i] = s[i]
          BY <4>2 DEF G!CutLast
        <5> QED BY <3>1, <4>2, <5>1
      <4> QED BY <4>1, <4>2
    <3> QED BY <3>1, <3>2
  <2> QED BY <2>1, <2>2
<1>2. Kept(v) = Kept(w) \ {m}
  <2>1. ASSUME NEW k \in EdgeNodes, NEW i \in Nat
        PROVE  <<k, i>> \in Kept(v) <=> <<k, i>> \in Kept(w) /\ <<k, i>> # m
    <3>1. CASE k # n
      BY <1>1, <3>1 DEF Kept
    <3>2. CASE k = n
      BY <1>1, <3>2 DEF Kept
    <3> QED BY <3>1, <3>2
  <2>2. Kept(v) \subseteq EdgeNodes \X Nat /\ Kept(w) \subseteq EdgeNodes \X Nat
    BY DEF Kept
  <2>3. ASSUME NEW x \in EdgeNodes \X Nat
        PROVE  x \in Kept(v) <=> x \in Kept(w) \ {m}
    <3>1. PICK k \in EdgeNodes, i \in Nat : x = <<k, i>>
      OBVIOUS
    <3> HIDE DEF m
    <3> QED BY <2>1, <3>1
  <2> HIDE DEF m
  <2> QED BY <2>2, <2>3
<1>3. m \in Kept(w)
  BY <1>1 DEF Kept
<1>4. Cardinality(Kept(w)) \in Nat
  BY FS_CardinalityType
<1>5. /\ IsFiniteSet(Kept(w) \ {m})
      /\ Cardinality(Kept(w) \ {m}) = Cardinality(Kept(w)) - 1
  BY <1>3, FS_RemoveElement
<1> HIDE DEF m
<1> QED BY <1>2, <1>4, <1>5

\* A call that sent nothing cuts nothing.
LEMMA NothingToCut ==
    ASSUME NEW w \in [EdgeNodes -> Seq(G!Taken)], NEW n \in EdgeNodes
    PROVE  [w EXCEPT ![n] = G!CutLast(@, 0)] = w
<1>1. ASSUME NEW s \in Seq(G!Taken)
      PROVE  G!CutLast(s, 0) = s
  <2>1. Len(s) \in Nat /\ s = [i \in 1 .. Len(s) |-> s[i]]
    OBVIOUS
  <2>2. \A i \in 1 .. Len(s) : ~(i + 0 > Len(s))
    BY <2>1
  <2>3. G!CutLast(s, 0) = [i \in 1 .. Len(s) |-> s[i]]
    BY <2>2 DEF G!CutLast
  <2> QED BY <2>1, <2>3
<1>2. G!CutLast(w[n], 0) = w[n]
  BY <1>1
<1> QED BY <1>2

----------------------------------------------------------------------------
(* What the tracker's totals add up to.                                    *)

Total(s) == s.unacked + s.lost + s.reported

\* A count adds one, a release takes away one at most, and what is lost or
\* reported is only moved.
LEMMA Totals ==
    ASSUME NEW s \in T!States
    PROVE  /\ Total(s) \in Nat
           /\ Total(T!CountPublish(s)) = Total(s) + 1
           /\ Total(T!ReleaseOne(s)) + 1 >= Total(s) /\ Total(T!ReleaseOne(s)) \in Nat
           /\ Total(T!LoseOutstanding(s)) = Total(s)
           /\ Total(T!ReportLost(s)) = Total(s)
<1>1. Total(s) \in Nat
  BY DEF Total, T!States
<1>2. Total(T!CountPublish(s)) = Total(s) + 1
  BY DEF Total, T!States, T!CountPublish
<1>3. Total(T!ReleaseOne(s)) + 1 >= Total(s) /\ Total(T!ReleaseOne(s)) \in Nat
  BY DEF Total, T!States, T!ReleaseOne
<1>5. Total(T!LoseOutstanding(s)) = Total(s)
  BY DEF Total, T!States, T!LoseOutstanding
<1>6. Total(T!ReportLost(s)) = Total(s)
  BY DEF Total, T!States, T!ReportLost
<1> QED BY <1>1, <1>2, <1>3, <1>5, <1>6

\* A rollback takes away one at most.
LEMMA RollBackTotal ==
    ASSUME NEW s \in T!States, NEW g
    PROVE  Total(T!RollBack(s, g)) + 1 >= Total(s) /\ Total(T!RollBack(s, g)) \in Nat
<1>1. T!RollBack(s, g) = s \/ T!RollBack(s, g) = T!ReleaseOne(s)
  BY DEF T!RollBack
<1> QED BY <1>1, Totals

----------------------------------------------------------------------------
(* Who has a message in the channel c, or in the flight a.                  *)

Riders(c) == {c[i].by : i \in 1 .. Len(c)}
Carriers(c, a) == Riders(c) \cup a

\* Nobody has two of them.
Apart(c, a) ==
    /\ \A i, k \in 1 .. Len(c) : c[i].by = c[k].by => i = k
    /\ Riders(c) \cap a = {}

\* A message enters the channel.
LEMMA RidersEnter ==
    ASSUME NEW c \in Seq(Entries), NEW a, NEW e \in Entries
    PROVE  /\ Carriers(Append(c, e), a) = Carriers(c, a) \cup {e.by}
           /\ Apart(c, a) /\ e.by \notin Carriers(c, a) => Apart(Append(c, e), a)
<1> DEFINE d == Append(c, e)
<1>1. /\ Len(c) \in Nat /\ Len(d) = Len(c) + 1 /\ d[Len(c) + 1] = e
      /\ \A i \in 1 .. Len(c) : d[i] = c[i]
  OBVIOUS
<1> HIDE DEF d
<1>2. Riders(d) = Riders(c) \cup {e.by}
  <2>1. ASSUME NEW x \in Riders(d)
        PROVE  x \in Riders(c) \cup {e.by}
    <3>1. PICK i \in 1 .. Len(d) : x = d[i].by
      BY DEF Riders
    <3>2. CASE i = Len(c) + 1
      BY <1>1, <3>1, <3>2
    <3>3. CASE i # Len(c) + 1
      <4>1. i \in 1 .. Len(c) /\ x = c[i].by
        BY <1>1, <3>1, <3>3
      <4> QED BY <4>1 DEF Riders
    <3> QED BY <3>2, <3>3
  <2>2. ASSUME NEW x \in Riders(c)
        PROVE  x \in Riders(d)
    <3>1. PICK i \in 1 .. Len(c) : x = c[i].by
      BY DEF Riders
    <3>2. i \in 1 .. Len(d) /\ x = d[i].by
      BY <1>1, <3>1
    <3> QED BY <3>2 DEF Riders
  <2>3. e.by \in Riders(d)
    <3>1. Len(c) + 1 \in 1 .. Len(d)
      BY <1>1
    <3> QED BY <1>1, <3>1 DEF Riders
  <2> QED BY <2>1, <2>2, <2>3
<1>3. ASSUME Apart(c, a), e.by \notin Carriers(c, a)
      PROVE  Apart(d, a)
  <2>1. \A i \in 1 .. Len(c) : c[i].by # e.by
    BY <1>3 DEF Carriers, Riders
  <2>2. ASSUME NEW i \in 1 .. Len(d), NEW k \in 1 .. Len(d), d[i].by = d[k].by
        PROVE  i = k
    <3>1. CASE i \in 1 .. Len(c) /\ k \in 1 .. Len(c)
      BY <1>1, <1>3, <2>2, <3>1 DEF Apart
    <3>2. CASE i = Len(c) + 1 \/ k = Len(c) + 1
      BY <1>1, <2>1, <2>2, <3>2
    <3> QED BY <1>1, <3>1, <3>2
  <2>3. Riders(d) \cap a = {}
    BY <1>2, <1>3 DEF Apart, Carriers
  <2> QED BY <2>2, <2>3 DEF Apart
<1> QED BY <1>2, <1>3 DEF d, Carriers

\* The loop writes the first message of the channel.
LEMMA RidersWrite ==
    ASSUME NEW c \in Seq(Entries), c # <<>>, NEW a, Apart(c, a)
    PROVE  /\ Carriers(Tail(c), a \cup {Head(c).by}) = Carriers(c, a)
           /\ Apart(Tail(c), a \cup {Head(c).by})
<1> DEFINE d == Tail(c)
           p == Head(c).by
<1>1. /\ Len(c) \in Nat /\ Len(c) > 0 /\ Len(d) = Len(c) - 1 /\ p = c[1].by
      /\ \A i \in 1 .. Len(d) : d[i] = c[i + 1] /\ i + 1 \in 1 .. Len(c)
      /\ 1 \in 1 .. Len(c)
  BY HeadTailProperties, EmptySeq
<1> HIDE DEF d, p
<1>2. Riders(c) = Riders(d) \cup {p}
  <2>1. ASSUME NEW x \in Riders(c)
        PROVE  x \in Riders(d) \cup {p}
    <3>1. PICK i \in 1 .. Len(c) : x = c[i].by
      BY DEF Riders
    <3>2. CASE i = 1
      BY <1>1, <3>1, <3>2
    <3>3. CASE i # 1
      <4>1. i - 1 \in 1 .. Len(d) /\ x = d[i - 1].by
        BY <1>1, <3>1, <3>3
      <4> QED BY <4>1 DEF Riders
    <3> QED BY <3>2, <3>3
  <2>2. ASSUME NEW x \in Riders(d)
        PROVE  x \in Riders(c)
    <3>1. PICK i \in 1 .. Len(d) : x = d[i].by
      BY DEF Riders
    <3>2. i + 1 \in 1 .. Len(c) /\ x = c[i + 1].by
      BY <1>1, <3>1
    <3> QED BY <3>2 DEF Riders
  <2>3. p \in Riders(c)
    BY <1>1 DEF Riders
  <2> QED BY <2>1, <2>2, <2>3
<1>3. p \notin Riders(d)
  <2> SUFFICES ASSUME p \in Riders(d) PROVE FALSE
    OBVIOUS
  <2>1. PICK i \in 1 .. Len(d) : p = d[i].by
    BY DEF Riders
  <2>2. i + 1 \in 1 .. Len(c) /\ c[i + 1].by = c[1].by /\ i + 1 # 1
    BY <1>1, <2>1
  <2> QED BY <1>1, <2>2 DEF Apart
<1>4. ASSUME NEW i \in 1 .. Len(d), NEW k \in 1 .. Len(d), d[i].by = d[k].by
      PROVE  i = k
  <2>1. /\ i + 1 \in 1 .. Len(c) /\ k + 1 \in 1 .. Len(c)
        /\ c[i + 1].by = c[k + 1].by
    BY <1>1, <1>4
  <2>2. i + 1 = k + 1
    BY <2>1 DEF Apart
  <2> QED BY <1>1, <2>2
<1>5. Apart(d, a \cup {p})
  BY <1>2, <1>3, <1>4 DEF Apart
<1>6. Carriers(d, a \cup {p}) = Carriers(c, a)
  BY <1>2 DEF Carriers
<1> QED BY <1>5, <1>6 DEF d, p

\* Each of them is one message.
LEMMA CarriersCount ==
    ASSUME NEW c \in Seq(Entries), NEW a, IsFiniteSet(a), Apart(c, a)
    PROVE  /\ IsFiniteSet(Carriers(c, a))
           /\ Cardinality(Carriers(c, a)) = Len(c) + Cardinality(a)
<1> DEFINE f == [i \in 1 .. Len(c) |-> c[i].by]
<1>1. Len(c) \in Nat
  OBVIOUS
<1>2. IsFiniteSet(1 .. Len(c)) /\ Cardinality(1 .. Len(c)) = Len(c)
  BY <1>1, FS_Interval
<1>3. f \in Bijection(1 .. Len(c), Riders(c))
  <2>1. f \in [1 .. Len(c) -> Riders(c)]
    BY DEF Riders
  <2>2. \A i, k \in 1 .. Len(c) : f[i] = f[k] => i = k
    BY DEF Apart
  <2>3. \A x \in Riders(c) : \E i \in 1 .. Len(c) : f[i] = x
    BY DEF Riders
  <2> HIDE DEF f
  <2>4. f \in Injection(1 .. Len(c), Riders(c))
    BY <2>1, <2>2 DEF Injection, IsInjective
  <2>5. f \in Surjection(1 .. Len(c), Riders(c))
    BY <2>1, <2>3 DEF Surjection
  <2> QED BY <2>4, <2>5 DEF Bijection
<1>4. IsFiniteSet(Riders(c)) /\ Cardinality(Riders(c)) = Len(c)
  <2>1. ExistsBijection(1 .. Len(c), Riders(c))
    BY <1>3 DEF ExistsBijection
  <2> QED BY <1>2, <2>1, FS_Bijection
<1>5. /\ IsFiniteSet(Carriers(c, a))
      /\ Cardinality(Carriers(c, a)) = Cardinality(Riders(c)) + Cardinality(a) - Cardinality({})
  <2>1. Riders(c) \cap a = {}
    BY DEF Apart
  <2>2. /\ IsFiniteSet(Riders(c) \cup a)
        /\ Cardinality(Riders(c) \cup a)
             = Cardinality(Riders(c)) + Cardinality(a) - Cardinality(Riders(c) \cap a)
    BY <1>4, FS_Union
  <2> QED BY <2>1, <2>2 DEF Carriers
<1>6. Cardinality(a) \in Nat
  BY FS_CardinalityType
<1> QED BY <1>1, <1>4, <1>5, <1>6, FS_EmptySet

----------------------------------------------------------------------------
(* What the tracker counts is what the link holds.                         *)

\* Who has a message in flight, and nobody has two.
Flying == {e.by : e \in inflight}
OneEach == \A e, f \in inflight : e.by = f.by => e = f

\* So there are as many in flight.
LEMMA FlyingCount ==
    ASSUME OneEach, IsFiniteSet(inflight)
    PROVE  IsFiniteSet(Flying) /\ Cardinality(Flying) = Cardinality(inflight)
<1> DEFINE f == [e \in inflight |-> e.by]
<1>1. f \in [inflight -> Flying] /\ \A e \in inflight : f[e] = e.by
  BY DEF Flying
<1>2. \A x \in Flying : \E e \in inflight : f[e] = x
  BY <1>1 DEF Flying
<1>3. \A e, g \in inflight : f[e] = f[g] => e = g
  BY <1>1 DEF OneEach
<1> HIDE DEF f
<1>4. f \in Injection(inflight, Flying)
  BY <1>1, <1>3 DEF Injection, IsInjective
<1>5. f \in Surjection(inflight, Flying)
  BY <1>1, <1>2 DEF Surjection
<1>6. ExistsBijection(inflight, Flying)
  BY <1>4, <1>5 DEF Bijection, ExistsBijection
<1> QED BY <1>6, FS_Bijection

\* A message that left its future has a fate.
FateInv == \A p \in Pubs : pub[p] \in {"taken", "returned"} => fate[p] # "none"

\* The messages on their way are the ones in the channel and in the flight, one
\* for each publish. Only a break that the loop has in hand, and did not record
\* yet, leaves some on their way that are gone.
CarryInv ==
    /\ Apart(chan, Flying) /\ OneEach
    /\ \A p \in Carriers(chan, Flying) : fate[p] = "out"
    /\ event = "none" =>
          \A p \in Pubs : fate[p] = "out" => p \in Carriers(chan, Flying)
    /\ link # "up" \/ event = "down" => inflight = {}

\* Every step of the tracker keeps FateInv.
LEMMA FateStep ==
    ASSUME T!TypeOK, FateInv, [T!Next]_(T!vars)
    PROVE  FateInv'
<1>1. /\ pub \in [Pubs -> {"new", "counted", "taken", "returned", "failed"}]
      /\ fate \in [Pubs -> {"none", "out", "acked", "gone"}]
  BY DEF T!TypeOK
<1>2. ASSUME UNCHANGED <<pub, fate>>
      PROVE  FateInv'
  BY <1>2 DEF FateInv
<1>3. ASSUME NEW p \in Pubs, T!PublishStep(p)
      PROVE  FateInv'
  <2>1. CASE T!Count(p) \/ T!Take(p) \/ T!Keep(p)
    BY <1>1, <2>1 DEF T!Count, T!Take, T!Keep, FateInv
  <2>2. CASE T!Fail(p) \/ T!CancelTaken(p)
    BY <1>1, <2>2 DEF T!Fail, T!CancelTaken, T!Release, FateInv
  <2>3. CASE T!Again(p)
    BY <1>1, <2>3 DEF T!Again, FateInv
  <2> QED BY <1>3, <2>1, <2>2, <2>3 DEF T!PublishStep
<1>4. CASE T!LoopStep
  BY <1>1, <1>4 DEF T!LoopStep, T!Ack, T!Disconnect, FateInv
<1>5. ASSUME NEW f \in Flushers, T!FlushStep(f)
      PROVE  FateInv'
  BY <1>2, <1>5 DEF T!FlushStep, T!Open, T!Register, T!Check, T!Wake, T!Report, T!Return,
     T!Timeout, T!CancelFlush, T!publishes
<1>6. ASSUME NEW a, T!NotifyWaiters(a)
      PROVE  FateInv'
  BY <1>2, <1>6 DEF T!NotifyWaiters, T!publishes
<1>7. CASE UNCHANGED T!vars
  BY <1>2, <1>7 DEF T!vars, T!publishes
<1> QED BY <1>3, <1>4, <1>5, <1>6, <1>7 DEF T!Next

\* Every step keeps CarryInv: a message enters the channel from its future, goes
\* on into the flight, and leaves it by its answer.
LEMMA CarryStep ==
    ASSUME GP!IInv, TP!IInv, T!TypeOK, LinkTypeOK, CarryInv, [Next]_vars
    PROVE  CarryInv'
<1>1. /\ chan \in Seq(Entries) /\ inflight \subseteq Entries
      /\ pub \in [Pubs -> {"new", "counted", "taken", "returned", "failed"}]
      /\ fate \in [Pubs -> {"none", "out", "acked", "gone"}]
      /\ event \in {"none", "down"}
  BY DEF LinkTypeOK, T!TypeOK
<1>2. \A p \in Pubs : pub[p] = "counted" => fate[p] = "none"
  BY DEF TP!IInv, TP!TicketInv
<1>3. Riders(chan) \subseteq Pubs /\ Flying \subseteq Pubs
  <2>1. \A i \in 1 .. Len(chan) : chan[i] \in Entries
    BY <1>1
  <2> QED BY <1>1, <2>1 DEF Riders, Flying, Entries
<1>4. ASSUME UNCHANGED <<chan, inflight, fate, event>>, link' = "up" \/ link' = link
      PROVE  CarryInv'
  <2>1. Flying' = Flying /\ (OneEach <=> OneEach')
    BY <1>4 DEF Flying, OneEach
  <2> QED BY <1>4, <2>1 DEF CarryInv
\* A message enters the channel.
<1>5. ASSUME NEW p \in Pubs, T!Take(p)
      PROVE  /\ fate' = [fate EXCEPT ![p] = "out"]
             /\ p \notin Carriers(chan, Flying)
             /\ \A q \in Pubs : fate'[q] = "out" <=> fate[q] = "out" \/ q = p
  <2>1. pub[p] = "counted" /\ fate' = [fate EXCEPT ![p] = "out"]
    BY <1>5 DEF T!Take
  <2>2. p \notin Carriers(chan, Flying)
    BY <1>2, <2>1 DEF CarryInv
  <2> QED BY <1>1, <2>1, <2>2
<1>6. ASSUME NEW p \in Pubs, SendWithRoom(p) \/ Pulls(p)
      PROVE  CarryInv'
  <2>1. /\ T!Take(p) /\ chan' = Append(chan, Enters(p))
        /\ UNCHANGED <<link, inflight, event>>
    BY <1>6 DEF SendWithRoom, Pulls
  <2>2. Enters(p) \in Entries /\ Enters(p).by = p
    BY <1>6, TakenGrows DEF Enters
  <2>3. /\ Carriers(chan', Flying') = Carriers(chan, Flying) \cup {p}
        /\ Apart(chan', Flying') /\ OneEach'
    <3>1. Flying' = Flying /\ OneEach'
      BY <2>1 DEF Flying, OneEach, CarryInv
    <3> QED BY <1>1, <1>5, <2>1, <2>2, <3>1, RidersEnter DEF CarryInv
  <2> QED BY <1>1, <1>3, <1>5, <2>1, <2>3 DEF CarryInv, Carriers
\* A message goes from the channel into the flight.
<1>7. ASSUME chan # <<>>, Writes(Head(chan))
      PROVE  /\ Carriers(Tail(chan), Flying') = Carriers(chan, Flying)
             /\ Apart(Tail(chan), Flying') /\ OneEach' /\ link = "up"
  <2>1. inflight' = inflight \cup {Head(chan)} /\ link = "up"
    BY <1>7 DEF Writes
  <2>2. Flying' = Flying \cup {Head(chan).by}
    BY <2>1 DEF Flying
  <2>3. Head(chan).by \notin Flying
    <3>1. 1 \in 1 .. Len(chan) /\ Head(chan) = chan[1]
      BY <1>1, <1>7, EmptySeq, HeadTailProperties
    <3> QED BY <3>1 DEF CarryInv, Apart, Riders
  <2>4. OneEach'
    BY <2>1, <2>3 DEF OneEach, Flying, CarryInv
  <2> QED BY <1>1, <1>7, <2>1, <2>2, <2>4, RidersWrite DEF CarryInv
<1>8. CASE WritesRequest
  <2>1. /\ chan # <<>> /\ Writes(Head(chan)) /\ chan' = Tail(chan)
        /\ UNCHANGED <<link, event, fate>> /\ event = "none"
    BY <1>8 DEF WritesRequest, Polls, trackerVars
  <2> QED BY <1>7, <2>1 DEF CarryInv
<1>9. ASSUME NEW p \in Pubs, WritesAndPulls(p)
      PROVE  CarryInv'
  <2>1. /\ chan # <<>> /\ Writes(Head(chan)) /\ chan' = Append(Tail(chan), Enters(p))
        /\ T!Take(p) /\ UNCHANGED <<link, event>> /\ event = "none"
    BY <1>9 DEF WritesAndPulls, Polls
  <2>2. Enters(p) \in Entries /\ Enters(p).by = p /\ Tail(chan) \in Seq(Entries)
    BY <1>9, <2>1, TakenGrows, WritesType DEF Enters
  <2>3. /\ Carriers(chan', Flying') = Carriers(chan, Flying) \cup {p}
        /\ Apart(chan', Flying') /\ OneEach' /\ link = "up"
    <3> DEFINE c == Tail(chan)
               a == Flying'
               e == Enters(p)
    <3>1. /\ Carriers(c, a) = Carriers(chan, Flying) /\ Apart(c, a) /\ OneEach'
          /\ link = "up"
          /\ e.by = p /\ p \notin Carriers(c, a) /\ e \in Entries /\ c \in Seq(Entries)
      BY <1>5, <1>7, <2>1, <2>2
    <3> HIDE DEF c, a, e
    <3>2. Carriers(Append(c, e), a) = Carriers(c, a) \cup {p} /\ Apart(Append(c, e), a)
      BY <3>1, RidersEnter
    <3> QED BY <2>1, <3>1, <3>2 DEF c, a, e
  <2> QED BY <1>1, <1>3, <1>5, <2>1, <2>3 DEF CarryInv, Carriers
\* A break and what comes of it.
<1>10. CASE LinkBreaks
  <2>1. chan' = <<>> /\ inflight' = {} /\ event' = "down" /\ fate' = fate
    BY <1>10 DEF LinkBreaks, LinkEvent, trackerVars
  <2> QED BY <2>1 DEF CarryInv, Apart, Carriers, Riders, Flying, OneEach
<1>11. CASE BrokerDisconnects \/ AttemptFails
  <2>1. chan' = chan /\ inflight' = {} /\ event' = "down" /\ fate' = fate
    BY <1>11 DEF BrokerDisconnects, AttemptFails, LinkEvent, CarryInv, trackerVars
  <2> QED BY <2>1 DEF CarryInv, Apart, Carriers, Flying, OneEach
<1>12. CASE ApplyDown
  <2>1. /\ inflight = {} /\ UNCHANGED <<link, chan, inflight>> /\ event' = "none"
        /\ T!Disconnect(Riders(chan))
    BY <1>12 DEF ApplyDown, CarryInv, Riders
  <2>2. fate' = [p \in Pubs |-> IF fate[p] = "out" /\ p \notin Riders(chan)
                                THEN "gone" ELSE fate[p]]
    BY <2>1 DEF T!Disconnect
  <2>3. \A p \in Pubs : fate'[p] = "out" <=> fate[p] = "out" /\ p \in Riders(chan)
    BY <1>1, <2>2
  <2>4. Flying = {} /\ Flying' = {} /\ OneEach'
    BY <2>1 DEF Flying, OneEach
  <2> QED BY <1>3, <2>1, <2>3, <2>4 DEF CarryInv, Carriers
\* An answer.
<1>13. ASSUME NEW e \in inflight, Ack(e)
       PROVE  CarryInv'
  <2> DEFINE p == e.by
  <2>1. /\ inflight' = inflight \ {e} /\ chan' = chan /\ p \in Pubs
        /\ fate' = [fate EXCEPT ![p] = "acked"] /\ UNCHANGED <<link, event>>
        /\ link = "up" /\ event = "none"
    BY <1>1, <1>13 DEF Ack, T!Ack, Polls, Entries
  <2>2. Flying' = Flying \ {p} /\ p \in Flying /\ OneEach'
    BY <2>1 DEF Flying, OneEach, CarryInv
  <2> HIDE DEF p
  <2>3. Carriers(chan', Flying') = Carriers(chan, Flying) \ {p}
        /\ Apart(chan', Flying')
    BY <2>1, <2>2 DEF CarryInv, Apart, Carriers
  <2>4. \A q \in Pubs : fate'[q] = "out" <=> fate[q] = "out" /\ q # p
    BY <1>1, <2>1
  <2> QED BY <1>1, <1>3, <2>1, <2>2, <2>3, <2>4 DEF CarryInv, Carriers
\* The next call of a task starts with a message that is on its way no more.
<1>14. ASSUME NEW p \in Pubs, NEW n \in EdgeNodes, NEW k \in {"data", "nbirth"},
              Call(p, n, k)
       PROVE  CarryInv'
  <2>1. UNCHANGED <<link, chan, inflight, event>>
    BY <1>14 DEF Call, linkVars
  <2>2. CASE UNCHANGED trackerVars
    BY <1>4, <2>1, <2>2 DEF trackerVars
  <2>3. CASE T!Again(p)
    <3>1. fate[p] # "out" /\ fate' = [fate EXCEPT ![p] = "none"]
      BY <2>3 DEF T!Again
    <3>2. \A q \in Pubs : fate'[q] = "out" <=> fate[q] = "out"
      BY <1>1, <3>1
    <3>3. Flying' = Flying /\ OneEach'
      BY <2>1 DEF Flying, OneEach, CarryInv
    <3> QED BY <1>1, <1>3, <2>1, <3>2, <3>3 DEF CarryInv, Carriers
  <2> QED BY <1>14, <2>2, <2>3 DEF Call
\* Nothing else moves a message.
<1>15. ASSUME NEW p \in Pubs, PublishStep(p)
       PROVE  CarryInv'
  <2>1. CASE Reserve(p) \/ Count(p) \/ Keep(p) \/ SendFindsFull(p) \/ Refused(p)
             \/ Resume(p) \/ CancelAtGate(p) \/ CancelWaiting(p) \/ CancelTaken(p)
    BY <1>4, <2>1 DEF Reserve, Count, T!Count, Keep, T!Keep, SendFindsFull, Refused, T!Fail,
       T!Release, Resume, CancelAtGate, CancelWaiting, CancelTaken, T!CancelTaken,
       linkVars, trackerVars
  <2> QED BY <1>6, <1>14, <1>15, <2>1 DEF PublishStep
<1>16. CASE LoopStep
  <2>1. CASE ConnectsAgain \/ LoopDies
    BY <1>4, <2>1 DEF ConnectsAgain, LoopDies, linkVars, trackerVars
  <2> QED BY <1>6, <1>8, <1>9, <1>10, <1>11, <1>12, <1>13, <1>16, <2>1 DEF LoopStep
<1>17. CASE FlushStep
  <2>1. UNCHANGED fate
    BY <1>17 DEF FlushStep, T!FlushStep, T!Open, T!Register, T!Check, T!Wake, T!Report,
       T!Return, T!Timeout, T!CancelFlush, T!NotifyWaiters, T!publishes
  <2> QED BY <1>4, <1>17, <2>1 DEF FlushStep, linkVars
<1>18. CASE UNCHANGED vars
  BY <1>4, <1>18 DEF vars, linkVars, trackerVars
<1> QED BY <1>15, <1>16, <1>17, <1>18 DEF Next

\* Both hold in every state.
LEMMA CarryInvariant == Spec => [](FateInv /\ CarryInv)
<1>1. Init => FateInv /\ CarryInv
  <2> SUFFICES ASSUME Init PROVE FateInv /\ CarryInv
    OBVIOUS
  <2>1. /\ chan = <<>> /\ inflight = {} /\ pub = [p \in Pubs |-> "new"]
        /\ fate = [p \in Pubs |-> "none"]
    BY DEF Init, T!Init
  <2>2. Riders(chan) = {}
    BY <2>1 DEF Riders
  <2> QED BY <2>1, <2>2 DEF FateInv, CarryInv, Apart, Carriers, Flying, OneEach
<1>2. TypeOK => T!TypeOK
  BY DEF TypeOK
<1> QED BY <1>1, <1>2, FateStep, CarryStep, TrackerStep, GateInvariant, TrackerInvariant,
           TypeCorrect, LinkTypeInvariant, PTL DEF Spec

\* When the loop has no event in hand, the tracker's count is what waits for the
\* client, what the channel holds and what is in flight, unless a message
\* outlived its count: the tracker neither loses nor invents a publish.
THEOREM CountIsTheLinks == Spec => []CountMatchesTheLink
<1>1. ASSUME TP!IInv, LinkTypeOK, T!TypeOK, FateInv, CarryInv, event = "none", ~stray
      PROVE  st.unacked = Len(chan) + Cardinality(inflight)
               + Cardinality({p \in Pubs : Counted(p) /\ ticket[p] = st.generation})
  <2> DEFINE Held == {p \in Pubs : Counted(p) /\ ticket[p] = st.generation}
             Moving == Carriers(chan, Flying)
  <2>1. st.unacked = Cardinality(TP!Outstanding)
    BY <1>1, SameCardinality DEF TP!IInv, TP!CountIsExact
  <2>2. /\ IsFiniteSet(inflight) /\ IsFiniteSet(Held)
        /\ Cardinality(inflight) \in Nat /\ Cardinality(Held) \in Nat
    BY <1>1, PubsAssumption, FS_Subset, FS_CardinalityType DEF LinkTypeOK
  <2>3. IsFiniteSet(Moving) /\ Cardinality(Moving) = Len(chan) + Cardinality(inflight)
    <3>1. IsFiniteSet(Flying) /\ Cardinality(Flying) = Cardinality(inflight)
      BY <1>1, FlyingCount DEF LinkTypeOK, CarryInv
    <3> QED BY <1>1, <3>1, CarriersCount DEF LinkTypeOK, CarryInv
  <2>4. Moving = {p \in Pubs : fate[p] = "out"}
    <3>1. Riders(chan) \subseteq Pubs
      <4>1. \A i \in 1 .. Len(chan) : chan[i] \in Entries
        BY <1>1 DEF LinkTypeOK
      <4> QED BY <4>1 DEF Riders, Entries
    <3>2. Moving \subseteq Pubs
      BY <1>1, <3>1 DEF LinkTypeOK, Carriers, Flying, Entries
    <3> QED BY <1>1, <3>2 DEF CarryInv
  <2>5. \A p \in Pubs : fate[p] = "out" =>
           pub[p] \in {"taken", "returned"} /\ ticket[p] = st.generation
    BY <1>1 DEF TP!IInv, TP!OutInv
  <2>6. \A p \in Pubs : pub[p] = "counted" => fate[p] = "none"
    BY <1>1 DEF TP!IInv, TP!TicketInv
  <2>7. \A p \in Pubs : p \in TP!Outstanding <=> p \in Held \/ fate[p] = "out"
    BY <1>1, <2>5, <2>6 DEF TP!Outstanding, Counted, FateInv
  <2>8. TP!Outstanding = Held \cup Moving /\ Held \cap Moving = {}
    BY <2>4, <2>6, <2>7 DEF TP!Outstanding, Counted
  <2>9. Len(chan) \in Nat
    BY <1>1 DEF LinkTypeOK
  <2> HIDE DEF Held, Moving
  <2>10. Cardinality(Held \cup Moving)
           = Cardinality(Held) + Cardinality(Moving) - Cardinality(Held \cap Moving)
    BY <2>2, <2>3, FS_Union
  <2>11. st.unacked = Cardinality(Held) + Len(chan) + Cardinality(inflight)
    <3>1. Cardinality(Held \cap Moving) = 0
      BY <2>8, FS_EmptySet
    <3>2. st.unacked = Cardinality(Held) + (Len(chan) + Cardinality(inflight)) - 0
      BY <2>1, <2>3, <2>8, <2>10, <3>1
    <3> QED BY <2>2, <2>9, <3>2
  <2>12. st.unacked = Len(chan) + Cardinality(inflight) + Cardinality(Held)
    BY <2>2, <2>9, <2>11
  <2> QED BY <2>12 DEF Held
<1>2. TypeOK => T!TypeOK
  BY DEF TypeOK
<1>3. TP!IInv /\ LinkTypeOK /\ TypeOK /\ FateInv /\ CarryInv => CountMatchesTheLink
  BY <1>1, <1>2 DEF CountMatchesTheLink
<1> QED BY <1>3, TrackerInvariant, LinkTypeInvariant, TypeCorrect, CarryInvariant, PTL
----------------------------------------------------------------------------
(* Which messages are on their way.                                        *)

InChan(c) == {c[i] : i \in 1 .. Len(c)}

\* A message enters the channel, and leaves it.
LEMMA InChanMoves ==
    ASSUME NEW c \in Seq(Entries)
    PROVE  /\ \A e \in Entries : InChan(Append(c, e)) = InChan(c) \cup {e}
           /\ c # <<>> => InChan(c) = InChan(Tail(c)) \cup {Head(c)}
           /\ InChan(c) \subseteq Entries
<1>1. ASSUME NEW e \in Entries
      PROVE  InChan(Append(c, e)) = InChan(c) \cup {e}
  <2> DEFINE d == Append(c, e)
  <2>1. /\ Len(c) \in Nat /\ Len(d) = Len(c) + 1 /\ d[Len(c) + 1] = e
        /\ \A i \in 1 .. Len(c) : d[i] = c[i]
    OBVIOUS
  <2> HIDE DEF d
  <2>2. \A i \in 1 .. Len(d) : i \in 1 .. Len(c) \/ i = Len(c) + 1
    BY <2>1
  <2>3. Len(c) + 1 \in 1 .. Len(d) /\ \A i \in 1 .. Len(c) : i \in 1 .. Len(d)
    BY <2>1
  <2>4. \A x \in InChan(d) : x \in InChan(c) \cup {e}
    BY <2>1, <2>2 DEF InChan
  <2>5. InChan(c) \subseteq InChan(d)
    <3> SUFFICES ASSUME NEW i \in 1 .. Len(c) PROVE c[i] \in InChan(d)
      BY DEF InChan
    <3>1. i \in 1 .. Len(d) /\ d[i] = c[i]
      BY <2>1, <2>3
    <3> QED BY <3>1 DEF InChan
  <2>6. e \in InChan(d)
    BY <2>1, <2>3 DEF InChan
  <2> QED BY <2>4, <2>5, <2>6 DEF d
<1>2. ASSUME c # <<>>
      PROVE  InChan(c) = InChan(Tail(c)) \cup {Head(c)}
  <2> DEFINE d == Tail(c)
  <2>1. /\ Len(c) \in Nat /\ Len(c) > 0 /\ Len(d) = Len(c) - 1 /\ Head(c) = c[1]
        /\ \A i \in 1 .. Len(d) : d[i] = c[i + 1]
    BY <1>2, HeadTailProperties, EmptySeq
  <2> HIDE DEF d
  <2>2. \A i \in 1 .. Len(c) : i = 1 \/ (i - 1 \in 1 .. Len(d) /\ d[i - 1] = c[i])
    BY <2>1
  <2>3. 1 \in 1 .. Len(c) /\ \A i \in 1 .. Len(d) : i + 1 \in 1 .. Len(c)
    BY <2>1
  <2>4. \A x \in InChan(c) : x \in InChan(d) \cup {Head(c)}
    BY <2>1, <2>2 DEF InChan
  <2>5. InChan(d) \subseteq InChan(c)
    <3> SUFFICES ASSUME NEW i \in 1 .. Len(d) PROVE d[i] \in InChan(c)
      BY DEF InChan
    <3>1. i + 1 \in 1 .. Len(c) /\ d[i] = c[i + 1]
      BY <2>1, <2>3
    <3> QED BY <3>1 DEF InChan
  <2>6. Head(c) \in InChan(c)
    BY <2>1, <2>3 DEF InChan
  <2> QED BY <2>4, <2>5, <2>6 DEF d
<1>3. InChan(c) \subseteq Entries
  BY DEF InChan
<1> QED BY <1>1, <1>2, <1>3

\* Only the client's taking of a message puts another one on its way.
LEMMA CarriedMoves ==
    ASSUME GP!IInv, LinkTypeOK, [Next]_vars
    PROVE  /\ Carried \subseteq Entries
           /\ \A p \in Pubs : SendWithRoom(p) \/ WritesAndPulls(p) \/ Pulls(p)
                 => Carried' \subseteq Carried \cup {Enters(p)}
           /\ ~(\E p \in Pubs : SendWithRoom(p) \/ WritesAndPulls(p) \/ Pulls(p))
                 => Carried' \subseteq Carried
<1>1. chan \in Seq(Entries) /\ inflight \subseteq Entries
  BY DEF LinkTypeOK
<1>2. Carried = inflight \cup InChan(chan) /\ Carried' = inflight' \cup InChan(chan')
  BY DEF Carried, InChan
<1>3. Carried \subseteq Entries
  BY <1>1, <1>2, InChanMoves
<1>4. ASSUME NEW p \in Pubs, SendWithRoom(p) \/ Pulls(p)
      PROVE  Carried' \subseteq Carried \cup {Enters(p)}
  <2>1. chan' = Append(chan, Enters(p)) /\ inflight' = inflight /\ Enters(p) \in Entries
    BY <1>4, TakenGrows DEF SendWithRoom, Pulls
  <2> QED BY <1>1, <1>2, <2>1, InChanMoves
<1>5. ASSUME chan # <<>>, Writes(Head(chan))
      PROVE  /\ Tail(chan) \in Seq(Entries)
             /\ inflight' \cup InChan(Tail(chan)) = Carried
  <2>1. inflight' = inflight \cup {Head(chan)} /\ Tail(chan) \in Seq(Entries)
    BY <1>5, WritesType DEF Writes
  <2> QED BY <1>1, <1>2, <1>5, <2>1, InChanMoves
<1>6. ASSUME NEW p \in Pubs, WritesAndPulls(p)
      PROVE  Carried' \subseteq Carried \cup {Enters(p)}
  <2>1. /\ chan # <<>> /\ Writes(Head(chan)) /\ chan' = Append(Tail(chan), Enters(p))
        /\ Enters(p) \in Entries
    BY <1>6, TakenGrows DEF WritesAndPulls
  <2>2. InChan(chan') = InChan(Tail(chan)) \cup {Enters(p)}
    BY <1>5, <2>1, InChanMoves
  <2> QED BY <1>2, <1>5, <2>1, <2>2
<1>7. ASSUME NEW p \in Pubs, PublishStep(p), ~SendWithRoom(p)
      PROVE  UNCHANGED <<chan, inflight>>
  BY <1>7 DEF PublishStep, Call, Reserve, Count, Keep, SendFindsFull, Refused, Resume,
     CancelAtGate, CancelWaiting, CancelTaken, linkVars
<1>8. CASE LinkBreaks \/ BrokerDisconnects
  <2>1. inflight' = {} /\ (chan' = <<>> \/ chan' = chan)
    BY <1>8 DEF LinkBreaks, BrokerDisconnects
  <2>2. InChan(<<>>) = {}
    BY DEF InChan
  <2> QED BY <1>2, <1>3, <1>4, <1>6, <2>1, <2>2
<1>9. CASE WritesRequest
  <2>1. chan # <<>> /\ Writes(Head(chan)) /\ chan' = Tail(chan)
    BY <1>9 DEF WritesRequest
  <2> QED BY <1>2, <1>3, <1>4, <1>5, <1>6, <2>1
<1>10. ASSUME NEW e \in inflight, Ack(e)
       PROVE  Carried' \subseteq Carried
  <2>1. inflight' = inflight \ {e} /\ chan' = chan
    BY <1>10 DEF Ack
  <2> QED BY <1>2, <2>1
<1>11. CASE ConnectsAgain \/ AttemptFails \/ ApplyDown \/ LoopDies \/ FlushStep \/ UNCHANGED vars
  <2>1. UNCHANGED <<chan, inflight>>
    BY <1>11 DEF ConnectsAgain, AttemptFails, ApplyDown, LoopDies, FlushStep, vars, linkVars
  <2> QED BY <1>2, <1>3, <1>4, <1>6, <2>1
<1>12. ASSUME UNCHANGED <<chan, inflight>>
       PROVE  Carried' \subseteq Carried
  BY <1>2, <1>12
<1> QED BY <1>3, <1>4, <1>6, <1>7, <1>8, <1>9, <1>10, <1>11, <1>12 DEF Next, LoopStep

\* Who holds a gate holds it alone.
LEMMA OneHolder ==
    ASSUME GP!IInv, NEW p \in Pubs, NEW q \in Pubs,
           pc[p] \in {"send", "full", "taken"}, pc[q] \in {"send", "full", "taken"},
           call[p].node = call[q].node
    PROVE  p = q
BY DEF GP!IInv, GP!GateInv, GP!CallOK, GP!Holding, GP!Node

\* A call that the client refuses, or that is dropped while it waits, cuts nothing.
LEMMA NothingIsCut ==
    ASSUME GP!IInv, KindInv, NEW p \in Pubs, Refused(p) \/ CancelWaiting(p)
    PROVE  wire' = wire
<1>1. pc[p] \in {"send", "full"} /\ took[p] = 0
  BY CallFacts DEF Refused, G!Refused, CancelWaiting, G!CancelWaiting
<1>2. /\ wire' = [wire EXCEPT ![call[p].node] = G!CutLast(@, took[p])]
      /\ call[p].node \in EdgeNodes
  BY DroppedCuts
<1>3. [wire EXCEPT ![call[p].node] = G!CutLast(@, 0)] = wire
  BY <1>2, GateFacts, NothingToCut
<1> QED BY <1>1, <1>2, <1>3

\* A message that was answered is not on its way, and one on its way was cut off
\* only if its publish failed: the last message of an edge node is the one of the
\* call that holds the gate.
RideOK(e) ==
    /\ e.at \in 1 .. Sent[e.node]
    /\ Message(e) \notin answered
    /\ pub[e.by] # "failed" => wire[e.node][e.at].kept
    /\ \A p \in Pubs : pc[p] = "taken" /\ call[p].node = e.node /\ e.at = Sent[e.node]
          => e.by = p

RideInv ==
    /\ \A m \in answered : m[2] \in 1 .. Sent[m[1]]
    /\ \A e \in Carried : RideOK(e)
    /\ \A e, f \in Carried : Message(e) = Message(f) => e = f

\* A step that takes no message, answers none and cuts none off keeps that.
LEMMA RideFrame ==
    ASSUME RideInv, Carried' \subseteq Carried, answered' = answered, wire' = wire,
           \A e \in Carried : pub'[e.by] # "failed" => pub[e.by] # "failed",
           \A p \in Pubs : pc'[p] = "taken" => pc[p] = "taken" /\ call'[p] = call[p]
    PROVE  RideInv'
<1>1. Sent' = Sent
  BY DEF Sent
<1>2. ASSUME NEW e \in Carried
      PROVE  RideOK(e)'
  <2>1. RideOK(e)
    BY DEF RideInv
  <2> QED BY <1>1, <2>1 DEF RideOK, Message
<1> QED BY <1>1, <1>2 DEF RideInv, Message

\* The client takes a message.
LEMMA RideTake ==
    ASSUME GP!IInv, KindInv, LinkTypeOK, T!TypeOK, RideInv, [Next]_vars,
           NEW p \in Pubs, SendWithRoom(p) \/ WritesAndPulls(p) \/ Pulls(p)
    PROVE  RideInv'
<1> DEFINE n == call[p].node
           x == Enters(p)
           b == [type |-> msg[p].type, seq |-> msg[p].seq, kept |-> TRUE]
<1>1. /\ n \in EdgeNodes /\ x.node = n /\ x.by = p /\ x.at = Sent[n] + 1
      /\ Sent \in [EdgeNodes -> Nat] /\ Sent' = [Sent EXCEPT ![n] = @ + 1]
      /\ wire' = [wire EXCEPT ![n] = Append(@, b)]
      /\ pc[p] \in {"send", "full"}
  BY TakenGrows DEF Grows, Enters
<1>2. /\ \A m \in EdgeNodes : \A i \in 1 .. Sent[m] : wire'[m][i] = wire[m][i]
      /\ wire'[n][Sent[n] + 1].kept
  <2>1. wire \in [EdgeNodes -> Seq(G!Taken)] /\ \A m \in EdgeNodes : Sent[m] = Len(wire[m])
    BY GateFacts DEF Sent
  <2>2. b.kept
    OBVIOUS
  <2> HIDE DEF b, n
  <2>3. ASSUME NEW m \in EdgeNodes
        PROVE  \A i \in 1 .. Sent[m] : wire'[m][i] = wire[m][i]
    <3>1. wire[m] \in Seq(G!Taken) /\ (wire'[m] = wire[m] \/ wire'[m] = Append(wire[m], b))
      BY <1>1, <2>1
    <3> QED BY <2>1, <3>1
  <2>4. wire'[n][Sent[n] + 1] = b
    <3>1. wire[n] \in Seq(G!Taken) /\ wire'[n] = Append(wire[n], b)
      BY <1>1, <2>1
    <3> QED BY <1>1, <2>1, <3>1
  <2> QED BY <2>2, <2>3, <2>4
<1>3. /\ answered' = answered /\ pub' = [pub EXCEPT ![p] = "taken"] /\ pub[p] = "counted"
      /\ Carried' \subseteq Carried \cup {x} /\ Carried \subseteq Entries
  BY CarriedMoves DEF SendWithRoom, WritesAndPulls, Pulls, T!Take
<1>4. /\ pc \in [Pubs -> {"idle", "gate", "send", "full", "taken"}]
      /\ call \in [Pubs -> [node : EdgeNodes, kind : G!Kinds] \cup {G!NoCall}]
      /\ pub \in [Pubs -> {"new", "counted", "taken", "returned", "failed"}]
  BY GateFacts DEF G!TypeOK, T!TypeOK
<1>5. ASSUME NEW q \in Pubs, pc'[q] = "taken"
      PROVE  /\ call'[q] = call[q]
             /\ call[q].node = n => q = p
             /\ q # p => pc[q] = "taken"
  <2>1. /\ \/ pc' = [pc EXCEPT ![p] = "idle"] /\ call' = [call EXCEPT ![p] = G!NoCall]
           \/ pc' = [pc EXCEPT ![p] = "send"] /\ call' = call
           \/ pc' = [pc EXCEPT ![p] = "taken"] /\ call' = call
    <3>1. CASE SendWithRoom(p)
      BY <3>1 DEF SendWithRoom, G!SendWithRoom, G!Continue, G!NextMessage, G!CommitAndDrop,
         G!EndCall
    <3>2. CASE WritesAndPulls(p) \/ Pulls(p)
      BY <3>2 DEF WritesAndPulls, Pulls, G!Pull
    <3> QED BY <3>1, <3>2
  <2>2. q # p => pc[q] = "taken"
    BY <1>4, <1>5, <2>1
  <2>3. call'[q] = call[q]
    BY <1>4, <1>5, <2>1
  <2>4. call[q].node = n => q = p
    BY <1>1, <2>2, OneHolder
  <2> QED BY <2>2, <2>3, <2>4
<1>6. \A m \in answered : m[1] \in EdgeNodes /\ m[2] \in Nat
  BY DEF LinkTypeOK
<1> HIDE DEF n, x, b
<1>7. \A m \in answered' : m[2] \in 1 .. Sent'[m[1]] /\ (m[1] = n => m[2] # Sent[n] + 1)
  <2> SUFFICES ASSUME NEW m \in answered
               PROVE  m[2] \in 1 .. Sent'[m[1]] /\ (m[1] = n => m[2] # Sent[n] + 1)
    BY <1>3
  <2>1. m[1] \in EdgeNodes /\ m[2] \in Nat /\ m[2] \in 1 .. Sent[m[1]]
    BY <1>6 DEF RideInv
  <2> QED BY <1>1, <2>1
<1>8. ASSUME NEW e \in Carried
      PROVE  RideOK(e)' /\ Message(e) # Message(x)
  <2>1. RideOK(e) /\ e.node \in EdgeNodes /\ e.at \in Nat /\ e.by \in Pubs
    BY <1>3 DEF RideInv, Entries
  <2>2. e.at \in 1 .. Sent'[e.node] /\ (e.node = n => e.at # Sent'[n] /\ e.at # Sent[n] + 1)
    BY <1>1, <2>1 DEF RideOK
  <2>3. pub'[e.by] # "failed" => wire'[e.node][e.at].kept
    <3>1. pub'[e.by] # "failed" => pub[e.by] # "failed"
      BY <1>3, <1>4, <2>1
    <3> QED BY <1>2, <2>1, <3>1 DEF RideOK
  <2>4. ASSUME NEW q \in Pubs, pc'[q] = "taken", call'[q].node = e.node, e.at = Sent'[e.node]
        PROVE  e.by = q
    <3>1. e.node # n /\ call[q].node = e.node /\ q # p
      BY <1>5, <2>2, <2>4 DEF n
    <3>2. pc[q] = "taken" /\ e.at = Sent[e.node]
      BY <1>1, <1>5, <2>1, <2>4, <3>1
    <3> QED BY <2>1, <3>1, <3>2 DEF RideOK
  <2>5. Message(e) \notin answered'
    BY <1>3, <2>1 DEF RideOK, Message
  <2>6. Message(e) # Message(x)
    BY <1>1, <2>2 DEF Message
  <2> QED BY <2>2, <2>3, <2>4, <2>5, <2>6 DEF RideOK, Message
<1>9. ASSUME NEW y, y = x
      PROVE  RideOK(y)'
  <2>1. y.at \in 1 .. Sent'[y.node]
    BY <1>1, <1>9
  <2>2. Message(y) \notin answered'
    BY <1>1, <1>7, <1>9 DEF Message
  <2>3. wire'[y.node][y.at].kept
    BY <1>1, <1>2, <1>9
  <2>4. ASSUME NEW q \in Pubs, pc'[q] = "taken", call'[q].node = y.node
        PROVE  y.by = q
    BY <1>1, <1>5, <1>9, <2>4
  <2> QED BY <2>1, <2>2, <2>3, <2>4 DEF RideOK, Message
<1>10. \A e \in Carried' : RideOK(e)'
  BY <1>3, <1>8, <1>9
<1>11. \A e, f \in Carried' : Message(e) = Message(f) => e = f
  BY <1>3, <1>8, Zenon DEF RideInv
<1> QED BY <1>7, <1>10, <1>11 DEF RideInv, Message

\* Every step keeps RideInv.
LEMMA RideStep ==
    ASSUME GP!IInv, KindInv, LinkTypeOK, T!TypeOK, CarryInv, RideInv, [Next]_vars
    PROVE  RideInv'
<1>1. /\ pc \in [Pubs -> {"idle", "gate", "send", "full", "taken"}]
      /\ call \in [Pubs -> [node : EdgeNodes, kind : G!Kinds] \cup {G!NoCall}]
      /\ pub \in [Pubs -> {"new", "counted", "taken", "returned", "failed"}]
      /\ Carried \subseteq Entries
  BY GateFacts, CarriedMoves DEF G!TypeOK, T!TypeOK
<1>2. \A e \in Carried : e.by \in Pubs
  BY <1>1 DEF Entries
<1>3. ASSUME NEW p \in Pubs, Refused(p) \/ CancelWaiting(p) \/ CancelTaken(p)
      PROVE  /\ UNCHANGED <<chan, inflight, answered>>
             /\ pub' = [pub EXCEPT ![p] = "failed"]
             /\ pc' = [pc EXCEPT ![p] = "idle"] /\ call' = [call EXCEPT ![p] = G!NoCall]
  BY <1>3 DEF Refused, G!Refused, CancelWaiting, G!CancelWaiting, CancelTaken,
     G!CancelTaken, G!DropUncommitted, G!EndCall, T!Fail, T!CancelTaken, T!Release, linkVars
<1>4. ASSUME NEW p \in Pubs, Refused(p) \/ CancelWaiting(p)
      PROVE  RideInv'
  <2>1. wire' = wire
    BY <1>4, NothingIsCut
  <2>2. Carried' = Carried
    BY <1>3, <1>4 DEF Carried
  <2>3. \A e \in Carried : pub'[e.by] # "failed" => pub[e.by] # "failed"
    BY <1>1, <1>2, <1>3, <1>4
  <2>4. \A q \in Pubs : pc'[q] = "taken" => pc[q] = "taken" /\ call'[q] = call[q]
    BY <1>1, <1>3, <1>4
  <2> QED BY <1>3, <1>4, <2>1, <2>2, <2>3, <2>4, RideFrame
\* The last message of the edge node is cut off, the one of p.
<1>5. ASSUME NEW p \in Pubs, CancelTaken(p)
      PROVE  RideInv'
  <2> DEFINE n == call[p].node
  <2>1. /\ pc[p] = "taken" /\ n \in EdgeNodes /\ Sent' = Sent
        /\ wire' = [wire EXCEPT ![n] = G!CutLast(@, 1)]
    BY <1>5, DroppedCuts, CallFacts DEF CancelTaken, G!CancelTaken
  <2>2. Carried' = Carried /\ answered' = answered
    BY <1>3, <1>5 DEF Carried
  <2>3. ASSUME NEW m \in EdgeNodes, NEW i \in 1 .. Sent[m], ~(m = n /\ i = Sent[n])
        PROVE  wire'[m][i].kept = wire[m][i].kept
    <3>1. wire \in [EdgeNodes -> Seq(G!Taken)] /\ Sent[m] = Len(wire[m]) /\ Sent[n] = Len(wire[n])
      BY <2>1, GateFacts DEF Sent
    <3>2. CASE m # n
      BY <2>1, <3>1, <3>2
    <3>3. CASE m = n
      <4> DEFINE w == wire[n]
      <4>1. wire'[n] = G!CutLast(w, 1) /\ w \in Seq(G!Taken)
        BY <2>1, <3>1
      <4>2. i \in 1 .. Len(w) /\ i # Len(w) /\ Len(w) \in Nat
        BY <2>3, <3>1, <3>3
      <4> HIDE DEF w
      <4>3. G!CutLast(w, 1)[i] = w[i]
        BY <4>2 DEF G!CutLast
      <4> QED BY <3>3, <4>1, <4>3 DEF w
    <3> QED BY <3>2, <3>3
  <2> HIDE DEF n
  <2>4. ASSUME NEW e \in Carried
        PROVE  RideOK(e)'
    <3>1. RideOK(e) /\ e.node \in EdgeNodes /\ e.by \in Pubs
      BY <1>1 DEF RideInv, Entries
    <3>2. ASSUME pub'[e.by] # "failed"
          PROVE  wire'[e.node][e.at].kept
      <4>1. e.by # p /\ pub[e.by] # "failed"
        BY <1>1, <1>3, <1>5, <3>1, <3>2
      <4>2. ~(e.node = n /\ e.at = Sent[n])
        BY <2>1, <3>1, <4>1 DEF RideOK, n
      <4> QED BY <2>3, <3>1, <4>1, <4>2 DEF RideOK
    <3>3. \A q \in Pubs : pc'[q] = "taken" => pc[q] = "taken" /\ call'[q] = call[q]
      BY <1>1, <1>3, <1>5
    <3> QED BY <2>1, <2>2, <3>1, <3>2, <3>3 DEF RideOK, Message
  <2> QED BY <2>1, <2>2, <2>4 DEF RideInv, Message
\* An answer, to one message only.
<1>6. ASSUME NEW e \in inflight, Ack(e)
      PROVE  RideInv'
  <2>1. /\ inflight' = inflight \ {e} /\ chan' = chan /\ answered' = answered \cup {Message(e)}
        /\ UNCHANGED <<pub, pc, call, wire>>
    BY <1>6 DEF Ack, T!Ack, gateVars
  <2>2. e \in Carried /\ RideOK(e) /\ Sent' = Sent
    BY <2>1 DEF Carried, RideInv, Sent
  <2>3. \A i \in 1 .. Len(chan) : chan[i] # e
    BY DEF CarryInv, Apart, Riders, Flying
  <2>4. \A g \in Carried' : g \in Carried /\ g # e
    BY <2>1, <2>3 DEF Carried
  <2>5. ASSUME NEW g \in Carried'
        PROVE  RideOK(g)'
    <3>1. RideOK(g) /\ Message(g) # Message(e)
      BY <2>2, <2>4 DEF RideInv
    <3> QED BY <2>1, <2>2, <3>1 DEF RideOK, Message
  <2>6. \A m \in answered' : m[2] \in 1 .. Sent'[m[1]]
    <3>1. Message(e)[2] \in 1 .. Sent[Message(e)[1]]
      BY <2>2 DEF RideOK, Message
    <3> QED BY <2>1, <2>2, <3>1 DEF RideInv
  <2> QED BY <2>1, <2>4, <2>5, <2>6 DEF RideInv, Message
\* Nothing else moves a message.
<1>7. ASSUME NEW p \in Pubs, NEW n \in EdgeNodes, NEW k \in {"data", "nbirth"},
             Call(p, n, k)
      PROVE  RideInv'
  <2>1. UNCHANGED <<chan, inflight, answered, wire>> /\ pc' = [pc EXCEPT ![p] = "gate"]
        /\ \A q \in Pubs \ {p} : call'[q] = call[q]
    BY <1>1, <1>7 DEF Call, G!Call, linkVars
  <2>2. \A e \in Carried : pub'[e.by] # "failed" => pub[e.by] # "failed"
    <3>1. CASE UNCHANGED trackerVars
      BY <3>1 DEF trackerVars
    <3>2. CASE T!Again(p)
      <4>1. fate[p] # "out" /\ pub' = [pub EXCEPT ![p] = "new"]
        BY <3>2 DEF T!Again
      <4>2. \A e \in Carried : fate[e.by] = "out"
        BY DEF CarryInv, Carriers, Riders, Flying, Carried
      <4> QED BY <1>1, <1>2, <4>1, <4>2
    <3> QED BY <1>7, <3>1, <3>2 DEF Call
  <2>3. \A q \in Pubs : pc'[q] = "taken" => pc[q] = "taken" /\ call'[q] = call[q]
    BY <1>1, <2>1
  <2>4. Carried' = Carried
    BY <2>1 DEF Carried
  <2> QED BY <2>1, <2>2, <2>3, <2>4, RideFrame
<1>8. ASSUME NEW p \in Pubs,
             Reserve(p) \/ Count(p) \/ Keep(p) \/ SendFindsFull(p) \/ Resume(p) \/ CancelAtGate(p)
      PROVE  RideInv'
  <2>1. UNCHANGED <<chan, inflight, answered, wire>>
    BY <1>8 DEF Reserve, G!Reserve, Count, Keep, SendFindsFull, G!SendFindsFull, Resume,
       G!Resume, CancelAtGate, G!CancelAtGate, linkVars, gateVars
  <2>2. pub' = pub \/ (pub[p] # "failed" /\ \E v : v # "failed" /\ pub' = [pub EXCEPT ![p] = v])
    BY <1>8 DEF Reserve, Count, T!Count, Keep, T!Keep, SendFindsFull, Resume, CancelAtGate,
       trackerVars
  <2>3. \A q \in Pubs : pc'[q] = "taken" => pc[q] = "taken" /\ call'[q] = call[q]
    <3>1. \/ UNCHANGED <<pc, call>>
          \/ \E v \in {"send", "full"} : pc' = [pc EXCEPT ![p] = v] /\ call' = call
          \/ pc' = [pc EXCEPT ![p] = "idle"] /\ call' = [call EXCEPT ![p] = G!NoCall]
      BY <1>8 DEF Reserve, G!Reserve, Count, Keep, SendFindsFull, G!SendFindsFull, Resume,
         G!Resume, G!Continue, G!NextMessage, G!CommitAndDrop, G!EndCall, CancelAtGate,
         G!CancelAtGate, gateVars
    <3> QED BY <1>1, <3>1
  <2>4. Carried' = Carried
    BY <2>1 DEF Carried
  <2>5. \A e \in Carried : pub'[e.by] # "failed" => pub[e.by] # "failed"
    BY <1>1, <1>2, <2>2
  <2> QED BY <2>1, <2>3, <2>4, <2>5, RideFrame
<1>9. CASE ConnectsAgain \/ AttemptFails \/ LinkBreaks \/ BrokerDisconnects
           \/ WritesRequest \/ ApplyDown \/ LoopDies \/ FlushStep \/ UNCHANGED vars
  <2>1. UNCHANGED <<pc, call, wire, answered>>
    BY <1>9 DEF ConnectsAgain, AttemptFails, LinkBreaks, G!Discard, BrokerDisconnects,
       WritesRequest, G!Drain, ApplyDown, LoopDies, G!Close, FlushStep, vars, linkVars, gateVars
  <2>2. pub' = pub
    BY <1>9 DEF ConnectsAgain, AttemptFails, LinkBreaks, BrokerDisconnects, WritesRequest,
       ApplyDown, T!Disconnect, LoopDies, FlushStep, T!FlushStep, T!Open, T!Register,
       T!Check, T!Wake, T!Report, T!Return, T!Timeout, T!CancelFlush, T!NotifyWaiters,
       T!publishes, vars, trackerVars
  <2>3. CASE \E p \in Pubs : SendWithRoom(p) \/ WritesAndPulls(p) \/ Pulls(p)
    BY <2>3, RideTake
  <2>4. CASE ~(\E p \in Pubs : SendWithRoom(p) \/ WritesAndPulls(p) \/ Pulls(p))
    BY <2>1, <2>2, <2>4, CarriedMoves, RideFrame
  <2> QED BY <2>3, <2>4
<1> QED BY <1>4, <1>5, <1>6, <1>7, <1>8, <1>9, RideTake DEF Next, PublishStep, LoopStep

\* So it holds in every state.
LEMMA RideInvariant == Spec => []RideInv
<1>1. Init => RideInv
  BY DEF Init, RideInv, Carried
<1>2. TypeOK => T!TypeOK
  BY DEF TypeOK
<1> QED BY <1>1, <1>2, RideStep, CarryInvariant, GateInvariant, KindInvariant, TypeCorrect,
           LinkTypeInvariant, PTL DEF Spec

----------------------------------------------------------------------------
(* What becomes of the kept messages.                                      *)

Waiting == {p \in Pubs : Counted(p)}
Answers == Cardinality(answered) + Total(st)

AccountInv ==
    /\ IsFiniteSet(Kept(wire))
    /\ Cardinality(Kept(wire)) + Cardinality(Waiting) <= Answers

\* Publishes wait one more, one less, or as many.
LEMMA WaitingMoves ==
    ASSUME NEW p \in Pubs, \A q \in Pubs \ {p} : pub'[q] = pub[q]
    PROVE  /\ Cardinality(Waiting) \in Nat /\ Cardinality(Waiting') \in Nat
           /\ pub[p] # "counted" /\ pub'[p] # "counted"
                 => Cardinality(Waiting') = Cardinality(Waiting)
           /\ pub[p] # "counted" /\ pub'[p] = "counted"
                 => Cardinality(Waiting') = Cardinality(Waiting) + 1
           /\ pub[p] = "counted" /\ pub'[p] # "counted"
                 => Cardinality(Waiting') + 1 = Cardinality(Waiting)
<1>1. /\ IsFiniteSet(Waiting) /\ IsFiniteSet(Waiting')
      /\ Cardinality(Waiting) \in Nat /\ Cardinality(Waiting') \in Nat
  BY PubsAssumption, FS_Subset, FS_CardinalityType DEF Waiting
<1>2. ASSUME pub[p] # "counted", pub'[p] # "counted"
      PROVE  Cardinality(Waiting') = Cardinality(Waiting)
  <2>1. Waiting' = Waiting
    BY <1>2 DEF Waiting, Counted
  <2> QED BY <2>1
<1>3. ASSUME pub[p] # "counted", pub'[p] = "counted"
      PROVE  Cardinality(Waiting') = Cardinality(Waiting) + 1
  <2>1. Waiting' = Waiting \cup {p} /\ p \notin Waiting
    BY <1>3 DEF Waiting, Counted
  <2> QED BY <1>1, <2>1, FS_AddElement
<1>4. ASSUME pub[p] = "counted", pub'[p] # "counted"
      PROVE  Cardinality(Waiting') + 1 = Cardinality(Waiting)
  <2>1. Waiting' = Waiting \ {p} /\ p \in Waiting
    BY <1>4 DEF Waiting, Counted
  <2>2. Cardinality(Waiting \ {p}) = Cardinality(Waiting) - 1
    BY <1>1, <2>1, FS_RemoveElement
  <2> QED BY <1>1, <2>1, <2>2
<1> QED BY <1>1, <1>2, <1>3, <1>4

\* Every step keeps the account.
LEMMA AccountStep ==
    ASSUME GP!IInv, KindInv, T!TypeOK, LinkTypeOK, RideInv, AccountInv, [Next]_vars
    PROVE  AccountInv'
<1>1. /\ wire \in [EdgeNodes -> Seq(G!Taken)] /\ st \in T!States
      /\ IsFiniteSet(answered) /\ Cardinality(answered) \in Nat
      /\ Total(st) \in Nat /\ Answers \in Nat
      /\ IsFiniteSet(Kept(wire)) /\ Cardinality(Kept(wire)) \in Nat
      /\ Cardinality(Kept(wire)) + Cardinality(Waiting) <= Answers
      /\ pub \in [Pubs -> {"new", "counted", "taken", "returned", "failed"}]
  <2>1. wire \in [EdgeNodes -> Seq(G!Taken)]
    BY GateFacts
  <2>2. /\ st \in T!States /\ IsFiniteSet(answered) /\ Cardinality(answered) \in Nat
        /\ pub \in [Pubs -> {"new", "counted", "taken", "returned", "failed"}]
    BY FS_CardinalityType DEF T!TypeOK, LinkTypeOK
  <2>3. Total(st) \in Nat /\ Answers \in Nat
    BY <2>2, Totals DEF Answers
  <2>4. IsFiniteSet(Kept(wire)) /\ Cardinality(Kept(wire)) \in Nat
    BY FS_CardinalityType DEF AccountInv
  <2> QED BY <2>1, <2>2, <2>3, <2>4 DEF AccountInv
<1>2. Cardinality(Waiting) \in Nat
  BY PubsAssumption, FS_Subset, FS_CardinalityType DEF Waiting
<1>3. ASSUME wire' = wire, Cardinality(Waiting') = Cardinality(Waiting),
             Answers' \in Nat, Answers' >= Answers
      PROVE  AccountInv'
  <2>1. IsFiniteSet(Kept(wire')) /\ Cardinality(Kept(wire')) = Cardinality(Kept(wire))
    BY <1>1, <1>3
  <2> QED BY <1>1, <1>2, <1>3, <2>1 DEF AccountInv
<1>4. ASSUME UNCHANGED <<pub, st, answered>>
      PROVE  Cardinality(Waiting') = Cardinality(Waiting) /\ Answers' = Answers
  <2>1. Waiting' = Waiting
    BY <1>4 DEF Waiting, Counted
  <2> QED BY <1>4, <2>1 DEF Answers
\* A message goes from its future to the client.
<1>5. ASSUME NEW p \in Pubs, SendWithRoom(p) \/ WritesAndPulls(p) \/ Pulls(p)
      PROVE  AccountInv'
  <2> DEFINE e == [type |-> msg[p].type, seq |-> msg[p].seq, kept |-> TRUE]
             n == call[p].node
  <2>1. wire' = [wire EXCEPT ![n] = Append(@, e)] /\ n \in EdgeNodes
    BY <1>5, TakenGrows DEF Grows
  <2>2. e \in G!Taken /\ e.kept
    <3>1. msg[p] \in G!Message
      BY GateFacts DEF G!TypeOK
    <3> QED BY <3>1 DEF G!Message, G!Taken
  <2>3. T!Take(p) /\ answered' = answered
    BY <1>5 DEF SendWithRoom, WritesAndPulls, Pulls
  <2>4. /\ pub[p] = "counted" /\ pub'[p] = "taken" /\ (\A q \in Pubs \ {p} : pub'[q] = pub[q]) /\ st' = st
    BY <1>1, <2>3 DEF T!Take, T!tracker
  <2>5. Cardinality(Waiting') \in Nat /\ Cardinality(Waiting') + 1 = Cardinality(Waiting)
    BY <2>4, WaitingMoves
  <2>6. Answers' = Answers
    BY <2>3, <2>4 DEF Answers
  <2> HIDE DEF e, n
  <2>7. IsFiniteSet(Kept(wire')) /\ Cardinality(Kept(wire')) = Cardinality(Kept(wire)) + 1
    BY <1>1, <2>1, <2>2, KeptGrows
  <2> QED BY <1>1, <1>2, <2>5, <2>6, <2>7 DEF AccountInv
\* The guard rolls its count back when the message did not leave.
<1>6. ASSUME NEW p \in Pubs, Refused(p) \/ CancelWaiting(p)
      PROVE  AccountInv'
  <2>1. wire' = wire
    BY <1>6, NothingIsCut
  <2>2. T!Fail(p) /\ answered' = answered
    BY <1>6 DEF Refused, CancelWaiting, linkVars
  <2>3. /\ pub[p] = "counted" /\ pub'[p] = "failed" /\ (\A q \in Pubs \ {p} : pub'[q] = pub[q])
        /\ st' = T!RollBack(st, ticket[p])
    BY <1>1, <2>2 DEF T!Fail, T!Release
  <2>4. Cardinality(Waiting') \in Nat /\ Cardinality(Waiting') + 1 = Cardinality(Waiting)
    BY <2>3, WaitingMoves
  <2>5. Answers' + 1 >= Answers /\ Answers' \in Nat
    <3>1. Total(st') + 1 >= Total(st) /\ Total(st') \in Nat
      BY <1>1, <2>3, RollBackTotal
    <3> QED BY <1>1, <2>2, <3>1 DEF Answers
  <2>6. IsFiniteSet(Kept(wire')) /\ Cardinality(Kept(wire')) = Cardinality(Kept(wire))
    BY <1>1, <2>1
  <2>7. Cardinality(Kept(wire')) + Cardinality(Waiting') <= Answers'
    <3> DEFINE k == Cardinality(Kept(wire))
               l == Cardinality(Kept(wire'))
               w == Cardinality(Waiting)
               x == Cardinality(Waiting')
               a == Answers
               b == Answers'
    <3>1. /\ k \in Nat /\ w \in Nat /\ x \in Nat /\ a \in Nat /\ b \in Nat
          /\ k + w <= a /\ b + 1 >= a
      BY <1>1, <1>2, <2>4, <2>5
    <3>2. l + x + 1 = k + w
      BY <1>1, <1>2, <2>4, <2>6
    <3>3. l \in Nat
      BY <2>6, FS_CardinalityType
    <3> HIDE DEF k, l, w, x, a, b
    <3>4. l + x <= b
      BY <3>1, <3>2, <3>3
    <3> QED BY <3>4 DEF l, x, b
  <2> QED BY <2>6, <2>7 DEF AccountInv
\* The guard rolls its count back, the message left, and its publish is cut off.
<1>7. ASSUME NEW p \in Pubs, CancelTaken(p)
      PROVE  AccountInv'
  <2> DEFINE n == call[p].node
  <2>1. /\ wire' = [wire EXCEPT ![n] = G!CutLast(@, 1)] /\ n \in EdgeNodes
        /\ Len(wire[n]) > 0 /\ wire[n][Len(wire[n])].kept
    BY <1>7, DroppedCuts, CallFacts DEF CancelTaken, G!CancelTaken
  <2>2. T!CancelTaken(p) /\ answered' = answered
    BY <1>7 DEF CancelTaken, linkVars
  <2>3. /\ pub[p] = "taken" /\ pub'[p] = "failed" /\ (\A q \in Pubs \ {p} : pub'[q] = pub[q])
        /\ st' = T!RollBack(st, ticket[p])
    BY <1>1, <2>2 DEF T!CancelTaken, T!Release
  <2>4. Cardinality(Waiting') = Cardinality(Waiting)
    BY <2>3, WaitingMoves
  <2>5. Answers' + 1 >= Answers /\ Answers' \in Nat
    <3>1. Total(st') + 1 >= Total(st) /\ Total(st') \in Nat
      BY <1>1, <2>3, RollBackTotal
    <3> QED BY <1>1, <2>2, <3>1 DEF Answers
  <2> HIDE DEF n
  <2>6. IsFiniteSet(Kept(wire')) /\ Cardinality(Kept(wire')) = Cardinality(Kept(wire)) - 1
    BY <1>1, <2>1, KeptCuts
  <2>7. Cardinality(Kept(wire')) + Cardinality(Waiting') <= Answers'
    <3> DEFINE k == Cardinality(Kept(wire))
               l == Cardinality(Kept(wire'))
               w == Cardinality(Waiting)
               x == Cardinality(Waiting')
               a == Answers
               b == Answers'
    <3>1. /\ k \in Nat /\ w \in Nat /\ x \in Nat /\ a \in Nat /\ b \in Nat
          /\ k + w <= a /\ b + 1 >= a
      BY <1>1, <1>2, <2>4, <2>5
    <3>2. l + x + 1 = k + w
      BY <1>1, <1>2, <2>4, <2>6
    <3>3. l \in Nat
      BY <2>6, FS_CardinalityType
    <3> HIDE DEF k, l, w, x, a, b
    <3>4. l + x <= b
      BY <3>1, <3>2, <3>3
    <3> QED BY <3>4 DEF l, x, b
  <2> QED BY <2>6, <2>7 DEF AccountInv
<1>8. ASSUME NEW p \in Pubs, NEW n \in EdgeNodes, NEW k \in {"data", "nbirth"},
             Call(p, n, k), wire' = wire
      PROVE  AccountInv'
  <2>1. answered' = answered
    BY <1>8 DEF Call, linkVars
  <2>2. CASE UNCHANGED trackerVars
    BY <1>1, <1>3, <1>4, <1>8, <2>1, <2>2 DEF trackerVars
  <2>3. CASE T!Again(p)
    <3>1. /\ pub[p] \in {"returned", "failed"} /\ pub'[p] = "new" /\ (\A q \in Pubs \ {p} : pub'[q] = pub[q])
          /\ st' = st
      BY <1>1, <2>3 DEF T!Again, T!tracker
    <3>2. Cardinality(Waiting') = Cardinality(Waiting)
      BY <3>1, WaitingMoves
    <3>3. Answers' = Answers
      BY <2>1, <3>1 DEF Answers
    <3> QED BY <1>1, <1>3, <1>8, <3>2, <3>3
  <2> QED BY <1>8, <2>2, <2>3 DEF Call
<1>9. ASSUME NEW p \in Pubs, Count(p)
      PROVE  AccountInv'
  <2>1. /\ pub[p] = "new" /\ pub'[p] = "counted" /\ (\A q \in Pubs \ {p} : pub'[q] = pub[q])
        /\ st' = T!CountPublish(st) /\ answered' = answered /\ wire' = wire
    BY <1>1, <1>9 DEF Count, T!Count, linkVars, gateVars
  <2>2. /\ Cardinality(Waiting') \in Nat
        /\ Cardinality(Waiting') = Cardinality(Waiting) + 1
    BY <2>1, WaitingMoves
  <2>3. Answers' = Answers + 1
    BY <1>1, <2>1, Totals DEF Answers
  <2> QED BY <1>1, <1>2, <2>1, <2>2, <2>3 DEF AccountInv
<1>10. ASSUME NEW p \in Pubs, Keep(p) \/ Resume(p)
       PROVE  AccountInv'
  <2>1. T!Keep(p) /\ wire' = wire /\ answered' = answered
    BY <1>10 DEF Keep, Resume, G!Resume, linkVars, gateVars
  <2>2. pub[p] = "taken" /\ pub'[p] = "returned" /\ (\A q \in Pubs \ {p} : pub'[q] = pub[q]) /\ st' = st
    BY <1>1, <2>1 DEF T!Keep, T!tracker
  <2>3. Cardinality(Waiting') = Cardinality(Waiting)
    BY <2>2, WaitingMoves
  <2>4. Answers' = Answers
    BY <2>1, <2>2 DEF Answers
  <2> QED BY <1>1, <1>3, <2>1, <2>3, <2>4
<1>11. ASSUME NEW e \in inflight, Ack(e)
       PROVE  AccountInv'
  <2>1. /\ st' = T!ReleaseOne(st) /\ answered' = answered \cup {Message(e)}
        /\ wire' = wire /\ pub' = pub
    BY <1>11 DEF Ack, T!Ack, gateVars
  <2>2. Cardinality(Waiting') = Cardinality(Waiting)
    <3>1. Waiting' = Waiting
      BY <2>1 DEF Waiting, Counted
    <3> QED BY <3>1
  <2>3. Answers' \in Nat /\ Answers' >= Answers
    <3>1. Total(st') + 1 >= Total(st) /\ Total(st') \in Nat
      BY <1>1, <2>1, Totals
    <3>2. Message(e) \notin answered
      BY DEF RideInv, RideOK, Carried
    <3>3. Cardinality(answered') = Cardinality(answered) + 1
      BY <1>1, <2>1, <3>2, FS_AddElement
    <3> QED BY <1>1, <2>1, <3>1, <3>3 DEF Answers
  <2> QED BY <1>3, <2>1, <2>2, <2>3
<1>12. CASE ApplyDown
  <2>1. /\ st' = T!LoseOutstanding(st) /\ answered' = answered /\ wire' = wire /\ pub' = pub
    BY <1>12 DEF ApplyDown, T!Disconnect, gateVars
  <2>2. Cardinality(Waiting') = Cardinality(Waiting)
    <3>1. Waiting' = Waiting
      BY <2>1 DEF Waiting, Counted
    <3> QED BY <3>1
  <2>3. Answers' = Answers
    BY <1>1, <2>1, Totals DEF Answers
  <2> QED BY <1>1, <1>3, <2>1, <2>2, <2>3
<1>13. CASE FlushStep
  <2>1. wire' = wire /\ answered' = answered
    BY <1>13 DEF FlushStep, gateVars, linkVars
  <2>2. pub' = pub /\ (st' = st \/ st' = T!ReportLost(st))
    BY <1>13 DEF FlushStep, T!FlushStep, T!Open, T!Register, T!Check, T!Wake, T!Report,
       T!Return, T!Timeout, T!CancelFlush, T!NotifyWaiters, T!publishes, T!tracker
  <2>3. Cardinality(Waiting') = Cardinality(Waiting)
    <3>1. Waiting' = Waiting
      BY <2>2 DEF Waiting, Counted
    <3> QED BY <3>1
  <2>4. Answers' = Answers
    BY <1>1, <2>1, <2>2, Totals DEF Answers
  <2> QED BY <1>1, <1>3, <2>1, <2>3, <2>4
<1>14. ASSUME wire' = wire, answered' = answered, UNCHANGED trackerVars
       PROVE  AccountInv'
  BY <1>1, <1>3, <1>4, <1>14 DEF trackerVars
<1>15. ASSUME NEW p \in Pubs, Reserve(p) \/ SendFindsFull(p) \/ CancelAtGate(p)
       PROVE  AccountInv'
  BY <1>14, <1>15 DEF Reserve, G!Reserve, SendFindsFull, G!SendFindsFull, CancelAtGate,
     G!CancelAtGate, linkVars
<1>16. CASE ConnectsAgain \/ AttemptFails \/ LinkBreaks \/ BrokerDisconnects
            \/ WritesRequest \/ LoopDies \/ UNCHANGED vars
  BY <1>14, <1>16 DEF ConnectsAgain, AttemptFails, LinkBreaks, G!Discard,
     BrokerDisconnects, WritesRequest, G!Drain, LoopDies, G!Close, linkVars, gateVars, vars
<1>17. ASSUME NEW p \in Pubs, PublishStep(p)
       PROVE  AccountInv'
  <2>1. ASSUME NEW n \in EdgeNodes, NEW k \in {"data", "nbirth"}, Call(p, n, k)
        PROVE  wire' = wire
    BY <2>1 DEF Call, G!Call
  <2> QED BY <1>5, <1>6, <1>7, <1>8, <1>9, <1>10, <1>15, <1>17, <2>1 DEF PublishStep
<1>18. CASE LoopStep
  BY <1>5, <1>11, <1>12, <1>16, <1>18 DEF LoopStep
<1> QED BY <1>13, <1>16, <1>17, <1>18 DEF Next

\* So it holds in every state.
LEMMA AccountInvariant == Spec => []AccountInv
<1>1. Init => AccountInv
  <2> SUFFICES ASSUME Init PROVE AccountInv
    OBVIOUS
  <2>1. wire = [n \in EdgeNodes |-> <<>>] /\ answered = {} /\ st = T!NothingOutstanding
        /\ pub = [p \in Pubs |-> "new"]
    BY DEF Init, G!Init, T!Init
  <2>2. Kept(wire) = {} /\ Waiting = {}
    BY <2>1 DEF Kept, Waiting, Counted
  <2>3. Answers = 0
    BY <2>1, FS_EmptySet DEF Answers, Total, T!NothingOutstanding
  <2> QED BY <2>2, <2>3, FS_EmptySet DEF AccountInv
<1>2. TypeOK => T!TypeOK
  BY DEF TypeOK
<1> QED BY <1>1, <1>2, AccountStep, RideInvariant, GateInvariant, KindInvariant,
           TypeCorrect, LinkTypeInvariant, PTL DEF Spec

----------------------------------------------------------------------------
(* What is lost is recorded.                                               *)

\* The publishes whose message is on its way, and not cut off.
Moving == {p \in Pubs : fate[p] = "out" /\ pub[p] # "failed"}

\* What the tracker still counts waits for the client or moves.
LEMMA UnackedIsHeld ==
    ASSUME T!TypeOK, TP!NeverOverstates, FateInv, TP!IInv
    PROVE  /\ IsFiniteSet(Moving)
           /\ st.unacked <= Cardinality(Waiting) + Cardinality(Moving)
<1>1. IsFiniteSet(Waiting) /\ IsFiniteSet(Moving)
  BY PubsAssumption, FS_Subset DEF Waiting, Moving
<1>2. TP!Outstanding \subseteq Waiting \cup Moving
  BY DEF TP!Outstanding, Waiting, Counted, Moving, FateInv, T!TypeOK
<1>3. /\ IsFiniteSet(Waiting \cup Moving)
      /\ Cardinality(TP!Outstanding) <= Cardinality(Waiting \cup Moving)
  BY <1>1, <1>2, FS_Union, FS_Subset
<1>4. /\ Cardinality(Waiting \cup Moving)
           = Cardinality(Waiting) + Cardinality(Moving) - Cardinality(Waiting \cap Moving)
      /\ IsFiniteSet(Waiting \cap Moving)
  BY <1>1, FS_Union, FS_Intersection
<1>5. st.unacked <= Cardinality(TP!Outstanding)
  BY SameCardinality DEF TP!NeverOverstates
<1>6. /\ IsFiniteSet(TP!Outstanding) /\ Cardinality(TP!Outstanding) \in Nat
      /\ Cardinality(Waiting) \in Nat /\ Cardinality(Moving) \in Nat
      /\ Cardinality(Waiting \cap Moving) \in Nat
      /\ Cardinality(Waiting \cup Moving) \in Nat
  BY <1>1, <1>2, <1>3, <1>4, FS_Subset, FS_CardinalityType
<1>7. st.unacked \in Nat
  BY DEF T!TypeOK, T!States
<1> DEFINE u == st.unacked
           o == Cardinality(TP!Outstanding)
           w == Cardinality(Waiting)
           m == Cardinality(Moving)
           i == Cardinality(Waiting \cap Moving)
           j == Cardinality(Waiting \cup Moving)
<1>8. /\ u \in Nat /\ o \in Nat /\ w \in Nat /\ m \in Nat /\ i \in Nat /\ j \in Nat
      /\ u <= o /\ o <= j /\ j = w + m - i
  BY <1>3, <1>4, <1>5, <1>6, <1>7
<1> HIDE DEF u, o, w, m, i, j
<1>9. u <= w + m
  BY <1>8
<1> QED BY <1>1, <1>9 DEF u, w, m

\* What moves is a kept message on its way, a message of its own for each.
LEMMA MovingIsKept ==
    ASSUME T!TypeOK, LinkTypeOK, CarryInv, RideInv, event = "none",
           IsFiniteSet(KeptMessages)
    PROVE  Cardinality(Moving) <= Cardinality(KeptMessages \cap OnTheWay)
<1> DEFINE Of(p) == CHOOSE e \in Carried : e.by = p
           f == [p \in Moving |-> Message(Of(p))]
<1>1. Carried \subseteq Entries
  <2>1. \A i \in 1 .. Len(chan) : chan[i] \in Entries
    BY DEF LinkTypeOK
  <2> QED BY <2>1 DEF LinkTypeOK, Carried
<1>2. ASSUME NEW p \in Moving
      PROVE  Of(p) \in Carried /\ Of(p).by = p /\ f[p] = Message(Of(p))
  <2>1. p \in Carriers(chan, Flying)
    BY <1>2 DEF CarryInv, Moving
  <2>2. \E e \in Carried : e.by = p
    BY <2>1 DEF Carriers, Riders, Flying, Carried
  <2> QED BY <2>2
<1> HIDE DEF Of
<1>3. ASSUME NEW p \in Moving
      PROVE  f[p] \in KeptMessages \cap OnTheWay
  <2> DEFINE e == Of(p)
  <2>1. e \in Carried /\ e.by = p /\ f[p] = Message(e)
    BY <1>2
  <2> HIDE DEF e, f
  <2>2. e.node \in EdgeNodes /\ e.at \in 1 .. Sent[e.node] /\ wire[e.node][e.at].kept
    BY <1>1, <2>1 DEF RideInv, RideOK, Moving, Entries
  <2>3. Message(e) \in KeptMessages
    BY <2>2 DEF Message, KeptMessages, AllTaken, Sent
  <2> QED BY <2>1, <2>3 DEF OnTheWay
<1>4. ASSUME NEW p \in Moving, NEW q \in Moving, f[p] = f[q]
      PROVE  p = q
  <2>1. Of(p) \in Carried /\ Of(q) \in Carried /\ Message(Of(p)) = Message(Of(q))
    BY <1>2, <1>4
  <2>2. Of(p) = Of(q)
    BY <2>1 DEF RideInv
  <2> QED BY <1>2, <2>2
<1>5. f \in Injection(Moving, KeptMessages \cap OnTheWay)
  <2>1. f \in [Moving -> KeptMessages \cap OnTheWay]
    BY <1>3
  <2> HIDE DEF f
  <2> QED BY <1>4, <2>1 DEF Injection, IsInjective
<1>6. IsFiniteSet(KeptMessages \cap OnTheWay)
  BY FS_Intersection, FS_Subset
<1> HIDE DEF f
<1> QED BY <1>5, <1>6, FS_Injection

\* A set without two that are disjoint.
LEMMA Without ==
    ASSUME NEW K, IsFiniteSet(K), NEW a, NEW o, a \cap o = {}
    PROVE  /\ IsFiniteSet(K \ (a \cup o)) /\ Cardinality(K \ (a \cup o)) \in Nat
           /\ Cardinality(K \cap a) \in Nat /\ Cardinality(K \cap o) \in Nat
           /\ Cardinality(K) \in Nat
           /\ Cardinality(K) = Cardinality(K \ (a \cup o))
                                 + Cardinality(K \cap a) + Cardinality(K \cap o)
<1>1. IsFiniteSet(K \cap a) /\ IsFiniteSet(K \cap o)
  BY FS_Intersection
<1>2. K \cap (a \cup o) = (K \cap a) \cup (K \cap o) /\ (K \cap a) \cap (K \cap o) = {}
  OBVIOUS
<1>3. Cardinality(K \cap (a \cup o)) = Cardinality(K \cap a) + Cardinality(K \cap o) - 0
  BY <1>1, <1>2, FS_Union, FS_EmptySet
<1>4. /\ IsFiniteSet(K \ (a \cup o))
      /\ Cardinality(K \ (a \cup o)) = Cardinality(K) - Cardinality(K \cap (a \cup o))
  BY FS_Difference
<1>5. /\ Cardinality(K) \in Nat /\ Cardinality(K \ (a \cup o)) \in Nat
      /\ Cardinality(K \cap a) \in Nat /\ Cardinality(K \cap o) \in Nat
  BY <1>1, <1>4, FS_CardinalityType
<1> QED BY <1>3, <1>4, <1>5

\* What the three of them come to, in one state.
LEMMA LossesAdd ==
    ASSUME T!TypeOK, LinkTypeOK, TP!IInv, TP!NeverOverstates, FateInv, CarryInv, RideInv,
           AccountInv, event = "none"
    PROVE  Cardinality(Dropped) <= st.lost + st.reported + Cardinality(answered \ KeptMessages)
<1>1. /\ IsFiniteSet(KeptMessages)
      /\ Cardinality(KeptMessages) + Cardinality(Waiting) <= Answers
  BY KeptIsKept DEF AccountInv
<1>2. /\ st.unacked \in Nat /\ st.lost \in Nat /\ st.reported \in Nat
      /\ Answers = Cardinality(answered) + (st.unacked + st.lost + st.reported)
  BY DEF T!TypeOK, T!States, Answers, Total
<1>3. st.unacked <= Cardinality(Waiting) + Cardinality(Moving)
  BY UnackedIsHeld
<1>4. Cardinality(Moving) <= Cardinality(KeptMessages \cap OnTheWay)
  BY <1>1, MovingIsKept
<1>5. answered \cap OnTheWay = {}
  BY DEF RideInv, RideOK, OnTheWay
<1>6. /\ Cardinality(Dropped) \in Nat
      /\ Cardinality(KeptMessages \cap answered) \in Nat
      /\ Cardinality(KeptMessages \cap OnTheWay) \in Nat
      /\ Cardinality(KeptMessages)
           = Cardinality(Dropped) + Cardinality(KeptMessages \cap answered)
               + Cardinality(KeptMessages \cap OnTheWay)
  BY <1>1, <1>5, Without DEF Dropped
<1>7. /\ Cardinality(answered \ KeptMessages) \in Nat
      /\ Cardinality(answered)
           = Cardinality(answered \ KeptMessages) + Cardinality(KeptMessages \cap answered)
  <2>1. IsFiniteSet(answered)
    BY DEF LinkTypeOK
  <2>2. answered \cap KeptMessages = KeptMessages \cap answered
    OBVIOUS
  <2>3. /\ IsFiniteSet(answered \ KeptMessages)
        /\ Cardinality(answered \ KeptMessages)
             = Cardinality(answered) - Cardinality(KeptMessages \cap answered)
    BY <2>1, <2>2, FS_Difference
  <2> QED BY <1>6, <2>1, <2>3, FS_CardinalityType
<1>8. Cardinality(Waiting) \in Nat /\ Cardinality(Moving) \in Nat
  BY PubsAssumption, FS_Subset, FS_CardinalityType DEF Waiting, Moving
<1> DEFINE k == Cardinality(KeptMessages)
           w == Cardinality(Waiting)
           m == Cardinality(Moving)
           a == Cardinality(answered)
           u == st.unacked
           l == st.lost
           r == st.reported
           d == Cardinality(Dropped)
           ka == Cardinality(KeptMessages \cap answered)
           ko == Cardinality(KeptMessages \cap OnTheWay)
           c == Cardinality(answered \ KeptMessages)
<1>9. /\ w \in Nat /\ m \in Nat /\ u \in Nat /\ l \in Nat /\ r \in Nat
      /\ d \in Nat /\ ka \in Nat /\ ko \in Nat /\ c \in Nat
      /\ k = d + ka + ko /\ a = c + ka
      /\ k + w <= a + (u + l + r) /\ u <= w + m /\ m <= ko
  BY <1>1, <1>2, <1>3, <1>4, <1>6, <1>7, <1>8
<1> HIDE DEF k, w, m, a, u, l, r, d, ka, ko, c
<1>10. d <= l + r + c
  BY <1>9
<1> QED BY <1>10 DEF l, r, d, c

\* What the link drops is recorded: when the loop has no event in hand, flush
\* told of or will tell of as many losses as messages were dropped, except that
\* the PubAck of a message whose publish was cut off may hide one
\* (README.md:177, "instead of hiding it").
THEOREM LossesAreOnRecord == Spec => []LossesAreRecorded
<1>1. ASSUME TypeOK, LinkTypeOK, TP!IInv, TP!NeverOverstates, FateInv, CarryInv, RideInv,
             AccountInv
      PROVE  LossesAreRecorded
  BY <1>1, LossesAdd DEF LossesAreRecorded, TypeOK
<1>2. (T!Init => TP!Init) /\ ([T!Next]_(T!vars) => [TP!Next]_(TP!vars))
  BY SameTracker
<1>3. TP!Spec => []TP!NeverOverstates
  BY TP!CountNeverOverstates, TrackerAssumptions
<1> QED BY <1>1, <1>2, <1>3, ClientFollowsTheTracker, TypeCorrect, LinkTypeInvariant,
           TrackerInvariant, CarryInvariant, RideInvariant, AccountInvariant, PTL
           DEF T!Spec, TP!Spec

\* Every message that the link dropped has its place in the record.
EveryLossIsRecorded ==
    event = "none" => Cardinality(Dropped) <= st.lost + st.reported

\* Without a cancellation at the instant the client takes a message nothing
\* hides a loss, whichever messages outlive their counts and whichever counts
\* late answers clear.
THEOREM NoLossIsHiddenOutsideTheWindow ==
    ASSUME CancelWindow = FALSE
    PROVE  Spec => []EveryLossIsRecorded
<1>1. Init => GP!NothingCut
  BY DEF Init, G!Init, GP!NothingCut, G!NoCall
<1>2. GP!IInv /\ GP!NothingCut /\ [Next]_vars => GP!NothingCut'
  BY GateStep, SameGate, GP!NothingCutStep, GateAssumptions
<1>3. ASSUME GP!NothingCut, TypeOK, LinkTypeOK, RideInv, LossesAreRecorded
      PROVE  EveryLossIsRecorded
  <2>1. ASSUME NEW x \in answered
        PROVE  x \in KeptMessages
    <3>1. x \in EdgeNodes \X Nat /\ x[2] \in 1 .. Sent[x[1]]
      BY <1>3 DEF LinkTypeOK, RideInv
    <3>2. x[1] \in EdgeNodes /\ x[2] \in 1 .. Len(wire[x[1]]) /\ x = <<x[1], x[2]>>
      BY <3>1 DEF Sent
    <3>3. wire[x[1]][x[2]].kept
      BY <1>3, <3>2 DEF GP!NothingCut
    <3> QED BY <3>2, <3>3 DEF KeptMessages, AllTaken
  <2>2. answered \ KeptMessages = {}
    BY <2>1
  <2>3. Cardinality(answered \ KeptMessages) = 0
    BY <2>2, FS_EmptySet
  <2>4. st.lost \in Nat /\ st.reported \in Nat
    BY <1>3 DEF TypeOK, T!TypeOK, T!States
  <2>5. st.lost + st.reported + 0 = st.lost + st.reported
    BY <2>4
  <2> QED BY <1>3, <2>3, <2>5 DEF LossesAreRecorded, EveryLossIsRecorded
<1> QED BY <1>1, <1>2, <1>3, LossesAreOnRecord, GateInvariant, TypeCorrect,
           LinkTypeInvariant, RideInvariant, PTL DEF Spec
=============================================================================
