------------------------- MODULE SeqGateRefinement -------------------------
(***************************************************************************)
(* SeqGate implements AtomicPublish: with the messages of a call that is   *)
(* still running cut off the wire, and the count a rollback would restore, *)
(* every publish is one step, the one that commits or drops its            *)
(* reservation after the MQTT client took a message. Every other step of   *)
(* SeqGate is a stutter.                                                   *)
(***************************************************************************)
EXTENDS SeqGateProofs

----------------------------------------------------------------------------
(* The last messages of a wire.                                            *)

\* A message without its record is what a call that is cut off leaves.
Unkept(e) == [e EXCEPT !.kept = FALSE]

\* What a running call sent: the numbers count on from the settled count.
LEMMA TailEntry ==
    ASSUME NEW w \in Seq(Taken), NEW p \in Nat, NEW c \in SeqNumber, WireOK(w, p, c),
           NEW j \in (Len(w) - p + 1) .. Len(w)
    PROVE  /\ j \in 1 .. Len(w) /\ w[j] \in Taken
           /\ w[j].type = "NBIRTH" => w[j] = Atomic!Entry("NBIRTH", 0, TRUE)
           /\ w[j].type = "DBIRTH" => w[j] = Atomic!Entry("DBIRTH", 1, TRUE)
           /\ w[j].type = "DATA" => w[j] = Atomic!Entry("DATA", Atomic!Successor(c), TRUE)
           /\ w[j].type = "NBIRTH" => Unkept(w[j]) = Atomic!Entry("NBIRTH", 0, FALSE)
           /\ w[j].type = "DBIRTH" => Unkept(w[j]) = Atomic!Entry("DBIRTH", 1, FALSE)
           /\ w[j].type = "DATA" =>
                 Unkept(w[j]) = Atomic!Entry("DATA", Atomic!Successor(c), FALSE)
<1>1. Len(w) \in Nat /\ Len(w) - p >= 0 /\ w[j].kept /\ CountsOn(w[j], c)
  BY DEF WireOK
<1>2. j \in 1 .. Len(w) /\ w[j] \in Taken
  BY <1>1
<1> DEFINE e == w[j]
<1>3. e \in Taken /\ e.kept = TRUE /\ CountsOn(e, c)
  BY <1>1, <1>2 DEF Taken
<1> HIDE DEF e
<1>4. /\ e.type = "NBIRTH" => e.seq = 0
      /\ e.type = "DBIRTH" => e.seq = 1
      /\ e.type = "DATA" => e.seq = Successor(c)
  BY <1>3 DEF CountsOn
<1>5. /\ e = [type |-> e.type, seq |-> e.seq, kept |-> TRUE]
      /\ Unkept(e) = [type |-> e.type, seq |-> e.seq, kept |-> FALSE]
  <2>1. PICK ty, sq : e = [type |-> ty, seq |-> sq, kept |-> TRUE]
    BY <1>3 DEF Taken
  <2>2. Unkept(e) \in Taken
    BY <1>3 DEF Unkept, Taken
  <2>3. Unkept(e).type = e.type /\ Unkept(e).seq = e.seq /\ Unkept(e).kept = FALSE
    BY <1>3 DEF Unkept, Taken
  <2>4. PICK ty2, sq2, k2 : Unkept(e) = [type |-> ty2, seq |-> sq2, kept |-> k2]
    BY <2>2 DEF Taken
  <2>5. ty2 = e.type /\ sq2 = e.seq /\ k2 = FALSE
    BY <2>3, <2>4
  <2> QED BY <2>1, <2>4, <2>5
<1>6. /\ e.type = "NBIRTH" => /\ e = Atomic!Entry("NBIRTH", 0, TRUE)
                              /\ Unkept(e) = Atomic!Entry("NBIRTH", 0, FALSE)
      /\ e.type = "DBIRTH" => /\ e = Atomic!Entry("DBIRTH", 1, TRUE)
                              /\ Unkept(e) = Atomic!Entry("DBIRTH", 1, FALSE)
      /\ e.type = "DATA" => /\ e = Atomic!Entry("DATA", Atomic!Successor(c), TRUE)
                            /\ Unkept(e) = Atomic!Entry("DATA", Atomic!Successor(c), FALSE)
  BY <1>4, <1>5 DEF Atomic!Entry, Atomic!Successor, Successor
<1> QED BY <1>2, <1>6 DEF e

\* A sequence is its first part and the rest.
LEMMA Split ==
    ASSUME NEW S, NEW v \in Seq(S), NEW u \in Seq(S), NEW m \in Seq(S),
           Len(v) = Len(u) + Len(m),
           \A i \in 1 .. Len(u) : v[i] = u[i],
           \A i \in 1 .. Len(m) : v[Len(u) + i] = m[i]
    PROVE  v = u \o m
<1>1. /\ u \o m \in Seq(S) /\ Len(u \o m) = Len(v)
      /\ \A i \in 1 .. Len(v) : (u \o m)[i] = IF i <= Len(u) THEN u[i] ELSE m[i - Len(u)]
  BY ConcatProperties
<1>2. Len(u) \in Nat /\ Len(m) \in Nat
  OBVIOUS
<1>3. ASSUME NEW i \in 1 .. Len(v)
      PROVE  v[i] = (u \o m)[i]
  <2>1. CASE i <= Len(u)
    BY <1>1, <1>2, <2>1
  <2>2. CASE i > Len(u)
    <3>1. i - Len(u) \in 1 .. Len(m) /\ Len(u) + (i - Len(u)) = i
      BY <1>2, <2>2
    <3> QED BY <1>1, <2>2, <3>1
  <2> QED BY <1>2, <2>1, <2>2
<1> QED BY <1>1, <1>3, SeqEqual

\* A wire is what was settled and the one message, or the two, after it; and
\* so it is when a call that sent them is cut off.
LEMMA WireSplits ==
    ASSUME NEW w \in Seq(Taken), NEW p \in {1, 2}, p <= Len(w)
    PROVE  LET u == SubSeq(w, 1, Len(w) - p)
               n == Len(w)
           IN  /\ p = 1 => /\ w = u \o <<w[n]>>
                           /\ CutLast(w, 1) = u \o <<Unkept(w[n])>>
               /\ p = 2 => /\ w = u \o <<w[n - 1], w[n]>>
                           /\ CutLast(w, 2) = u \o <<Unkept(w[n - 1]), Unkept(w[n])>>
<1> DEFINE n == Len(w)
           u == SubSeq(w, 1, n - p)
           v == CutLast(w, p)
<1>1. n \in Nat /\ n >= p /\ p \in Nat /\ \A i \in 1 .. n : w[i] \in Taken
  OBVIOUS
<1>2. u \in Seq(Taken) /\ Len(u) = n - p /\ \A i \in 1 .. n - p : u[i] = w[i]
  BY <1>1, SubSeqProperties
<1>3. v \in Seq(Taken) /\ Len(v) = n
  BY <1>1, CutLastType
<1>4. \A i \in 1 .. n : v[i] = IF i + p > n THEN Unkept(w[i]) ELSE w[i]
  BY DEF CutLast, Unkept
<1> HIDE DEF n, u, v
<1>5. ASSUME NEW i \in n - p + 1 .. n
      PROVE  i \in 1 .. n /\ w[i] \in Taken /\ v[i] = Unkept(w[i]) /\ Unkept(w[i]) \in Taken
  <2>1. i \in 1 .. n /\ i + p > n
    BY <1>1
  <2>2. v[i] = Unkept(w[i])
    BY <1>4, <2>1
  <2>3. v[i] \in Taken
    BY <1>3, <2>1, ElementOfSeq
  <2> QED BY <1>1, <2>1, <2>2, <2>3
<1>6. ASSUME NEW i \in 1 .. Len(u)
      PROVE  v[i] = u[i] /\ w[i] = u[i]
  <2>1. i \in 1 .. n - p /\ i \in 1 .. n /\ ~(i + p > n)
    BY <1>1, <1>2
  <2> QED BY <1>2, <1>4, <2>1
<1>7. CASE p = 1
  <2>1. n \in n - p + 1 .. n
    BY <1>1, <1>7
  <2>2. w = u \o <<w[n]>>
    <3> DEFINE m == <<w[n]>>
    <3>1. m \in Seq(Taken) /\ Len(m) = 1 /\ m[1] = w[n]
      BY <1>5, <2>1
    <3>2. Len(w) = Len(u) + Len(m) /\ Len(u) + 1 = n
      BY <1>1, <1>2, <1>7, <3>1 DEF n
    <3> HIDE DEF m
    <3>3. \A i \in 1 .. Len(m) : w[Len(u) + i] = m[i]
      BY <3>1, <3>2
    <3>4. w = u \o m
      BY <1>2, <1>6, <3>1, <3>2, <3>3, Split
    <3> QED BY <3>4 DEF m
  <2>3. v = u \o <<Unkept(w[n])>>
    <3> DEFINE m == <<Unkept(w[n])>>
    <3>1. m \in Seq(Taken) /\ Len(m) = 1 /\ m[1] = v[n]
      BY <1>5, <2>1
    <3>2. Len(v) = Len(u) + Len(m) /\ Len(u) + 1 = n
      BY <1>1, <1>2, <1>3, <1>7, <3>1
    <3> HIDE DEF m
    <3>3. \A i \in 1 .. Len(m) : v[Len(u) + i] = m[i]
      BY <3>1, <3>2
    <3>4. v = u \o m
      BY <1>2, <1>3, <1>6, <3>1, <3>2, <3>3, Split
    <3> QED BY <3>4 DEF m
  <2>4. v = CutLast(w, 1) /\ u = SubSeq(w, 1, Len(w) - p) /\ n = Len(w) /\ p # 2
    BY <1>7 DEF n, u, v
  <2> QED BY <1>7, <2>2, <2>3, <2>4
<1>8. CASE p = 2
  <2>1. n \in n - p + 1 .. n /\ n - 1 \in n - p + 1 .. n
    BY <1>1, <1>8
  <2>2. w = u \o <<w[n - 1], w[n]>>
    <3> DEFINE m == <<w[n - 1], w[n]>>
    <3>1. m \in Seq(Taken) /\ Len(m) = 2 /\ m[1] = w[n - 1] /\ m[2] = w[n]
      BY <1>5, <2>1
    <3>2. Len(w) = Len(u) + Len(m) /\ Len(u) + 1 = n - 1 /\ Len(u) + 2 = n
      BY <1>1, <1>2, <1>8, <3>1 DEF n
    <3> HIDE DEF m
    <3>3. \A i \in 1 .. Len(m) : w[Len(u) + i] = m[i]
      BY <3>1, <3>2
    <3>4. w = u \o m
      BY <1>2, <1>6, <3>1, <3>2, <3>3, Split
    <3> QED BY <3>4 DEF m
  <2>3. v = u \o <<Unkept(w[n - 1]), Unkept(w[n])>>
    <3> DEFINE m == <<Unkept(w[n - 1]), Unkept(w[n])>>
    <3>1. m \in Seq(Taken) /\ Len(m) = 2 /\ m[1] = v[n - 1] /\ m[2] = v[n]
      BY <1>5, <2>1
    <3>2. Len(v) = Len(u) + Len(m) /\ Len(u) + 1 = n - 1 /\ Len(u) + 2 = n
      BY <1>1, <1>2, <1>3, <1>8, <3>1
    <3> HIDE DEF m
    <3>3. \A i \in 1 .. Len(m) : v[Len(u) + i] = m[i]
      BY <3>1, <3>2
    <3>4. v = u \o m
      BY <1>2, <1>3, <1>6, <3>1, <3>2, <3>3, Split
    <3> QED BY <3>4 DEF m
  <2>4. v = CutLast(w, 2) /\ u = SubSeq(w, 1, Len(w) - p) /\ n = Len(w) /\ p # 1
    BY <1>8 DEF n, u, v
  <2> QED BY <1>8, <2>2, <2>3, <2>4
<1> QED BY <1>7, <1>8

\* A call that sent nothing leaves the wire alone when it is cut off.
LEMMA CutNothing ==
    ASSUME NEW w \in Seq(Taken)
    PROVE  CutLast(w, 0) = w /\ SubSeq(w, 1, Len(w)) = w
<1>1. CutLast(w, 0) \in Seq(Taken) /\ Len(CutLast(w, 0)) = Len(w) /\ Len(w) \in Nat
  BY CutLastType
<1>2. \A i \in 1 .. Len(w) : CutLast(w, 0)[i] = w[i]
  BY <1>1 DEF CutLast
<1> QED BY <1>1, <1>2, SeqEqual, SubSeqFull

----------------------------------------------------------------------------
(* The settled state of one edge node.                                     *)

\* Nothing settled for n changes.
SettledSame(n) == settledWire'[n] = settledWire[n] /\ settledCount'[n] = settledCount[n]

\* A step that settles nothing is a stutter of AtomicPublish.
LEMMA Stutter ==
    ASSUME \A n \in EdgeNodes : SettledSame(n)
    PROVE  UNCHANGED Atomic!vars
<1>1. settledWire' = settledWire
  BY DEF SettledSame, settledWire
<1>2. settledCount' = settledCount
  BY DEF SettledSame, settledCount
<1> QED BY <1>1, <1>2 DEF Atomic!vars

\* A step that settles messages ms of one edge node is a Send.
LEMMA Settles ==
    ASSUME NEW n \in EdgeNodes, \A m \in EdgeNodes \ {n} : SettledSame(m),
           NEW ms, settledWire'[n] = settledWire[n] \o ms,
           NEW s, settledCount'[n] = s
    PROVE  Atomic!Send(n, ms, s)
<1>1. settledWire' = [settledWire EXCEPT ![n] = @ \o ms]
  BY DEF SettledSame, settledWire
<1>2. settledCount' = [settledCount EXCEPT ![n] = s]
  BY DEF SettledSame, settledCount
<1> QED BY <1>1, <1>2 DEF Atomic!Send

\* An edge node that no step touches keeps what was settled.
LEMMA SettledFrame ==
    ASSUME TypeOK, GateInv, NEW n \in EdgeNodes,
           gate'[n] = gate[n], count'[n] = count[n], wire'[n] = wire[n],
           \A u \in Tasks : (pc[u] \in Holding /\ Node(u) = n) => Untouched(u)
    PROVE  SettledSame(n)
<1>1. gate[n] # NoTask => restore'[gate[n]] = restore[gate[n]] /\ took'[gate[n]] = took[gate[n]]
  BY DEF GateInv, TypeOK, Untouched
<1>2. Pending(n)' = Pending(n)
  BY <1>1 DEF Pending
<1>3. settledCount'[n] = settledCount[n]
  BY <1>1 DEF settledCount
<1> QED BY <1>2, <1>3 DEF SettledSame, settledWire

\* When the holder of a gate moves, nothing is settled for other edge nodes.
LEMMA OthersSettled ==
    ASSUME TypeOK, GateInv, NEW t \in Tasks, pc[t] \in Holding \/ gate[Node(t)] = NoTask,
           \A u \in Tasks \ {t} : Untouched(u),
           NEW m \in EdgeNodes \ {Node(t)},
           gate'[m] = gate[m], count'[m] = count[m], wire'[m] = wire[m]
    PROVE  SettledSame(m)
BY SettledFrame

\* What the holder of a gate settled before this call.
LEMMA HolderSettled ==
    ASSUME IInv, NEW t \in Tasks, pc[t] \in Holding
    PROVE  /\ Node(t) \in EdgeNodes /\ gate[Node(t)] = t
           /\ wire[Node(t)] \in Seq(Taken) /\ Len(wire[Node(t)]) \in Nat
           /\ took[t] \in 0 .. 2 /\ took[t] <= Len(wire[Node(t)])
           /\ settledWire[Node(t)] = SubSeq(wire[Node(t)], 1, Len(wire[Node(t)]) - took[t])
           /\ settledCount[Node(t)] = restore[t] /\ restore[t] \in SeqNumber
<1>1. /\ Node(t) \in EdgeNodes /\ gate[Node(t)] = t /\ restore[t] \in SeqNumber
      /\ wire[Node(t)] \in Seq(Taken) /\ WireOK(wire[Node(t)], took[t], restore[t])
      /\ t # NoTask /\ took[t] \in 0 .. 2
  BY HolderWire, NoTaskAssumption DEF IInv, TypeOK
<1>2. Pending(Node(t)) = took[t] /\ settledCount[Node(t)] = restore[t]
  BY <1>1 DEF Pending, settledCount
<1>3. Len(wire[Node(t)]) \in Nat /\ took[t] <= Len(wire[Node(t)])
  BY <1>1 DEF WireOK
<1> QED BY <1>1, <1>2, <1>3 DEF settledWire

\* The same after the step, for a task that holds a gate then.
LEMMA HolderSettledNext ==
    ASSUME NEW t \in Tasks, NEW n \in EdgeNodes, gate'[n] = t, t # NoTask
    PROVE  /\ settledWire'[n] = SubSeq(wire'[n], 1, Len(wire'[n]) - took'[t])
           /\ settledCount'[n] = restore'[t]
BY DEF settledWire, settledCount, Pending

\* An edge node whose gate is free has everything settled.
LEMMA FreeSettledNext ==
    ASSUME NEW n \in EdgeNodes, gate'[n] = NoTask, wire'[n] \in Seq(Taken)
    PROVE  settledWire'[n] = wire'[n] /\ settledCount'[n] = count'[n]
<1>1. Pending(n)' = 0
  BY DEF Pending
<1>2. SubSeq(wire'[n], 1, Len(wire'[n]) - 0) = wire'[n]
  BY CutNothing
<1> QED BY <1>1, <1>2 DEF settledWire, settledCount

----------------------------------------------------------------------------
(* The steps.                                                              *)

\* The message that the client just took is not settled yet.
LEMMA TookUnsettled ==
    ASSUME IInv, NEW t \in Tasks, pc[t] \in {"send", "full"}, Took(t)
    PROVE  LET v == wire'[Node(t)] IN
           SubSeq(v, 1, Len(v) - (took[t] + 1)) = settledWire[Node(t)]
<1> DEFINE w == wire[Node(t)]
           e == [type |-> msg[t].type, seq |-> msg[t].seq, kept |-> TRUE]
<1>1. /\ Node(t) \in EdgeNodes /\ w \in Seq(Taken) /\ Len(w) \in Nat
      /\ took[t] \in 0 .. 2 /\ took[t] <= Len(w)
      /\ settledWire[Node(t)] = SubSeq(w, 1, Len(w) - took[t])
  BY HolderSettled DEF Holding
<1>2. e \in Taken
  BY DEF IInv, TypeOK, Message, Taken
<1>3. wire'[Node(t)] = Append(w, e)
  BY <1>1 DEF Took, IInv, TypeOK
<1> HIDE DEF w, e
<1>4. /\ Append(w, e) \in Seq(Taken) /\ Len(Append(w, e)) = Len(w) + 1
      /\ \A i \in 1 .. Len(w) : Append(w, e)[i] = w[i]
  BY <1>1, <1>2
<1> DEFINE k == Len(w) - took[t]
<1>5. k \in Nat /\ k <= Len(w) /\ Len(Append(w, e)) - (took[t] + 1) = k
  BY <1>1, <1>4
<1> HIDE DEF k
<1>6. SubSeq(Append(w, e), 1, k) = SubSeq(w, 1, k)
  BY <1>1, <1>4, <1>5
<1> QED BY <1>1, <1>3, <1>5, <1>6 DEF k

\* What a call that sent q messages, counting on from c, leaves at the end of its
\* wire v, and what is left of that when the call is cut off.
TailOf(v, q, c) ==
    /\ Len(v) \in Nat /\ Len(v) >= q
    /\ v[Len(v)].type = "DATA" =>
          /\ v[Len(v)] = Atomic!Entry("DATA", Atomic!Successor(c), TRUE)
          /\ Unkept(v[Len(v)]) = Atomic!Entry("DATA", Atomic!Successor(c), FALSE)
    /\ v[Len(v)].type = "NBIRTH" =>
          /\ v[Len(v)] = Atomic!Entry("NBIRTH", 0, TRUE)
          /\ Unkept(v[Len(v)]) = Atomic!Entry("NBIRTH", 0, FALSE)
    /\ q = 2 =>
          /\ v[Len(v)] = Atomic!Entry("DBIRTH", 1, TRUE)
          /\ Unkept(v[Len(v)]) = Atomic!Entry("DBIRTH", 1, FALSE)
          /\ v[Len(v) - 1] = Atomic!Entry("NBIRTH", 0, TRUE)
          /\ Unkept(v[Len(v) - 1]) = Atomic!Entry("NBIRTH", 0, FALSE)

\* A wire that is consistent ends that way.
LEMMA WireTail ==
    ASSUME NEW v \in Seq(Taken), NEW q \in {1, 2}, NEW c \in SeqNumber,
           WireOK(v, q, c), BirthsPaired(v), q = 2 => v[Len(v)].type = "DBIRTH"
    PROVE  TailOf(v, q, c)
<1>1. Len(v) \in Nat /\ Len(v) >= q /\ c \in SeqNumber
  BY DEF WireOK
<1>2. Len(v) \in (Len(v) - q + 1) .. Len(v) /\ q \in Nat
  BY <1>1
<1>3. q = 2 => Len(v) - 1 \in (Len(v) - q + 1) .. Len(v)
  BY <1>1
<1>4. q = 2 => v[Len(v) - 1].type = "NBIRTH"
  BY <1>1, <1>2 DEF BirthsPaired
<1>5. /\ v[Len(v)].type = "DATA" =>
         /\ v[Len(v)] = Atomic!Entry("DATA", Atomic!Successor(c), TRUE)
         /\ Unkept(v[Len(v)]) = Atomic!Entry("DATA", Atomic!Successor(c), FALSE)
      /\ v[Len(v)].type = "NBIRTH" =>
         /\ v[Len(v)] = Atomic!Entry("NBIRTH", 0, TRUE)
         /\ Unkept(v[Len(v)]) = Atomic!Entry("NBIRTH", 0, FALSE)
      /\ v[Len(v)].type = "DBIRTH" =>
         /\ v[Len(v)] = Atomic!Entry("DBIRTH", 1, TRUE)
         /\ Unkept(v[Len(v)]) = Atomic!Entry("DBIRTH", 1, FALSE)
  BY <1>1, <1>2, TailEntry
<1>6. q = 2 => /\ v[Len(v) - 1] = Atomic!Entry("NBIRTH", 0, TRUE)
               /\ Unkept(v[Len(v) - 1]) = Atomic!Entry("NBIRTH", 0, FALSE)
  BY <1>1, <1>2, <1>3, <1>4, TailEntry
<1>7. q = 2 => /\ v[Len(v)] = Atomic!Entry("DBIRTH", 1, TRUE)
               /\ Unkept(v[Len(v)]) = Atomic!Entry("DBIRTH", 1, FALSE)
  BY <1>5
<1> QED BY <1>1, <1>5, <1>6, <1>7, Zenon DEF TailOf

\* A handover that ends well: the first message of a birth settles nothing, any
\* other ends the call, and its messages settle at once.
LEMMA ContinueRefines ==
    ASSUME IInv, NEW t \in Tasks, pc[t] \in {"send", "taken"}, Continue(t),
           NEW v, v = wire'[Node(t)], v \in Seq(Taken),
           NEW q, q = IF pc[t] = "taken" THEN took[t] ELSE took[t] + 1,
           WireOK(v, q, restore[t]), BirthsPaired(v),
           v[Len(v)].type = msg[t].type, v[Len(v)].seq = msg[t].seq,
           SubSeq(v, 1, Len(v) - q) = settledWire[Node(t)],
           \A m \in EdgeNodes \ {Node(t)} : wire'[m] = wire[m]
    PROVE  [Atomic!Next]_(Atomic!vars)
<1>0. TypeOK /\ GateInv /\ pc[t] \in Holding
  BY DEF IInv, Holding
<1> PICK n \in EdgeNodes : n = Node(t)
  BY <1>0 DEF GateInv, CallOK
<1>1. /\ gate[n] = t /\ count[n] = msg[t].seq /\ t # NoTask /\ call[t].kind \in Kinds
      /\ restore[t] \in SeqNumber /\ (OnFirstMessage(t) \/ OnSecondMessage(t))
  <2>1. call[t] # NoCall
    BY <1>0, NoNodeAssumption DEF NoCall, Node, GateInv, CallOK
  <2>2. call[t].kind \in Kinds
    BY <1>0, <2>1 DEF TypeOK
  <2> QED BY <1>0, <2>2, NoTaskAssumption DEF GateInv, CallOK, TypeOK
<1>2. settledCount[n] = restore[t]
  BY <1>0, HolderSettled
<1>3. /\ q \in {1, 2}
      /\ q = 2 => v[Len(v)].type = "DBIRTH"
  BY <1>1 DEF OnFirstMessage, OnSecondMessage
<1>4. TailOf(v, q, restore[t])
  BY <1>1, <1>3, WireTail
<1>5. CASE MoreToSend(t)
  <2>1. NextMessage(t)
    BY <1>5 DEF Continue
  <2>2. /\ UNCHANGED <<gate, restore>> /\ took'[t] = 1
        /\ \A u \in Tasks \ {t} : Untouched(u)
        /\ \A m \in EdgeNodes \ {n} : count'[m] = count[m]
    BY <1>0, <2>1 DEF NextMessage, TypeOK, Untouched
  <2>3. q = 1
    BY <1>1, <1>5 DEF MoreToSend, OnFirstMessage, OnSecondMessage
  <2>4. SettledSame(n)
    <3>1. gate'[n] = t /\ restore'[t] = restore[t]
      BY <1>1, <2>2
    <3>2. /\ settledWire'[n] = SubSeq(wire'[n], 1, Len(wire'[n]) - took'[t])
          /\ settledCount'[n] = restore[t]
      BY <1>1, <3>1, HolderSettledNext
    <3>3. settledWire[n] = SubSeq(v, 1, Len(v) - q) /\ v = wire'[n] /\ q = took'[t]
      BY <2>2, <2>3
    <3> QED BY <1>2, <3>2, <3>3, Zenon DEF SettledSame
  <2>5. \A m \in EdgeNodes \ {n} : SettledSame(m)
    BY <1>0, <2>2, OthersSettled
  <2> QED BY <2>4, <2>5, Stutter
<1>6. CASE ~MoreToSend(t)
  <2>1. gate' = [gate EXCEPT ![n] = NoTask] /\ count' = count /\ EndCall(t)
    BY <1>6 DEF Continue, CommitAndDrop
  <2>2. /\ gate'[n] = NoTask /\ \A m \in EdgeNodes \ {n} : gate'[m] = gate[m]
        /\ \A u \in Tasks \ {t} : Untouched(u)
    BY <1>0, <2>1, EndCallFrame DEF TypeOK
  <2>3. \A m \in EdgeNodes \ {n} : SettledSame(m)
    BY <1>0, <2>1, <2>2, OthersSettled
  <2>4. settledWire'[n] = v /\ settledCount'[n] = msg[t].seq
    BY <1>1, <2>1, <2>2, FreeSettledNext
  <2>5. CASE OnFirstMessage(t)
    <3>1. /\ q = 1 /\ call[t].kind # "birth"
          /\ msg[t].type = IF call[t].kind = "data" THEN "DATA" ELSE "NBIRTH"
          /\ msg[t].seq = IF call[t].kind = "data" THEN Atomic!Successor(restore[t]) ELSE 0
      BY <1>6, <2>5 DEF OnFirstMessage, MoreToSend, Step, Successor, Atomic!Successor
    <3>2. v = settledWire[n] \o <<v[Len(v)]>>
      <4>1. q <= Len(v)
        BY <1>4 DEF TailOf
      <4>2. v = SubSeq(v, 1, Len(v) - q) \o <<v[Len(v)]>>
        BY <1>3, <3>1, <4>1, WireSplits
      <4> QED BY <4>2
    <3>3. CASE call[t].kind = "data"
      <4>1. v[Len(v)] = Atomic!Entry("DATA", Atomic!Successor(settledCount[n]), TRUE)
        BY <1>2, <1>4, <3>1, <3>3 DEF TailOf
      <4>2. Atomic!Data(n)
        BY <1>2, <2>3, <2>4, <3>1, <3>2, <3>3, <4>1, Settles DEF Atomic!Data
      <4> QED BY <4>2 DEF Atomic!Next
    <3>4. CASE call[t].kind # "data"
      <4>1. v[Len(v)] = Atomic!Entry("NBIRTH", 0, TRUE)
        BY <1>4, <3>1, <3>4 DEF TailOf
      <4>2. Atomic!NBirth(n)
        BY <2>3, <2>4, <3>1, <3>2, <3>4, <4>1, Settles DEF Atomic!NBirth
      <4> QED BY <4>2 DEF Atomic!Next
    <3> QED BY <3>3, <3>4
  <2>6. CASE OnSecondMessage(t)
    <3>1. q = 2 /\ msg[t].type = "DBIRTH" /\ msg[t].seq = 1
      BY <2>6 DEF OnSecondMessage
    <3>2. v = settledWire[n] \o <<v[Len(v) - 1], v[Len(v)]>>
      <4>1. q <= Len(v)
        BY <1>4 DEF TailOf
      <4>2. v = SubSeq(v, 1, Len(v) - q) \o <<v[Len(v) - 1], v[Len(v)]>>
        BY <1>3, <3>1, <4>1, WireSplits
      <4> QED BY <4>2
    <3>3. /\ v[Len(v)] = Atomic!Entry("DBIRTH", 1, TRUE)
          /\ v[Len(v) - 1] = Atomic!Entry("NBIRTH", 0, TRUE)
      BY <1>4, <3>1 DEF TailOf
    <3>4. Atomic!Birth(n)
      BY <2>3, <2>4, <3>1, <3>2, <3>3, Settles DEF Atomic!Birth
    <3> QED BY <3>4 DEF Atomic!Next
  <2> QED BY <1>1, <2>5, <2>6
<1> QED BY <1>5, <1>6

\* A rollback: what the call sent settles as cut off, and if it sent nothing
\* the step is a stutter.
LEMMA DropRefines ==
    ASSUME IInv, NEW t \in Tasks, pc[t] \in Holding, DropUncommitted(t)
    PROVE  [Atomic!Next]_(Atomic!vars)
<1>0. TypeOK /\ GateInv /\ LastInv /\ BirthPairTogether
  BY DEF IInv
<1> PICK n \in EdgeNodes : n = Node(t)
  BY <1>0 DEF GateInv, CallOK, Holding
<1> DEFINE w == wire[n]
           p == took[t]
<1>1. /\ gate[n] = t /\ w \in Seq(Taken) /\ Len(w) \in Nat /\ p \in 0 .. 2 /\ p <= Len(w)
      /\ settledWire[n] = SubSeq(w, 1, Len(w) - p) /\ settledCount[n] = restore[t]
      /\ WireOK(w, p, restore[t]) /\ BirthsPaired(w)
  BY <1>0, HolderSettled, HolderWire DEF IInv, BirthPairTogether
<1>2. /\ wire'[n] = CutLast(w, p) /\ count'[n] = restore[t] /\ gate'[n] = NoTask
      /\ \A m \in EdgeNodes \ {n} :
            gate'[m] = gate[m] /\ count'[m] = count[m] /\ wire'[m] = wire[m]
      /\ \A u \in Tasks \ {t} : Untouched(u)
  BY <1>0, <1>1, EndCallFrame DEF DropUncommitted, TypeOK
<1>3. \A m \in EdgeNodes \ {n} : SettledSame(m)
  BY <1>0, <1>2, OthersSettled
<1>4. settledWire'[n] = CutLast(w, p) /\ settledCount'[n] = settledCount[n]
  <2>1. CutLast(w, p) \in Seq(Taken)
    BY <1>1, CutLastType
  <2> QED BY <1>1, <1>2, <2>1, FreeSettledNext
<1>5. OnFirstMessage(t) \/ OnSecondMessage(t)
  BY <1>0 DEF GateInv, CallOK
<1>6. /\ p = 2 => w[Len(w)].type = "DBIRTH"
      /\ p = 1 => w[Len(w)].type \in {"DATA", "NBIRTH"}
  BY <1>0, <1>5 DEF LastInv, SentLast, OnFirstMessage, OnSecondMessage, Holding
<1>7. p \in {1, 2} => TailOf(w, p, settledCount[n])
  BY <1>1, <1>6, WireTail DEF IInv, TypeOK
<1> HIDE DEF w, p
<1>8. CASE p = 0
  <2>1. SettledSame(n)
    BY <1>1, <1>4, <1>8, CutNothing DEF SettledSame
  <2> QED BY <1>3, <2>1, Stutter
<1>9. CASE p = 1
  <2>1. settledWire'[n] = settledWire[n] \o <<Unkept(w[Len(w)])>>
    BY <1>1, <1>4, <1>9, WireSplits
  <2>2. \/ Unkept(w[Len(w)]) = Atomic!Entry("DATA", Atomic!Successor(settledCount[n]), FALSE)
        \/ Unkept(w[Len(w)]) = Atomic!Entry("NBIRTH", 0, FALSE)
    BY <1>6, <1>9, <1>7 DEF TailOf
  <2>3. Atomic!Send(n, <<Unkept(w[Len(w)])>>, settledCount[n])
    BY <1>3, <1>4, <2>1, Settles
  <2>4. Atomic!CutOff(n)
    BY <2>2, <2>3 DEF Atomic!CutOff
  <2> QED BY <2>4 DEF Atomic!Next
<1>10. CASE p = 2
  <2>1. settledWire'[n] = settledWire[n] \o <<Unkept(w[Len(w) - 1]), Unkept(w[Len(w)])>>
    BY <1>1, <1>4, <1>10, WireSplits
  <2>2. /\ Unkept(w[Len(w)]) = Atomic!Entry("DBIRTH", 1, FALSE)
        /\ Unkept(w[Len(w) - 1]) = Atomic!Entry("NBIRTH", 0, FALSE)
    BY <1>10, <1>7 DEF TailOf
  <2>3. Atomic!Send(n, <<Unkept(w[Len(w) - 1]), Unkept(w[Len(w)])>>, settledCount[n])
    BY <1>3, <1>4, <2>1, Settles
  <2>4. Atomic!CutOff(n)
    BY <2>2, <2>3 DEF Atomic!CutOff
  <2> QED BY <2>4 DEF Atomic!Next
<1> QED BY <1>1, <1>8, <1>9, <1>10

\* Every step of SeqGate is a step of AtomicPublish or a stutter.
LEMMA StepRefines ==
    ASSUME IInv, [Next]_vars
    PROVE  [Atomic!Next]_(Atomic!vars)
<1>0. TypeOK /\ GateInv /\ LastInv /\ BirthPairTogether
  BY DEF IInv
<1>1. ASSUME UNCHANGED <<gate, count, wire>>,
             \A u \in Tasks : pc[u] \in Holding => Untouched(u)
      PROVE  UNCHANGED Atomic!vars
  <2>1. \A n \in EdgeNodes : SettledSame(n)
    BY <1>0, <1>1, SettledFrame
  <2> QED BY <2>1, Stutter
<1>2. ASSUME NEW t \in Tasks, NEW n \in EdgeNodes, NEW k \in Kinds, Call(t, n, k)
      PROVE  UNCHANGED Atomic!vars
  BY <1>0, <1>1, <1>2 DEF Call, TypeOK, Untouched, Holding
<1>3. ASSUME NEW t \in Tasks, Reserve(t)
      PROVE  UNCHANGED Atomic!vars
  <2> PICK n \in EdgeNodes : n = Node(t)
    BY <1>0, <1>3 DEF Reserve, GateInv, CallOK
  <2>1. /\ gate[n] = NoTask /\ took[t] = 0 /\ t # NoTask /\ wire[n] \in Seq(Taken)
    BY <1>0, <1>3, NoTaskAssumption DEF Reserve, GateFree, GateInv, CallOK, Holding, TypeOK
  <2>2. /\ gate'[n] = t /\ restore'[t] = count[n] /\ took' = took /\ wire' = wire
        /\ \A u \in Tasks \ {t} : Untouched(u)
        /\ \A m \in EdgeNodes \ {n} : gate'[m] = gate[m] /\ count'[m] = count[m]
    BY <1>0, <1>3 DEF Reserve, TypeOK, Untouched
  <2>3. settledWire'[n] = wire[n] /\ settledCount'[n] = count[n]
    <3>1. SubSeq(wire'[n], 1, Len(wire'[n]) - took'[t]) = wire[n]
      BY <2>1, <2>2, CutNothing
    <3> QED BY <2>1, <2>2, <3>1, HolderSettledNext
  <2>4. settledWire[n] = wire[n] /\ settledCount[n] = count[n]
    BY <2>1, CutNothing DEF settledWire, settledCount, Pending
  <2>5. \A m \in EdgeNodes \ {n} : SettledSame(m)
    BY <1>0, <2>1, <2>2, OthersSettled
  <2> QED BY <2>3, <2>4, <2>5, Stutter DEF SettledSame
<1>4. ASSUME NEW t \in Tasks, SendWithRoom(t)
      PROVE  [Atomic!Next]_(Atomic!vars)
  <2>1. pc[t] = "send" /\ Took(t) /\ Continue(t)
    BY <1>4 DEF SendWithRoom
  <2> DEFINE v == wire'[Node(t)]
  <2>2. /\ v \in Seq(Taken) /\ Len(v) > 0 /\ WireOK(v, took[t] + 1, restore[t])
        /\ v[Len(v)].type = msg[t].type /\ v[Len(v)].seq = msg[t].seq
        /\ BirthsPaired(v) /\ \A m \in EdgeNodes \ {Node(t)} : wire'[m] = wire[m]
    BY <2>1, TookStep
  <2>3. SubSeq(v, 1, Len(v) - (took[t] + 1)) = settledWire[Node(t)]
    BY <2>1, TookUnsettled
  <2>4. v = wire'[Node(t)]
    OBVIOUS
  <2> HIDE DEF v
  <2> QED BY <2>1, <2>2, <2>3, <2>4, ContinueRefines
<1>5. ASSUME NEW t \in Tasks, Resume(t)
      PROVE  [Atomic!Next]_(Atomic!vars)
  <2>1. pc[t] = "taken" /\ pc[t] \in Holding /\ Continue(t) /\ UNCHANGED wire
    BY <1>5 DEF Resume, Holding
  <2> DEFINE v == wire[Node(t)]
  <2>2. /\ Node(t) \in EdgeNodes /\ v \in Seq(Taken) /\ WireOK(v, took[t], restore[t])
        /\ SubSeq(v, 1, Len(v) - took[t]) = settledWire[Node(t)]
    BY <2>1, HolderWire, HolderSettled DEF IInv
  <2>3. v[Len(v)].type = msg[t].type /\ v[Len(v)].seq = msg[t].seq
    BY <1>0, <2>1 DEF LastInv, SentLast
  <2>4. BirthsPaired(v)
    BY <1>0, <2>2 DEF BirthPairTogether
  <2>5. v = wire'[Node(t)] /\ \A m \in EdgeNodes \ {Node(t)} : wire'[m] = wire[m]
    BY <2>1
  <2> HIDE DEF v
  <2> QED BY <2>1, <2>2, <2>3, <2>4, <2>5, ContinueRefines
<1>6. ASSUME NEW t \in Tasks, Refused(t) \/ CancelWaiting(t) \/ CancelTaken(t)
      PROVE  [Atomic!Next]_(Atomic!vars)
  BY <1>6, DropRefines DEF Refused, CancelWaiting, CancelTaken, Holding
<1>7. ASSUME NEW t \in Tasks, CancelAtGate(t)
      PROVE  UNCHANGED Atomic!vars
  <2>1. \A u \in Tasks \ {t} : Untouched(u)
    BY <1>0, <1>7, EndCallFrame DEF CancelAtGate
  <2> QED BY <1>1, <1>7, <2>1 DEF CancelAtGate, Holding
<1>8. ASSUME NEW t \in Tasks, SendFindsFull(t)
      PROVE  UNCHANGED Atomic!vars
  <2>1. UNCHANGED <<gate, count, restore, took, wire>>
    BY <1>8 DEF SendFindsFull
  <2>2. settledWire' = settledWire /\ settledCount' = settledCount
    BY <2>1 DEF settledWire, settledCount, Pending
  <2> QED BY <2>2 DEF Atomic!vars
<1>9. ASSUME NEW t \in Tasks, Pull(t)
      PROVE  UNCHANGED Atomic!vars
  <2>1. pc[t] = "full" /\ pc[t] \in Holding /\ Took(t)
    BY <1>9 DEF Pull, Holding
  <2> PICK n \in EdgeNodes : n = Node(t)
    BY <1>0, <2>1 DEF GateInv, CallOK
  <2>2. /\ took'[t] = took[t] + 1 /\ UNCHANGED <<gate, count, restore>>
        /\ \A u \in Tasks \ {t} : Untouched(u)
        /\ \A m \in EdgeNodes \ {n} : wire'[m] = wire[m]
    BY <1>0, <1>9, <2>1 DEF Pull, Took, TypeOK, Untouched
  <2>3. gate[n] = t /\ t # NoTask /\ settledCount[n] = restore[t]
    BY <2>1, HolderSettled, NoTaskAssumption
  <2>4. SubSeq(wire'[n], 1, Len(wire'[n]) - took'[t]) = settledWire[n]
    BY <2>1, <2>2, TookUnsettled
  <2>5. SettledSame(n)
    BY <2>2, <2>3, <2>4, HolderSettledNext DEF SettledSame
  <2>6. \A m \in EdgeNodes \ {n} : SettledSame(m)
    BY <1>0, <2>1, <2>2, OthersSettled
  <2> QED BY <2>5, <2>6, Stutter
<1>10. ASSUME Drain \/ Discard \/ Close \/ UNCHANGED vars
       PROVE  UNCHANGED Atomic!vars
  <2>1. UNCHANGED <<gate, count, pc, call, msg, restore, took, wire>>
    BY <1>10 DEF Drain, Discard, Close, vars
  <2> QED BY <1>1, <2>1 DEF Untouched
<1> QED
  BY <1>2, <1>3, <1>4, <1>5, <1>6, <1>7, <1>8, <1>9, <1>10 DEF Next, TaskStep, Cancel

\* Nothing is settled at first.
LEMMA InitRefines == Init => Atomic!Init
<1> SUFFICES ASSUME Init PROVE Atomic!Init
  OBVIOUS
<1>1. \A n \in EdgeNodes : settledWire[n] = <<>> /\ settledCount[n] = 0
  <2>1. \A n \in EdgeNodes : wire[n] = <<>> /\ Pending(n) = 0 /\ gate[n] = NoTask /\ count[n] = 0
    BY DEF Init, Pending
  <2>2. SubSeq(<<>>, 1, Len(<<>>) - 0) = <<>>
    BY SubSeqEmpty
  <2> QED BY <2>1, <2>2 DEF settledWire, settledCount
<1>2. /\ settledWire = [n \in EdgeNodes |-> <<>>]
      /\ settledCount = [n \in EdgeNodes |-> 0]
  BY <1>1 DEF settledWire, settledCount
<1> QED BY <1>2 DEF Atomic!Init

\* The gate makes every publish of an edge node take effect at one point in
\* time (ADR-0005): SeqGate implements AtomicPublish.
THEOREM PublishesAreAtomic == Spec => AtomicSpec
<1>1. IInv /\ [Next]_vars => [Atomic!Next]_(Atomic!vars)
  BY StepRefines
<1> QED BY <1>1, InitRefines, Invariance, PTL DEF Spec, AtomicSpec, Atomic!Spec
=============================================================================
