--------------------------- MODULE SeqGateProofs ---------------------------
(***************************************************************************)
(* Proofs about SeqGate, for any number of tasks and edge nodes, any size  *)
(* of the channel and any SeqMod >= 2.                                     *)
(*                                                                         *)
(* The argument: while a gate is held nobody else moves its count, so the  *)
(* number that a rollback restores is the number of the last message that  *)
(* was kept. GateInv says who holds a gate and where that call stands,     *)
(* WireOK ties the settled count to the messages on the wire.              *)
(***************************************************************************)
EXTENDS SeqGate, SequenceTheorems, TLAPS

\* The count stays in one byte, and a DBIRTH's 1 is a number.
LEMMA SuccessorType ==
    /\ \A s \in SeqNumber : Successor(s) \in SeqNumber
    /\ 0 \in SeqNumber /\ 1 \in SeqNumber /\ Successor(0) = 1
<1>1. SeqMod \in Nat /\ SeqMod >= 2
  BY SeqModAssumption
<1>2. ASSUME NEW s \in SeqNumber PROVE Successor(s) \in SeqNumber
  BY <1>1, <1>2 DEF SeqNumber, Successor
<1>3. 0 \in SeqNumber /\ 1 \in SeqNumber
  BY <1>1 DEF SeqNumber
<1>4. Successor(0) = 1
  BY <1>1 DEF Successor
<1> QED BY <1>2, <1>3, <1>4

----------------------------------------------------------------------------
(* The wire of one edge node.                                              *)

\* The last p messages of w belong to a call that is still running; c is the
\* number of the last kept message before them.
WireOK(w, p, c) ==
    LET s == Len(w) - p IN
    /\ s >= 0
    /\ NumbersFollow(w)
    /\ \A i \in 1 .. s : LastKeptBefore(w, i, s + 1) => w[i].seq = c
    /\ NoneKeptBefore(w, s + 1) => c = 0
    /\ \A j \in (s + 1) .. Len(w) : w[j].kept /\ CountsOn(w[j], c)

\* A message that counts on from the settled number may follow.
LEMMA WireExtends ==
    ASSUME NEW w \in Seq(Taken), NEW p \in Nat, NEW c \in SeqNumber, NEW e \in Taken,
           WireOK(w, p, c), e.kept, CountsOn(e, c),
           p = 0 \/ e.type = "DBIRTH"
    PROVE  WireOK(Append(w, e), p + 1, c)
<1> DEFINE v == Append(w, e)
           s == Len(w) - p
<1>1. /\ v \in Seq(Taken) /\ Len(v) = Len(w) + 1 /\ Len(w) \in Nat
      /\ \A i \in 1 .. Len(w) : v[i] = w[i]
      /\ v[Len(w) + 1] = e
  OBVIOUS
<1>2. Len(v) - (p + 1) = s /\ s >= 0 /\ s \in Nat
  BY <1>1 DEF WireOK
<1>3. \A i, j \in Nat : j <= Len(w) + 1 /\ 1 <= i =>
         /\ LastKeptBefore(v, i, j) <=> LastKeptBefore(w, i, j)
  BY <1>1 DEF LastKeptBefore
<1>4. \A j \in Nat : j <= Len(w) + 1 => (NoneKeptBefore(v, j) <=> NoneKeptBefore(w, j))
  BY <1>1 DEF NoneKeptBefore
<1>5. NumbersFollow(v)
  <2>1. ASSUME NEW j \in 1 .. Len(w), NEW i \in 1 .. Len(v), LastKeptBefore(v, i, j)
        PROVE  CountsOn(v[j], v[i].seq)
    <3>1. i \in 1 .. Len(w) /\ LastKeptBefore(w, i, j)
      BY <1>1, <1>3, <2>1 DEF LastKeptBefore
    <3> QED BY <1>1, <3>1 DEF WireOK, NumbersFollow
  <2>2. ASSUME NEW j \in 1 .. Len(w), NoneKeptBefore(v, j)
        PROVE  CountsOn(v[j], 0)
    BY <1>1, <1>4, <2>2 DEF WireOK, NumbersFollow
  <2>3. ASSUME NEW i \in 1 .. Len(v), LastKeptBefore(v, i, Len(v))
        PROVE  CountsOn(v[Len(v)], v[i].seq)
    <3>1. CASE e.type = "DBIRTH"
      BY <1>1, <3>1 DEF CountsOn
    <3>2. CASE p = 0
      <4>1. i \in 1 .. Len(w) /\ LastKeptBefore(w, i, Len(w) + 1)
        BY <1>1, <1>3, <2>3 DEF LastKeptBefore
      <4>2. w[i].seq = c
        BY <3>2, <4>1, <1>1 DEF WireOK
      <4> QED BY <1>1, <4>1, <4>2
    <3> QED BY <3>1, <3>2
  <2>4. ASSUME NoneKeptBefore(v, Len(v))
        PROVE  CountsOn(v[Len(v)], 0)
    <3>1. CASE e.type = "DBIRTH"
      BY <1>1, <3>1 DEF CountsOn
    <3>2. CASE p = 0
      <4>1. NoneKeptBefore(w, Len(w) + 1)
        BY <1>1, <1>4, <2>4
      <4>2. c = 0
        BY <3>2, <4>1, <1>1 DEF WireOK
      <4> QED BY <1>1, <4>2
    <3> QED BY <3>1, <3>2
  <2> QED BY <1>1, <2>1, <2>2, <2>3, <2>4 DEF NumbersFollow
<1>6. \A i \in 1 .. s : LastKeptBefore(v, i, s + 1) => v[i].seq = c
  BY <1>1, <1>2, <1>3 DEF WireOK
<1>7. NoneKeptBefore(v, s + 1) => c = 0
  BY <1>1, <1>2, <1>4 DEF WireOK
<1>8. \A j \in (s + 1) .. Len(v) : v[j].kept /\ CountsOn(v[j], c)
  BY <1>1, <1>2 DEF WireOK
<1> QED BY <1>2, <1>5, <1>6, <1>7, <1>8 DEF WireOK

\* A call that ends well settles on the number of its last message.
LEMMA WireCommits ==
    ASSUME NEW w \in Seq(Taken), NEW p \in Nat \ {0}, NEW c \in SeqNumber,
           WireOK(w, p, c)
    PROVE  WireOK(w, 0, w[Len(w)].seq)
<1>1. Len(w) \in Nat /\ Len(w) > 0 /\ w[Len(w)].kept
  BY DEF WireOK
<1>2. \A i \in 1 .. Len(w) : LastKeptBefore(w, i, Len(w) + 1) => i = Len(w)
  BY <1>1 DEF LastKeptBefore
<1>3. ~NoneKeptBefore(w, Len(w) + 1)
  BY <1>1 DEF NoneKeptBefore
<1> QED BY <1>1, <1>2, <1>3 DEF WireOK

\* What CutLast does to a sequence.
LEMMA CutLastType ==
    ASSUME NEW w \in Seq(Taken), NEW p \in Nat
    PROVE  /\ CutLast(w, p) \in Seq(Taken)
           /\ Len(CutLast(w, p)) = Len(w)
           /\ \A i \in 1 .. Len(w) :
                 /\ CutLast(w, p)[i].type = w[i].type
                 /\ CutLast(w, p)[i].seq = w[i].seq
                 /\ CutLast(w, p)[i].kept => i + p <= Len(w)
                 /\ i + p <= Len(w) => CutLast(w, p)[i].kept = w[i].kept
<1> DEFINE v == CutLast(w, p)
<1>1. Len(w) \in Nat /\ \A i \in 1 .. Len(w) : w[i] \in Taken
  OBVIOUS
<1>2. \A i \in 1 .. Len(w) : v[i] \in Taken
  BY <1>1 DEF CutLast, Taken
<1>3. v \in Seq(Taken) /\ Len(v) = Len(w)
  BY <1>1, <1>2 DEF CutLast
<1>4. ASSUME NEW i \in 1 .. Len(w)
      PROVE  /\ v[i].type = w[i].type
             /\ v[i].seq = w[i].seq
             /\ v[i].kept => i + p <= Len(w)
             /\ i + p <= Len(w) => v[i].kept = w[i].kept
  <2>1. CASE i + p <= Len(w)
    <3>1. v[i] = w[i]
      BY <1>1, <2>1 DEF CutLast
    <3> HIDE DEF v
    <3> QED BY <2>1, <3>1
  <2>2. CASE i + p > Len(w)
    <3>1. v[i] = [w[i] EXCEPT !.kept = FALSE] /\ w[i] \in Taken
      BY <1>1, <2>2 DEF CutLast
    <3>2. v[i].type = w[i].type /\ v[i].seq = w[i].seq /\ v[i].kept = FALSE
      BY <3>1 DEF Taken
    <3>3. ~(i + p <= Len(w))
      BY <1>1, <2>2
    <3> HIDE DEF v
    <3> QED BY <3>2, <3>3
  <2> QED BY <1>1, <2>1, <2>2
<1> QED BY <1>3, <1>4

\* A call that is cut off leaves its messages behind and the number where it
\* was: they counted on from it, and so does whatever comes next.
LEMMA WireCutsOff ==
    ASSUME NEW w \in Seq(Taken), NEW p \in Nat, NEW c \in SeqNumber,
           WireOK(w, p, c)
    PROVE  WireOK(CutLast(w, p), 0, c)
<1> DEFINE v == CutLast(w, p)
           s == Len(w) - p
<1>1. /\ v \in Seq(Taken) /\ Len(v) = Len(w) /\ Len(w) \in Nat /\ s \in Nat
      /\ \A i \in 1 .. Len(w) : v[i].type = w[i].type /\ v[i].seq = w[i].seq
      /\ \A i \in 1 .. Len(w) : v[i].kept => i <= s
      /\ \A i \in 1 .. Len(w) : i <= s => v[i].kept = w[i].kept
  <2>1. Len(w) \in Nat /\ s \in Nat
    BY DEF WireOK
  <2>2. /\ v \in Seq(Taken) /\ Len(v) = Len(w)
        /\ \A i \in 1 .. Len(w) : /\ v[i].type = w[i].type /\ v[i].seq = w[i].seq
                                  /\ v[i].kept => i + p <= Len(w)
                                  /\ i + p <= Len(w) => v[i].kept = w[i].kept
    BY CutLastType
  <2>3. \A i \in 1 .. Len(w) : i + p <= Len(w) <=> i <= s
    BY <2>1
  <2> HIDE DEF v, s
  <2> QED BY <2>1, <2>2, <2>3
<1>2. \A j \in 1 .. Len(w) : \A q \in SeqNumber : CountsOn(w[j], q) => CountsOn(v[j], q)
  BY <1>1 DEF CountsOn
<1>3. ASSUME NEW i \in 1 .. Len(w), NEW j \in 1 .. (Len(w) + 1), LastKeptBefore(v, i, j)
      PROVE  /\ i <= s
             /\ j <= s => LastKeptBefore(w, i, j)
             /\ j > s => LastKeptBefore(w, i, s + 1) /\ w[i].seq = c
  <2>1. i <= s /\ i < j /\ w[i].kept
    BY <1>1, <1>3 DEF LastKeptBefore
  <2>2. ASSUME NEW k \in (i + 1) .. (j - 1), k <= s
        PROVE  ~w[k].kept
    <3>1. ~v[k].kept
      BY <1>3 DEF LastKeptBefore
    <3>2. k \in 1 .. Len(w) /\ v[k].kept = w[k].kept
      BY <1>1, <2>2
    <3> HIDE DEF v
    <3> QED BY <3>1, <3>2
  <2>3. j <= s => LastKeptBefore(w, i, j)
    BY <1>1, <2>1, <2>2 DEF LastKeptBefore
  <2>4. j > s => LastKeptBefore(w, i, s + 1)
    BY <1>1, <2>1, <2>2 DEF LastKeptBefore
  <2> QED BY <1>1, <2>1, <2>3, <2>4 DEF WireOK
<1>4. ASSUME NEW j \in 1 .. (Len(w) + 1), NoneKeptBefore(v, j)
      PROVE  /\ j <= s => NoneKeptBefore(w, j)
             /\ j > s => NoneKeptBefore(w, s + 1) /\ c = 0
  <2>1. ASSUME NEW k \in 1 .. (j - 1), k <= s
        PROVE  ~w[k].kept
    <3>1. ~v[k].kept
      BY <1>4 DEF NoneKeptBefore
    <3>2. k \in 1 .. Len(w) /\ v[k].kept = w[k].kept
      BY <1>1, <2>1
    <3> HIDE DEF v
    <3> QED BY <3>1, <3>2
  <2> QED BY <1>1, <2>1 DEF NoneKeptBefore, WireOK
<1>5. NumbersFollow(v)
  <2>1. \A i \in 1 .. Len(w) : w[i].seq \in SeqNumber
    <3>1. \A i \in 1 .. Len(w) : w[i] \in Taken
      OBVIOUS
    <3> QED BY <3>1 DEF Taken
  <2>2. ASSUME NEW j \in 1 .. Len(w), NEW i \in 1 .. Len(w), LastKeptBefore(v, i, j)
        PROVE  CountsOn(v[j], v[i].seq)
    <3>1. CASE j <= s
      BY <1>1, <1>2, <1>3, <2>1, <2>2, <3>1 DEF WireOK, NumbersFollow
    <3>2. CASE j > s
      <4>1. w[i].seq = c /\ v[i].seq = w[i].seq
        BY <1>1, <1>3, <2>2, <3>2
      <4>2. CountsOn(w[j], c)
        BY <1>1, <3>2 DEF WireOK
      <4>3. CountsOn(v[j], c)
        BY <1>2, <4>2
      <4> QED BY <4>1, <4>3
    <3> QED BY <1>1, <3>1, <3>2
  <2>3. ASSUME NEW j \in 1 .. Len(w), NoneKeptBefore(v, j)
        PROVE  CountsOn(v[j], 0)
    <3>1. CASE j <= s
      BY <1>1, <1>2, <1>4, <2>3, <3>1, SuccessorType DEF WireOK, NumbersFollow
    <3>2. CASE j > s
      BY <1>1, <1>2, <1>4, <2>3, <3>2 DEF WireOK
    <3> QED BY <1>1, <3>1, <3>2
  <2> QED BY <1>1, <2>2, <2>3 DEF NumbersFollow
<1>6. \A i \in 1 .. Len(v) : LastKeptBefore(v, i, Len(v) + 1) => v[i].seq = c
  BY <1>1, <1>3
<1>7. NoneKeptBefore(v, Len(v) + 1) => c = 0
  BY <1>1, <1>4
<1> QED BY <1>1, <1>5, <1>6, <1>7 DEF WireOK
----------------------------------------------------------------------------
(* The inductive invariant.                                                *)

\* The messages of every edge node follow on from the settled count.
WireInv == \A n \in EdgeNodes : WireOK(wire[n], Pending(n), settledCount[n])

\* What the call of t sent last: the message in hand, or the NBIRTH of a birth
\* that goes on with its DBIRTH.
SentLast(t) ==
    LET w == wire[Node(t)] IN
    /\ pc[t] = "taken" =>
          /\ Len(w) > 0
          /\ w[Len(w)].type = msg[t].type /\ w[Len(w)].seq = msg[t].seq
    /\ (pc[t] \in {"send", "full"} /\ msg[t].type = "DBIRTH") =>
          /\ Len(w) > 0
          /\ w[Len(w)].type = "NBIRTH"

LastInv == \A t \in Tasks : SentLast(t)

IInv == TypeOK /\ GateInv /\ WireInv /\ LastInv /\ BirthPairTogether

\* A message that leaves its future is well formed.
LEMMA TookType ==
    ASSUME TypeOK, NEW t \in Tasks, Took(t)
    PROVE  wire' \in [EdgeNodes -> Seq(Taken)]
<1> DEFINE e == [type |-> msg[t].type, seq |-> msg[t].seq, kept |-> TRUE]
<1>1. e \in Taken
  BY DEF TypeOK, Message, Taken
<1>2. wire' = [wire EXCEPT ![Node(t)] = Append(@, e)]
  BY DEF Took
<1>3. \A n \in EdgeNodes : Append(wire[n], e) \in Seq(Taken)
  BY <1>1 DEF TypeOK
<1> HIDE DEF e
<1> QED BY <1>2, <1>3 DEF TypeOK

\* The bookkeeping variables of a task keep their types when its call ends.
LEMMA EndCallType ==
    ASSUME TypeOK, NEW t \in Tasks, EndCall(t)
    PROVE  /\ pc' \in [Tasks -> {"idle", "gate", "send", "full", "taken"}]
           /\ call' \in [Tasks -> [node : EdgeNodes, kind : Kinds] \cup {NoCall}]
           /\ msg' \in [Tasks -> Message]
           /\ restore' \in [Tasks -> SeqNumber]
           /\ took' \in [Tasks -> 0 .. 2]
BY SuccessorType DEF TypeOK, EndCall, NoMsg, Message, Types

\* A rollback keeps the types.
LEMMA DropType ==
    ASSUME TypeOK, NEW t \in Tasks, DropUncommitted(t)
    PROVE  TypeOK'
<1>1. wire' \in [EdgeNodes -> Seq(Taken)]
  <2>1. \A n \in EdgeNodes : CutLast(wire[n], took[t]) \in Seq(Taken)
    <3>1. took[t] \in Nat
      BY DEF TypeOK
    <3> QED BY <3>1, CutLastType DEF TypeOK
  <2>2. wire' = [wire EXCEPT ![Node(t)] = CutLast(@, took[t])]
    BY DEF DropUncommitted
  <2> QED BY <2>1, <2>2 DEF TypeOK
<1>2. gate' \in [EdgeNodes -> Tasks \cup {NoTask}] /\ count' \in [EdgeNodes -> SeqNumber]
  BY DEF TypeOK, DropUncommitted
<1>3. queued' \in 0 .. Capacity /\ closed' \in BOOLEAN
  BY DEF TypeOK, DropUncommitted
<1>4. EndCall(t)
  BY DEF DropUncommitted
<1> QED BY <1>1, <1>2, <1>3, <1>4, EndCallType DEF TypeOK

\* The end of a successful handover keeps the types of what it changes.
LEMMA ContinueType ==
    ASSUME TypeOK, GateInv, NEW t \in Tasks, pc[t] # "idle", Continue(t)
    PROVE  /\ gate' \in [EdgeNodes -> Tasks \cup {NoTask}]
           /\ count' \in [EdgeNodes -> SeqNumber]
           /\ pc' \in [Tasks -> {"idle", "gate", "send", "full", "taken"}]
           /\ call' \in [Tasks -> [node : EdgeNodes, kind : Kinds] \cup {NoCall}]
           /\ msg' \in [Tasks -> Message]
           /\ restore' \in [Tasks -> SeqNumber]
           /\ took' \in [Tasks -> 0 .. 2]
<1>1. CASE MoreToSend(t)
  <2>1. Node(t) \in EdgeNodes /\ count[Node(t)] \in SeqNumber
    BY DEF GateInv, CallOK, TypeOK
  <2>2. Successor(count[Node(t)]) \in SeqNumber
    BY <2>1, SuccessorType
  <2>3. [type |-> "DBIRTH", seq |-> Successor(count[Node(t)])] \in Message
    BY <2>2 DEF Message, Types
  <2>4. NextMessage(t)
    BY <1>1 DEF Continue
  <2>5. msg' \in [Tasks -> Message] /\ count' \in [EdgeNodes -> SeqNumber]
    BY <2>2, <2>3, <2>4 DEF NextMessage, TypeOK
  <2>6. /\ pc' \in [Tasks -> {"idle", "gate", "send", "full", "taken"}]
        /\ took' \in [Tasks -> 0 .. 2]
    BY <2>4 DEF NextMessage, TypeOK
  <2> QED BY <2>4, <2>5, <2>6 DEF NextMessage, TypeOK
<1>2. CASE ~MoreToSend(t)
  <2>1. EndCall(t)
    BY <1>2 DEF Continue, CommitAndDrop
  <2>2. gate' \in [EdgeNodes -> Tasks \cup {NoTask}] /\ count' \in [EdgeNodes -> SeqNumber]
    BY <1>2 DEF Continue, CommitAndDrop, TypeOK
  <2> QED BY <2>1, <2>2, EndCallType
<1> QED BY <1>1, <1>2

\* Every step keeps the types.
LEMMA TypeStep ==
    ASSUME TypeOK, GateInv, [Next]_vars
    PROVE  TypeOK'
<1>1. ASSUME NEW t \in Tasks, NEW n \in EdgeNodes, NEW k \in Kinds, Call(t, n, k)
      PROVE  TypeOK'
  BY <1>1 DEF Call, TypeOK
<1>2. ASSUME NEW t \in Tasks, Reserve(t)
      PROVE  TypeOK'
  <2>1. Node(t) \in EdgeNodes /\ count[Node(t)] \in SeqNumber
    BY <1>2 DEF Reserve, GateInv, CallOK, TypeOK
  <2>2. Step(call[t].kind, count[Node(t)]) \in SeqNumber
    BY <2>1, SuccessorType DEF Step
  <2> QED BY <1>2, <2>1, <2>2 DEF Reserve, TypeOK, Message, Types
<1>3. ASSUME NEW t \in Tasks, SendWithRoom(t)
      PROVE  TypeOK'
  <2>1. wire' \in [EdgeNodes -> Seq(Taken)]
    BY <1>3, TookType DEF SendWithRoom
  <2>2. queued' \in 0 .. Capacity /\ closed' \in BOOLEAN
    BY <1>3, CapacityAssumption DEF SendWithRoom, TypeOK
  <2>3. pc[t] # "idle" /\ Continue(t)
    BY <1>3 DEF SendWithRoom
  <2> QED BY <2>1, <2>2, <2>3, ContinueType DEF TypeOK
<1>4. ASSUME NEW t \in Tasks, SendFindsFull(t)
      PROVE  TypeOK'
  BY <1>4 DEF SendFindsFull, TypeOK
<1>5. ASSUME NEW t \in Tasks, Refused(t)
      PROVE  TypeOK'
  BY <1>5, DropType DEF Refused
<1>6. ASSUME NEW t \in Tasks, Resume(t)
      PROVE  TypeOK'
  <2>1. pc[t] # "idle" /\ Continue(t)
    BY <1>6 DEF Resume
  <2>2. queued' \in 0 .. Capacity /\ closed' \in BOOLEAN /\ wire' \in [EdgeNodes -> Seq(Taken)]
    BY <1>6 DEF Resume, TypeOK
  <2> QED BY <2>1, <2>2, ContinueType DEF TypeOK
<1>7. ASSUME NEW t \in Tasks, CancelAtGate(t)
      PROVE  TypeOK'
  BY <1>7, EndCallType DEF CancelAtGate, TypeOK
<1>8. ASSUME NEW t \in Tasks, CancelWaiting(t) \/ CancelTaken(t)
      PROVE  TypeOK'
  BY <1>8, DropType DEF CancelWaiting, CancelTaken
<1>9. ASSUME NEW t \in Tasks, Pull(t)
      PROVE  TypeOK'
  <2>1. wire' \in [EdgeNodes -> Seq(Taken)]
    BY <1>9, TookType DEF Pull
  <2>2. took[t] + 1 \in 0 .. 2
    <3>1. pc[t] = "full"
      BY <1>9 DEF Pull
    <3>2. OnFirstMessage(t) \/ OnSecondMessage(t)
      BY <3>1 DEF GateInv, CallOK, Holding
    <3>3. took[t] = 0 \/ took[t] = 1
      BY <3>1, <3>2 DEF OnFirstMessage, OnSecondMessage
    <3> QED BY <3>3
  <2> QED BY <1>9, <2>1, <2>2 DEF Pull, TypeOK
<1>10. ASSUME Drain \/ Discard \/ Close
       PROVE  TypeOK'
  <2>1. queued' \in 0 .. Capacity
    <3>1. queued \in 0 .. Capacity
      BY DEF TypeOK
    <3>2. \/ queued' \in {queued, 0}
          \/ queued > 0 /\ queued' = queued - 1
      BY <1>10 DEF Drain, Discard, Close
    <3> QED BY <3>1, <3>2, CapacityAssumption
  <2>2. closed' \in BOOLEAN
    BY <1>10, Zenon DEF Drain, Discard, Close, TypeOK
  <2>3. UNCHANGED <<gate, count, pc, call, msg, restore, took, wire>>
    BY <1>10 DEF Drain, Discard, Close
  <2> QED BY <2>1, <2>2, <2>3 DEF TypeOK
<1>11. CASE UNCHANGED vars
  BY <1>11 DEF vars, TypeOK
<1> QED
  BY <1>1, <1>2, <1>3, <1>4, <1>5, <1>6, <1>7, <1>8, <1>9, <1>10, <1>11
     DEF Next, TaskStep, Cancel
----------------------------------------------------------------------------
(* Who holds a gate.                                                       *)

\* Task u takes no part in the step.
Untouched(u) ==
    /\ pc'[u] = pc[u] /\ call'[u] = call[u] /\ msg'[u] = msg[u]
    /\ restore'[u] = restore[u] /\ took'[u] = took[u]

\* A task that takes no part keeps its place, if its gate is left alone.
LEMMA OthersOK ==
    ASSUME GateInv, NEW u \in Tasks, Untouched(u),
           pc[u] \in Holding =>
              gate'[Node(u)] = gate[Node(u)] /\ count'[Node(u)] = count[Node(u)]
    PROVE  CallOK(u)' /\ Node(u)' = Node(u)
<1>1. CallOK(u)
  BY DEF GateInv
<1>2. Node(u)' = Node(u)
  BY DEF Untouched, Node
<1>3. OnFirstMessage(u) => OnFirstMessage(u)'
  BY DEF Untouched, OnFirstMessage, Step, Successor
<1>4. OnSecondMessage(u) => OnSecondMessage(u)'
  BY DEF Untouched, OnSecondMessage
<1> QED BY <1>1, <1>2, <1>3, <1>4 DEF CallOK, Untouched

\* Two calls that hold a gate hold different ones.
LEMMA OneHolder ==
    ASSUME GateInv, NEW t \in Tasks, NEW u \in Tasks \ {t},
           pc[t] \in Holding, pc[u] \in Holding
    PROVE  Node(u) # Node(t)
BY DEF GateInv, CallOK

\* A call that ends leaves everybody else alone.
LEMMA EndCallFrame ==
    ASSUME TypeOK, NEW t \in Tasks, EndCall(t)
    PROVE  /\ pc'[t] = "idle" /\ took'[t] = 0
           /\ \A u \in Tasks \ {t} : Untouched(u)
BY DEF TypeOK, EndCall, Untouched

\* The holder ends its call and gives its gate back.
LEMMA ReleaseStep ==
    ASSUME TypeOK, GateInv, NEW t \in Tasks, pc[t] \in Holding, EndCall(t),
           gate' = [gate EXCEPT ![Node(t)] = NoTask],
           \A n \in EdgeNodes \ {Node(t)} : count'[n] = count[n]
    PROVE  GateInv'
<1>1. Node(t) \in EdgeNodes /\ gate[Node(t)] = t
  BY DEF GateInv, CallOK, Holding
<1>2. CallOK(t)'
  BY EndCallFrame DEF CallOK, Holding
<1>3. ASSUME NEW u \in Tasks \ {t}
      PROVE  CallOK(u)' /\ Node(u)' = Node(u) /\ Untouched(u)
  <2>1. Untouched(u)
    BY EndCallFrame
  <2>2. ASSUME pc[u] \in Holding
        PROVE  gate'[Node(u)] = gate[Node(u)] /\ count'[Node(u)] = count[Node(u)]
    <3>1. Node(u) # Node(t)
      BY <2>2, OneHolder
    <3>2. Node(u) \in EdgeNodes
      BY <2>2 DEF GateInv, CallOK, Holding
    <3> QED BY <3>1, <3>2 DEF TypeOK
  <2> QED BY <2>1, <2>2, OthersOK
<1>4. ASSUME NEW n \in EdgeNodes, gate'[n] # NoTask
      PROVE  pc'[gate'[n]] \in Holding /\ call'[gate'[n]].node = n
  <2>1. n # Node(t) /\ gate'[n] = gate[n]
    BY <1>1, <1>4 DEF TypeOK
  <2>2. gate[n] \in Tasks /\ pc[gate[n]] \in Holding /\ Node(gate[n]) = n
    BY <1>4, <2>1 DEF GateInv, TypeOK
  <2>3. gate[n] # t
    BY <2>1, <2>2
  <2> QED BY <1>3, <2>1, <2>2, <2>3 DEF Untouched, Node
<1> QED BY <1>2, <1>3, <1>4 DEF GateInv, Node

\* The holder moves on and keeps its gate.
LEMMA KeepStep ==
    ASSUME TypeOK, GateInv, NEW t \in Tasks, pc[t] \in Holding, pc'[t] \in Holding,
           UNCHANGED <<gate, call>>, CallOK(t)',
           \A u \in Tasks \ {t} : Untouched(u),
           \A n \in EdgeNodes \ {Node(t)} : count'[n] = count[n]
    PROVE  GateInv'
<1>1. ASSUME NEW u \in Tasks \ {t}
      PROVE  CallOK(u)'
  <2>1. ASSUME pc[u] \in Holding
        PROVE  gate'[Node(u)] = gate[Node(u)] /\ count'[Node(u)] = count[Node(u)]
    <3>1. Node(u) # Node(t)
      BY <2>1, OneHolder
    <3>2. Node(u) \in EdgeNodes
      BY <2>1 DEF GateInv, CallOK, Holding
    <3> QED BY <3>1, <3>2
  <2> QED BY <2>1, OthersOK
<1>2. ASSUME NEW n \in EdgeNodes, gate'[n] # NoTask
      PROVE  pc'[gate'[n]] \in Holding /\ call'[gate'[n]].node = n
  <2>1. gate[n] \in Tasks /\ pc[gate[n]] \in Holding /\ Node(gate[n]) = n /\ gate'[n] = gate[n]
    BY <1>2 DEF GateInv, TypeOK
  <2>2. pc'[gate[n]] \in Holding
    BY <2>1 DEF Untouched
  <2> QED BY <2>1, <2>2 DEF Node
<1> QED BY <1>1, <1>2 DEF GateInv, Node
\* A task without a gate moves on and still has none.
LEMMA OutsideStep ==
    ASSUME TypeOK, GateInv, NEW t \in Tasks, pc[t] \notin Holding, pc'[t] \notin Holding,
           UNCHANGED <<gate, count>>, CallOK(t)',
           \A u \in Tasks \ {t} : Untouched(u)
    PROVE  GateInv'
<1>1. ASSUME NEW u \in Tasks \ {t}
      PROVE  CallOK(u)'
  BY OthersOK
<1>2. ASSUME NEW n \in EdgeNodes, gate'[n] # NoTask
      PROVE  pc'[gate'[n]] \in Holding /\ call'[gate'[n]].node = n
  <2>1. gate[n] \in Tasks /\ pc[gate[n]] \in Holding /\ Node(gate[n]) = n /\ gate'[n] = gate[n]
    BY <1>2 DEF GateInv, TypeOK
  <2>2. gate[n] # t
    BY <2>1
  <2> QED BY <2>1, <2>2 DEF Node, Untouched
<1> QED BY <1>1, <1>2 DEF GateInv, Node

\* A draw makes its task the one holder of the gate.
LEMMA ReserveStep ==
    ASSUME TypeOK, GateInv, NEW t \in Tasks, Reserve(t)
    PROVE  GateInv'
<1> DEFINE n == Node(t)
           s == Step(call[t].kind, count[n])
<1>1. n \in EdgeNodes /\ gate[n] = NoTask /\ pc[t] = "gate" /\ took[t] = 0
  BY DEF Reserve, GateFree, GateInv, CallOK, Holding
<1>2. /\ gate' = [gate EXCEPT ![n] = t] /\ count' = [count EXCEPT ![n] = s]
      /\ restore'[t] = count[n] /\ pc'[t] = "send" /\ UNCHANGED <<call, took>>
      /\ msg'[t] = [type |-> IF call[t].kind = "data" THEN "DATA" ELSE "NBIRTH", seq |-> s]
  BY DEF Reserve, TypeOK
<1>3. \A u \in Tasks \ {t} : Untouched(u)
  BY DEF Reserve, TypeOK, Untouched
<1>4. CallOK(t)'
  <2>1. OnFirstMessage(t)'
    BY <1>1, <1>2 DEF OnFirstMessage, Step, Successor
  <2>2. gate'[n] = t /\ count'[n] = s
    BY <1>1, <1>2 DEF TypeOK
  <2> QED BY <1>1, <1>2, <2>1, <2>2 DEF CallOK, Holding, Node
<1>5. ASSUME NEW u \in Tasks \ {t}
      PROVE  CallOK(u)'
  <2>1. ASSUME pc[u] \in Holding
        PROVE  gate'[Node(u)] = gate[Node(u)] /\ count'[Node(u)] = count[Node(u)]
    <3>1. Node(u) \in EdgeNodes /\ gate[Node(u)] = u
      BY <2>1 DEF GateInv, CallOK, Holding
    <3>2. Node(u) # n
      BY <1>1, <3>1, NoTaskAssumption
    <3> QED BY <1>2, <3>1, <3>2 DEF TypeOK
  <2> QED BY <1>3, <2>1, OthersOK
<1>6. ASSUME NEW m \in EdgeNodes, gate'[m] # NoTask
      PROVE  pc'[gate'[m]] \in Holding /\ call'[gate'[m]].node = m
  <2>1. CASE m = n
    BY <1>1, <1>2, <2>1 DEF TypeOK, Holding, Node
  <2>2. CASE m # n
    <3>1. gate'[m] = gate[m]
      BY <1>2, <2>2 DEF TypeOK
    <3>2. gate[m] \in Tasks /\ pc[gate[m]] \in Holding /\ Node(gate[m]) = m
      BY <1>6, <3>1 DEF GateInv, TypeOK
    <3>3. gate[m] # t
      BY <1>1, <3>2 DEF Holding
    <3> QED BY <1>3, <3>1, <3>2, <3>3 DEF Node, Untouched
  <2> QED BY <2>1, <2>2
<1> QED BY <1>4, <1>5, <1>6 DEF GateInv, Node

\* A handover keeps the gate for the DBIRTH or gives it back.
LEMMA ContinueStep ==
    ASSUME TypeOK, GateInv, NEW t \in Tasks, pc[t] \in {"send", "taken"}, Continue(t)
    PROVE  GateInv'
<1>1. /\ Node(t) \in EdgeNodes /\ pc[t] \in Holding /\ gate[Node(t)] = t
      /\ count[Node(t)] = msg[t].seq /\ (OnFirstMessage(t) \/ OnSecondMessage(t))
  BY DEF GateInv, CallOK, Holding
<1>2. CASE MoreToSend(t)
  <2>1. NextMessage(t)
    BY <1>2 DEF Continue
  <2>2. /\ \A u \in Tasks \ {t} : Untouched(u)
        /\ \A n \in EdgeNodes \ {Node(t)} : count'[n] = count[n]
        /\ pc'[t] = "send" /\ took'[t] = 1 /\ UNCHANGED <<gate, call, restore>>
    BY <2>1 DEF NextMessage, TypeOK, Untouched
  <2>3. call[t].kind = "birth" /\ msg[t].seq = 0
    BY <1>1, <1>2 DEF MoreToSend, OnFirstMessage, OnSecondMessage, Step
  <2>4. msg'[t] = [type |-> "DBIRTH", seq |-> 1] /\ count'[Node(t)] = 1
    BY <1>1, <2>1, <2>3, SuccessorType DEF NextMessage, TypeOK
  <2>5. OnSecondMessage(t)'
    BY <2>2, <2>3, <2>4 DEF OnSecondMessage
  <2>6. CallOK(t)'
    BY <1>1, <2>2, <2>4, <2>5 DEF CallOK, Holding, Node
  <2> QED BY <1>1, <2>2, <2>6, KeepStep DEF Holding
<1>3. CASE ~MoreToSend(t)
  BY <1>1, <1>3, ReleaseStep DEF Continue, CommitAndDrop
<1> QED BY <1>2, <1>3

\* A rollback gives the gate back.
LEMMA DropStep ==
    ASSUME TypeOK, GateInv, NEW t \in Tasks, pc[t] \in Holding, DropUncommitted(t)
    PROVE  GateInv'
<1>1. \A n \in EdgeNodes \ {Node(t)} : count'[n] = count[n]
  BY DEF DropUncommitted, TypeOK
<1> QED BY <1>1, ReleaseStep DEF DropUncommitted

\* Every step keeps the gates consistent.
LEMMA GateStep ==
    ASSUME TypeOK, GateInv, [Next]_vars
    PROVE  GateInv'
<1>1. ASSUME NEW t \in Tasks, NEW n \in EdgeNodes, NEW k \in Kinds, Call(t, n, k)
      PROVE  GateInv'
  <2>1. /\ pc[t] = "idle" /\ pc'[t] = "gate" /\ call'[t].node = n
        /\ UNCHANGED <<gate, count, took>> /\ \A u \in Tasks \ {t} : Untouched(u)
    BY <1>1 DEF Call, TypeOK, Untouched
  <2>2. took[t] = 0
    BY <2>1 DEF GateInv, CallOK, Holding
  <2>3. CallOK(t)'
    BY <2>1, <2>2 DEF CallOK, Holding, Node
  <2> QED BY <2>1, <2>3, OutsideStep DEF Holding
<1>2. ASSUME NEW t \in Tasks, SendFindsFull(t) \/ Pull(t)
      PROVE  GateInv'
  <2>1. /\ \A u \in Tasks \ {t} : Untouched(u)
        /\ UNCHANGED <<gate, count, call, msg, restore>>
    BY <1>2 DEF SendFindsFull, Pull, TypeOK, Untouched
  <2>2. pc[t] \in Holding /\ pc'[t] \in Holding
    BY <1>2 DEF SendFindsFull, Pull, TypeOK, Holding
  <2>3. CallOK(t)'
    <3>1. CallOK(t) /\ (OnFirstMessage(t) \/ OnSecondMessage(t))
      BY <2>2 DEF GateInv, CallOK
    <3>2. OnFirstMessage(t) => OnFirstMessage(t)'
      BY <1>2, <2>1 DEF SendFindsFull, Pull, TypeOK, OnFirstMessage, Step, Successor
    <3>3. OnSecondMessage(t) => OnSecondMessage(t)'
      BY <1>2, <2>1 DEF SendFindsFull, Pull, TypeOK, OnSecondMessage
    <3> QED BY <2>1, <2>2, <3>1, <3>2, <3>3 DEF CallOK, Node, Holding
  <2> QED BY <2>1, <2>2, <2>3, KeepStep
<1>3. ASSUME NEW t \in Tasks, SendWithRoom(t) \/ Resume(t)
      PROVE  GateInv'
  BY <1>3, ContinueStep DEF SendWithRoom, Resume
<1>4. ASSUME NEW t \in Tasks, Refused(t) \/ CancelWaiting(t) \/ CancelTaken(t)
      PROVE  GateInv'
  BY <1>4, DropStep DEF Refused, CancelWaiting, CancelTaken, Holding
<1>5. ASSUME NEW t \in Tasks, CancelAtGate(t)
      PROVE  GateInv'
  <2>1. /\ pc[t] = "gate" /\ pc'[t] = "idle" /\ took'[t] = 0
        /\ UNCHANGED <<gate, count>> /\ \A u \in Tasks \ {t} : Untouched(u)
    BY <1>5, EndCallFrame DEF CancelAtGate
  <2>2. CallOK(t)'
    BY <2>1 DEF CallOK, Holding
  <2> QED BY <2>1, <2>2, OutsideStep DEF Holding
<1>6. ASSUME Drain \/ Discard \/ Close \/ UNCHANGED vars
      PROVE  GateInv'
  <2>1. UNCHANGED <<gate, count, pc, call, msg, restore, took>>
    BY <1>6 DEF Drain, Discard, Close, vars
  <2>2. ASSUME NEW u \in Tasks
        PROVE  CallOK(u)'
    BY <2>1, OthersOK DEF Untouched
  <2> QED BY <2>1, <2>2 DEF GateInv, Node
<1> QED
  BY <1>1, <1>2, <1>3, <1>4, <1>5, <1>6, ReserveStep DEF Next, TaskStep, Cancel
----------------------------------------------------------------------------
(* The wires.                                                              *)

\* The wire of an edge node stays consistent while nobody touches the node.
LEMMA WireFrame ==
    ASSUME WireInv, NEW n \in EdgeNodes, gate'[n] = gate[n], count'[n] = count[n],
           wire'[n] = wire[n],
           gate[n] # NoTask => /\ restore'[gate[n]] = restore[gate[n]]
                               /\ took'[gate[n]] = took[gate[n]]
    PROVE  WireOK(wire'[n], Pending(n)', settledCount'[n])
<1>1. Pending(n)' = Pending(n)
  BY DEF Pending
<1>2. settledCount'[n] = settledCount[n]
  BY DEF settledCount
<1> QED BY <1>1, <1>2 DEF WireInv

\* A call that holds its gate stands on the settled count of its edge node.
LEMMA HolderWire ==
    ASSUME TypeOK, GateInv, WireInv, NEW t \in Tasks, pc[t] \in Holding
    PROVE  /\ Node(t) \in EdgeNodes /\ gate[Node(t)] = t
           /\ took[t] \in Nat /\ restore[t] \in SeqNumber
           /\ wire[Node(t)] \in Seq(Taken)
           /\ WireOK(wire[Node(t)], took[t], restore[t])
<1>1. Node(t) \in EdgeNodes /\ gate[Node(t)] = t /\ t # NoTask
  BY NoTaskAssumption DEF GateInv, CallOK, Holding
<1>2. Pending(Node(t)) = took[t] /\ settledCount[Node(t)] = restore[t]
  BY <1>1 DEF Pending, settledCount
<1>3. took[t] \in Nat /\ restore[t] \in SeqNumber /\ wire[Node(t)] \in Seq(Taken)
  BY <1>1 DEF TypeOK
<1> QED BY <1>1, <1>2, <1>3 DEF WireInv

\* What the wire of an edge node looks like once the client took a message.
LEMMA TookStep ==
    ASSUME IInv, NEW t \in Tasks, pc[t] \in {"send", "full"}, Took(t)
    PROVE  LET v == wire'[Node(t)] IN
           /\ v \in Seq(Taken) /\ Len(v) > 0
           /\ WireOK(v, took[t] + 1, restore[t])
           /\ v[Len(v)].type = msg[t].type /\ v[Len(v)].seq = msg[t].seq
           /\ BirthsPaired(v)
           /\ \A m \in EdgeNodes \ {Node(t)} : wire'[m] = wire[m]
<1> DEFINE n == Node(t)
           w == wire[n]
           e == [type |-> msg[t].type, seq |-> msg[t].seq, kept |-> TRUE]
           v == wire'[n]
<1>0. TypeOK /\ GateInv /\ WireInv /\ SentLast(t) /\ BirthPairTogether
  BY DEF IInv, LastInv
<1>1. /\ n \in EdgeNodes /\ took[t] \in Nat /\ restore[t] \in SeqNumber
      /\ w \in Seq(Taken) /\ WireOK(w, took[t], restore[t])
  BY <1>0, HolderWire DEF Holding
<1>2. e \in Taken /\ e.kept /\ e.type = msg[t].type /\ e.seq = msg[t].seq
  BY <1>0 DEF TypeOK, Message, Taken
<1>3. v = Append(w, e) /\ \A m \in EdgeNodes \ {n} : wire'[m] = wire[m]
  BY <1>0, <1>1 DEF Took, TypeOK
<1>4. OnFirstMessage(t) \/ OnSecondMessage(t)
  BY <1>0 DEF GateInv, CallOK, Holding
<1>5. CountsOn(e, restore[t]) /\ (took[t] = 0 \/ e.type = "DBIRTH")
  <2>1. CASE OnFirstMessage(t)
    <3>1. took[t] = 0
      BY <2>1 DEF OnFirstMessage
    <3>2. CASE call[t].kind = "data"
      <4>1. e.type = "DATA" /\ e.seq = Successor(restore[t])
        BY <1>2, <2>1, <3>2 DEF OnFirstMessage, Step
      <4> QED BY <3>1, <4>1 DEF CountsOn
    <3>3. CASE call[t].kind # "data"
      <4>1. e.type = "NBIRTH" /\ e.seq = 0
        BY <1>2, <2>1, <3>3 DEF OnFirstMessage, Step
      <4> QED BY <3>1, <4>1 DEF CountsOn
    <3> QED BY <3>2, <3>3
  <2>2. CASE OnSecondMessage(t)
    BY <1>2, <2>2 DEF OnSecondMessage, CountsOn
  <2> QED BY <1>4, <2>1, <2>2
<1>6. WireOK(v, took[t] + 1, restore[t])
  <2> HIDE DEF e, w, n
  <2> QED BY <1>1, <1>2, <1>3, <1>5, WireExtends
<1>7. v \in Seq(Taken) /\ Len(v) = Len(w) + 1 /\ Len(w) \in Nat /\ v[Len(w) + 1] = e
      /\ \A j \in 1 .. Len(w) : v[j] = w[j]
  <2> HIDE DEF e, w, n
  <2> QED BY <1>1, <1>2, <1>3
<1>8. BirthsPaired(v)
  <2>1. ASSUME e.type = "DBIRTH"
        PROVE  Len(w) > 0 /\ w[Len(w)].type = "NBIRTH"
    BY <1>0, <1>2, <2>1 DEF SentLast
  <2>2. BirthsPaired(w)
    BY <1>0, <1>1 DEF BirthPairTogether
  <2> HIDE DEF e, w, n
  <2> QED BY <1>7, <2>1, <2>2 DEF BirthsPaired
<1> HIDE DEF e, w
<1> QED BY <1>2, <1>3, <1>6, <1>7, <1>8
WiresOK == WireInv /\ LastInv /\ BirthPairTogether

\* When the holder of a gate moves, only its own edge node needs a look.
LEMMA HolderMoves ==
    ASSUME IInv, NEW t \in Tasks, pc[t] \in Holding, NEW n \in EdgeNodes, n = Node(t),
           \A u \in Tasks \ {t} : Untouched(u),
           \A m \in EdgeNodes \ {n} :
              gate'[m] = gate[m] /\ count'[m] = count[m] /\ wire'[m] = wire[m],
           WireOK(wire'[n], Pending(n)', settledCount'[n]),
           SentLast(t)', BirthsPaired(wire'[n])
    PROVE  WiresOK'
<1>0. TypeOK /\ GateInv /\ WireInv /\ LastInv /\ BirthPairTogether
  BY DEF IInv
<1>1. ASSUME NEW m \in EdgeNodes \ {n}
      PROVE  WireOK(wire'[m], Pending(m)', settledCount'[m]) /\ BirthsPaired(wire'[m])
  <2>1. ASSUME gate[m] # NoTask
        PROVE  restore'[gate[m]] = restore[gate[m]] /\ took'[gate[m]] = took[gate[m]]
    <3>1. gate[m] \in Tasks /\ Node(gate[m]) = m
      BY <1>0, <2>1 DEF GateInv, TypeOK
    <3> QED BY <3>1 DEF Untouched
  <2>2. WireOK(wire'[m], Pending(m)', settledCount'[m])
    BY <1>0, <2>1, WireFrame
  <2> QED BY <1>0, <2>2 DEF BirthPairTogether
<1>2. ASSUME NEW u \in Tasks \ {t}
      PROVE  SentLast(u)'
  <2>1. CASE pc[u] \notin Holding
    BY <2>1 DEF SentLast, Untouched, Holding
  <2>2. CASE pc[u] \in Holding
    <3>1. Node(u) # Node(t) /\ Node(u) \in EdgeNodes
      BY <1>0, <2>2, OneHolder DEF GateInv, CallOK, Holding
    <3>2. wire'[Node(u)] = wire[Node(u)] /\ Node(u)' = Node(u)
      BY <3>1 DEF Untouched, Node
    <3>3. SentLast(u)
      BY <1>0 DEF LastInv
    <3> QED BY <3>2, <3>3 DEF SentLast, Untouched
  <2> QED BY <2>1, <2>2
<1>3. WireInv'
  BY <1>1 DEF WireInv
<1>4. LastInv'
  BY <1>2 DEF LastInv
<1>5. BirthPairTogether'
  BY <1>1 DEF BirthPairTogether
<1> QED BY <1>3, <1>4, <1>5 DEF WiresOK

\* Nothing a task does without a gate touches a wire.
LEMMA OutsiderMoves ==
    ASSUME IInv, UNCHANGED <<gate, count, wire>>,
           \A u \in Tasks : pc[u] \in Holding => Untouched(u),
           \A u \in Tasks : pc[u] \notin Holding => pc'[u] \notin Holding
    PROVE  WiresOK'
<1>0. TypeOK /\ GateInv /\ WireInv /\ LastInv /\ BirthPairTogether
  BY DEF IInv
<1>1. ASSUME NEW m \in EdgeNodes
      PROVE  WireOK(wire'[m], Pending(m)', settledCount'[m])
  <2>1. ASSUME gate[m] # NoTask
        PROVE  restore'[gate[m]] = restore[gate[m]] /\ took'[gate[m]] = took[gate[m]]
    <3>1. gate[m] \in Tasks /\ pc[gate[m]] \in Holding
      BY <1>0, <2>1 DEF GateInv, TypeOK
    <3> QED BY <3>1 DEF Untouched
  <2> QED BY <1>0, <2>1, WireFrame
<1>2. ASSUME NEW u \in Tasks
      PROVE  SentLast(u)'
  <2>1. CASE pc[u] \in Holding
    BY <1>0, <2>1 DEF LastInv, SentLast, Untouched, Node
  <2>2. CASE pc[u] \notin Holding
    BY <2>2 DEF SentLast, Holding
  <2> QED BY <2>1, <2>2
<1>3. WireInv'
  BY <1>1 DEF WireInv
<1>4. LastInv'
  BY <1>2 DEF LastInv
<1>5. BirthPairTogether'
  BY <1>0 DEF BirthPairTogether
<1> QED BY <1>3, <1>4, <1>5 DEF WiresOK

\* The end of a handover, for a call whose q messages are on the wire v.
LEMMA ContinueWire ==
    ASSUME IInv, NEW t \in Tasks, pc[t] \in {"send", "taken"}, Continue(t),
           NEW v, v = wire'[Node(t)], v \in Seq(Taken), Len(v) > 0,
           NEW q, q = IF pc[t] = "taken" THEN took[t] ELSE took[t] + 1,
           WireOK(v, q, restore[t]), BirthsPaired(v),
           v[Len(v)].type = msg[t].type, v[Len(v)].seq = msg[t].seq,
           \A m \in EdgeNodes \ {Node(t)} : wire'[m] = wire[m]
    PROVE  WiresOK'
<1>0. TypeOK /\ GateInv /\ WireInv
  BY DEF IInv
<1> PICK n \in EdgeNodes : n = Node(t)
  BY <1>0 DEF GateInv, CallOK
<1>1. /\ gate[n] = t /\ count[n] = msg[t].seq /\ t # NoTask
      /\ restore[t] \in SeqNumber /\ (OnFirstMessage(t) \/ OnSecondMessage(t))
  BY <1>0, NoTaskAssumption DEF GateInv, CallOK, Holding, TypeOK
<1>2. q \in Nat \ {0}
  BY <1>1 DEF OnFirstMessage, OnSecondMessage
<1>3. CASE MoreToSend(t)
  <2>1. NextMessage(t)
    BY <1>3 DEF Continue
  <2>2. /\ UNCHANGED <<gate, call, restore>> /\ took'[t] = 1 /\ pc'[t] = "send"
        /\ msg'[t].type = "DBIRTH"
        /\ \A u \in Tasks \ {t} : Untouched(u)
        /\ \A m \in EdgeNodes \ {n} : count'[m] = count[m]
    BY <1>0, <2>1 DEF NextMessage, TypeOK, Untouched
  <2>3. q = 1
    BY <1>1, <1>3 DEF MoreToSend, OnFirstMessage, OnSecondMessage
  <2>4. Pending(n)' = 1 /\ settledCount'[n] = restore[t]
    BY <1>1, <2>2 DEF Pending, settledCount
  <2>5. SentLast(t)'
    BY <1>3, <2>2 DEF SentLast, Node, MoreToSend
  <2>6. WireOK(wire'[n], Pending(n)', settledCount'[n])
    BY <2>3, <2>4
  <2> QED BY <2>2, <2>5, <2>6, HolderMoves DEF Holding
<1>4. CASE ~MoreToSend(t)
  <2>1. CommitAndDrop(t)
    BY <1>4 DEF Continue
  <2>2. /\ gate' = [gate EXCEPT ![n] = NoTask] /\ count' = count /\ EndCall(t)
    BY <2>1 DEF CommitAndDrop
  <2>3. /\ pc'[t] = "idle" /\ \A u \in Tasks \ {t} : Untouched(u)
        /\ \A m \in EdgeNodes \ {n} : gate'[m] = gate[m]
        /\ gate'[n] = NoTask
    BY <1>0, <1>1, <2>2, EndCallFrame DEF TypeOK
  <2>4. Pending(n)' = 0 /\ settledCount'[n] = v[Len(v)].seq
    BY <1>1, <2>2, <2>3 DEF Pending, settledCount
  <2>5. WireOK(v, 0, v[Len(v)].seq)
    BY <1>1, <1>2, WireCommits
  <2>6. SentLast(t)'
    BY <2>3 DEF SentLast
  <2>7. WireOK(wire'[n], Pending(n)', settledCount'[n])
    BY <2>4, <2>5
  <2> QED BY <2>2, <2>3, <2>6, <2>7, HolderMoves DEF Holding
<1> QED BY <1>3, <1>4

\* A rollback leaves the messages on the wire and the settled count alone.
LEMMA DropWire ==
    ASSUME IInv, NEW t \in Tasks, pc[t] \in Holding, DropUncommitted(t)
    PROVE  WiresOK'
<1>0. TypeOK /\ GateInv /\ WireInv /\ BirthPairTogether
  BY DEF IInv
<1> PICK n \in EdgeNodes : n = Node(t)
  BY <1>0 DEF GateInv, CallOK, Holding
<1> DEFINE w == wire[n]
<1>1. /\ gate[n] = t /\ took[t] \in Nat /\ restore[t] \in SeqNumber
      /\ w \in Seq(Taken) /\ WireOK(w, took[t], restore[t])
  BY <1>0, HolderWire
<1>2. /\ wire'[n] = CutLast(w, took[t]) /\ count'[n] = restore[t] /\ gate'[n] = NoTask
      /\ \A m \in EdgeNodes \ {n} :
            gate'[m] = gate[m] /\ count'[m] = count[m] /\ wire'[m] = wire[m]
  BY <1>0, <1>1 DEF DropUncommitted, TypeOK
<1>3. pc'[t] = "idle" /\ \A u \in Tasks \ {t} : Untouched(u)
  BY <1>0, EndCallFrame DEF DropUncommitted
<1>4. WireOK(CutLast(w, took[t]), 0, restore[t])
  BY <1>1, WireCutsOff
<1>5. Pending(n)' = 0 /\ settledCount'[n] = restore[t]
  BY <1>1, <1>2 DEF Pending, settledCount
<1>6. WireOK(wire'[n], Pending(n)', settledCount'[n])
  BY <1>2, <1>4, <1>5
<1>7. BirthsPaired(wire'[n])
  <2>1. BirthsPaired(w)
    BY <1>0, <1>1 DEF BirthPairTogether
  <2>2. Len(wire'[n]) = Len(w) /\ \A i \in 1 .. Len(w) : wire'[n][i].type = w[i].type
    BY <1>1, <1>2, CutLastType
  <2> QED BY <2>1, <2>2, <1>1 DEF BirthsPaired
<1>8. SentLast(t)'
  BY <1>3 DEF SentLast
<1> QED BY <1>2, <1>3, <1>6, <1>7, <1>8, HolderMoves
\* Every step keeps the wires consistent.
LEMMA WireStep ==
    ASSUME IInv, [Next]_vars
    PROVE  WiresOK'
<1>0. TypeOK /\ GateInv /\ WireInv /\ LastInv /\ BirthPairTogether
  BY DEF IInv
<1>1. ASSUME NEW t \in Tasks, NEW n \in EdgeNodes, NEW k \in Kinds, Call(t, n, k)
      PROVE  WiresOK'
  <2>1. /\ pc[t] \notin Holding /\ pc'[t] \notin Holding
        /\ UNCHANGED <<gate, count, wire>> /\ \A u \in Tasks \ {t} : Untouched(u)
    BY <1>0, <1>1 DEF Call, TypeOK, Untouched, Holding
  <2> QED BY <2>1, OutsiderMoves DEF Untouched
<1>2. ASSUME NEW t \in Tasks, Reserve(t)
      PROVE  WiresOK'
  <2> PICK n \in EdgeNodes : n = Node(t)
    BY <1>0, <1>2 DEF Reserve, GateInv, CallOK
  <2>1. /\ gate[n] = NoTask /\ took[t] = 0 /\ pc[t] = "gate" /\ t # NoTask
    BY <1>0, <1>2, NoTaskAssumption DEF Reserve, GateFree, GateInv, CallOK, Holding
  <2>2. /\ gate'[n] = t /\ restore'[t] = count[n] /\ pc'[t] = "send"
        /\ UNCHANGED <<took, wire, call>> /\ msg'[t].type # "DBIRTH"
        /\ \A u \in Tasks \ {t} : Untouched(u)
        /\ \A m \in EdgeNodes \ {n} : gate'[m] = gate[m] /\ count'[m] = count[m]
    BY <1>0, <1>2 DEF Reserve, TypeOK, Untouched
  <2>3. ASSUME NEW m \in EdgeNodes
        PROVE  WireOK(wire'[m], Pending(m)', settledCount'[m])
    <3>1. CASE m = n
      <4>1. Pending(n)' = 0 /\ settledCount'[n] = count[n]
        BY <2>1, <2>2 DEF Pending, settledCount
      <4>2. Pending(n) = 0 /\ settledCount[n] = count[n]
        BY <2>1 DEF Pending, settledCount
      <4> QED BY <1>0, <2>2, <3>1, <4>1, <4>2 DEF WireInv
    <3>2. CASE m # n
      <4>1. gate'[m] = gate[m] /\ count'[m] = count[m] /\ wire'[m] = wire[m]
        BY <2>2, <3>2
      <4>2. gate[m] # NoTask => /\ restore'[gate[m]] = restore[gate[m]]
                                /\ took'[gate[m]] = took[gate[m]]
        BY <1>0, <2>1, <2>2 DEF GateInv, TypeOK, Untouched, Holding
      <4> QED BY <1>0, <4>1, <4>2, WireFrame
    <3> QED BY <3>1, <3>2
  <2>4. ASSUME NEW u \in Tasks
        PROVE  SentLast(u)'
    <3>1. CASE u = t
      BY <2>2, <3>1 DEF SentLast
    <3>2. CASE u # t
      BY <1>0, <2>2, <3>2 DEF LastInv, SentLast, Untouched, Node
    <3> QED BY <3>1, <3>2
  <2>5. BirthPairTogether'
    BY <1>0, <2>2 DEF BirthPairTogether
  <2>6. WireInv'
    BY <2>3 DEF WireInv
  <2>7. LastInv'
    BY <2>4 DEF LastInv
  <2> QED BY <2>5, <2>6, <2>7 DEF WiresOK
<1>3. ASSUME NEW t \in Tasks, SendWithRoom(t)
      PROVE  WiresOK'
  <2>1. pc[t] = "send" /\ Took(t) /\ Continue(t)
    BY <1>3 DEF SendWithRoom
  <2> DEFINE v == wire'[Node(t)]
  <2>2. /\ v \in Seq(Taken) /\ Len(v) > 0 /\ WireOK(v, took[t] + 1, restore[t])
        /\ v[Len(v)].type = msg[t].type /\ v[Len(v)].seq = msg[t].seq
        /\ BirthsPaired(v) /\ \A m \in EdgeNodes \ {Node(t)} : wire'[m] = wire[m]
    BY <2>1, TookStep
  <2> HIDE DEF v
  <2>3. v = wire'[Node(t)]
    BY DEF v
  <2> QED BY <2>1, <2>2, <2>3, ContinueWire
<1>4. ASSUME NEW t \in Tasks, Resume(t)
      PROVE  WiresOK'
  <2>1. pc[t] = "taken" /\ Continue(t) /\ UNCHANGED wire
    BY <1>4 DEF Resume
  <2> DEFINE v == wire'[Node(t)]
  <2>2. Node(t) \in EdgeNodes /\ v = wire[Node(t)] /\ v \in Seq(Taken) /\ WireOK(v, took[t], restore[t])
    BY <1>0, <2>1, HolderWire DEF Holding
  <2>3. Len(v) > 0 /\ v[Len(v)].type = msg[t].type /\ v[Len(v)].seq = msg[t].seq
    BY <1>0, <2>1, <2>2 DEF LastInv, SentLast
  <2>4. BirthsPaired(v)
    BY <1>0, <2>2 DEF BirthPairTogether
  <2>5. v = wire'[Node(t)]
    OBVIOUS
  <2> HIDE DEF v
  <2> QED BY <2>1, <2>2, <2>3, <2>4, <2>5, ContinueWire
<1>5. ASSUME NEW t \in Tasks, Refused(t) \/ CancelWaiting(t) \/ CancelTaken(t)
      PROVE  WiresOK'
  BY <1>5, DropWire DEF Refused, CancelWaiting, CancelTaken, Holding
<1>6. ASSUME NEW t \in Tasks, CancelAtGate(t)
      PROVE  WiresOK'
  <2>1. /\ pc[t] \notin Holding /\ pc'[t] \notin Holding
        /\ UNCHANGED <<gate, count, wire>> /\ \A u \in Tasks \ {t} : Untouched(u)
    BY <1>0, <1>6, EndCallFrame DEF CancelAtGate, Holding
  <2> QED BY <2>1, OutsiderMoves DEF Untouched
<1>7. ASSUME NEW t \in Tasks, SendFindsFull(t)
      PROVE  WiresOK'
  <2> PICK n \in EdgeNodes : n = Node(t)
    BY <1>0, <1>7 DEF SendFindsFull, GateInv, CallOK, Holding
  <2>1. /\ pc[t] = "send" /\ pc'[t] = "full"
        /\ UNCHANGED <<gate, count, call, msg, restore, took, wire>>
        /\ \A u \in Tasks \ {t} : Untouched(u)
    BY <1>0, <1>7 DEF SendFindsFull, TypeOK, Untouched
  <2>2. WireOK(wire'[n], Pending(n)', settledCount'[n])
    BY <1>0, <2>1, WireFrame
  <2>3. SentLast(t)'
    BY <1>0, <2>1 DEF LastInv, SentLast, Node
  <2>4. BirthsPaired(wire'[n])
    BY <1>0, <2>1 DEF BirthPairTogether
  <2> QED BY <2>1, <2>2, <2>3, <2>4, HolderMoves DEF Holding
<1>8. ASSUME NEW t \in Tasks, Pull(t)
      PROVE  WiresOK'
  <2> PICK n \in EdgeNodes : n = Node(t)
    BY <1>0, <1>8 DEF Pull, GateInv, CallOK, Holding
  <2>1. pc[t] = "full" /\ Took(t) /\ t # NoTask
    BY <1>8, NoTaskAssumption DEF Pull
  <2>2. /\ pc'[t] = "taken" /\ took'[t] = took[t] + 1
        /\ UNCHANGED <<gate, count, call, msg, restore>>
        /\ \A u \in Tasks \ {t} : Untouched(u)
    BY <1>0, <1>8 DEF Pull, TypeOK, Untouched
  <2> DEFINE v == wire'[Node(t)]
  <2>3. /\ v \in Seq(Taken) /\ Len(v) > 0 /\ WireOK(v, took[t] + 1, restore[t])
        /\ v[Len(v)].type = msg[t].type /\ v[Len(v)].seq = msg[t].seq
        /\ BirthsPaired(v) /\ \A m \in EdgeNodes \ {Node(t)} : wire'[m] = wire[m]
    BY <2>1, TookStep
  <2>4. gate[n] = t
    BY <1>0, <2>1 DEF GateInv, CallOK, Holding
  <2>5. Pending(n)' = took[t] + 1 /\ settledCount'[n] = restore[t]
    BY <2>1, <2>2, <2>4 DEF Pending, settledCount
  <2>6. WireOK(wire'[n], Pending(n)', settledCount'[n]) /\ BirthsPaired(wire'[n])
    BY <2>3, <2>5
  <2>7. SentLast(t)'
    BY <2>2, <2>3 DEF SentLast, Node
  <2> QED BY <2>1, <2>2, <2>3, <2>6, <2>7, HolderMoves DEF Holding
<1>9. ASSUME Drain \/ Discard \/ Close \/ UNCHANGED vars
      PROVE  WiresOK'
  <2>1. UNCHANGED <<gate, count, pc, call, msg, restore, took, wire>>
    BY <1>9 DEF Drain, Discard, Close, vars
  <2> QED BY <2>1, OutsiderMoves DEF Untouched
<1> QED
  BY <1>1, <1>2, <1>3, <1>4, <1>5, <1>6, <1>7, <1>8, <1>9 DEF Next, TaskStep, Cancel

----------------------------------------------------------------------------
\* Nothing is sent and no gate is held at first.
LEMMA InitOK == Init => IInv
<1> SUFFICES ASSUME Init PROVE IInv
  OBVIOUS
<1>1. TypeOK
  <2>1. NoMsg \in Message /\ 0 \in SeqNumber /\ 0 \in 0 .. 2 /\ 0 \in 0 .. Capacity
    BY SuccessorType, CapacityAssumption DEF NoMsg, Message, Types
  <2>2. /\ gate \in [EdgeNodes -> Tasks \cup {NoTask}] /\ count \in [EdgeNodes -> SeqNumber]
        /\ wire \in [EdgeNodes -> Seq(Taken)]
    BY <2>1 DEF Init
  <2>3. /\ pc \in [Tasks -> {"idle", "gate", "send", "full", "taken"}]
        /\ call \in [Tasks -> [node : EdgeNodes, kind : Kinds] \cup {NoCall}]
        /\ msg \in [Tasks -> Message]
        /\ restore \in [Tasks -> SeqNumber] /\ took \in [Tasks -> 0 .. 2]
    BY <2>1 DEF Init
  <2>4. queued \in 0 .. Capacity /\ closed \in BOOLEAN
    BY <2>1 DEF Init
  <2> QED BY <2>2, <2>3, <2>4 DEF TypeOK
<1>2. GateInv
  BY DEF Init, GateInv, CallOK, Holding
<1>3. ASSUME NEW n \in EdgeNodes
      PROVE  WireOK(wire[n], Pending(n), settledCount[n]) /\ BirthsPaired(wire[n])
  <2>1. wire[n] = <<>> /\ Pending(n) = 0 /\ settledCount[n] = 0
    BY <1>3 DEF Init, Pending, settledCount
  <2>2. WireOK(<<>>, 0, 0) /\ BirthsPaired(<<>>)
    BY DEF WireOK, NumbersFollow, BirthsPaired
  <2> QED BY <2>1, <2>2
<1>4. LastInv
  BY DEF Init, LastInv, SentLast
<1> QED BY <1>1, <1>2, <1>3, <1>4 DEF IInv, WireInv, BirthPairTogether

\* IInv is an invariant.
LEMMA Invariance == Spec => []IInv
<1>1. IInv /\ [Next]_vars => IInv'
  BY TypeStep, GateStep, WireStep DEF IInv, WiresOK
<1> QED BY <1>1, InitOK, PTL DEF Spec

\* Every variable keeps its type; in particular a task takes at most two
\* messages per call and the count stays in one byte.
THEOREM TypeCorrect == Spec => []TypeOK
<1>1. IInv => TypeOK
  BY DEF IInv
<1> QED BY <1>1, Invariance, PTL

\* The gate excludes: the number of the message in hand is the count behind
\* the gate, whatever the other tasks do (reserve_with, SeqReservation).
THEOREM GateHolds == Spec => []GateInv
<1>1. IInv => GateInv
  BY DEF IInv
<1> QED BY <1>1, Invariance, PTL

\* The number a message carries follows the number of the last message that
\* was kept, through any refusals, cancellations and interleavings.
THEOREM NumbersAreRight == Spec => []NumberFollowsLastKept
<1>1. IInv => NumberFollowsLastKept
  BY DEF IInv, WireInv, WireOK, NumberFollowsLastKept
<1> QED BY <1>1, Invariance, PTL

\* Nothing comes between the NBIRTH and the DBIRTH of publish_birth.
THEOREM BirthsAreRight == Spec => []BirthPairTogether
<1>1. IInv => BirthPairTogether
  BY DEF IInv
<1> QED BY <1>1, Invariance, PTL

----------------------------------------------------------------------------
(* Where a host application reads a gap, and where it cannot.              *)

\* How a step may touch the wire of n: the client takes the message in hand, or
\* a call of n is cut off.
Grows(t, n) ==
    /\ pc[t] \in {"send", "full"} /\ Node(t) = n
    /\ wire'[n] = Append(wire[n], [type |-> msg[t].type, seq |-> msg[t].seq, kept |-> TRUE])
CutsOff(t, n) ==
    /\ pc[t] \in Holding /\ Node(t) = n
    /\ pc[t] = "taken" => CancelWindow
    /\ wire'[n] = CutLast(wire[n], took[t])

LEMMA WireMoves ==
    ASSUME TypeOK, GateInv, [Next]_vars, NEW n \in EdgeNodes
    PROVE  wire'[n] = wire[n] \/ \E t \in Tasks : Grows(t, n) \/ CutsOff(t, n)
<1>1. ASSUME NEW t \in Tasks, SendWithRoom(t) \/ Pull(t)
      PROVE  wire'[n] = wire[n] \/ Grows(t, n)
  <2>1. pc[t] \in {"send", "full"} /\ Took(t)
    BY <1>1 DEF SendWithRoom, Pull
  <2> QED BY <2>1 DEF Took, TypeOK, Grows
<1>2. ASSUME NEW t \in Tasks, Refused(t) \/ CancelWaiting(t) \/ CancelTaken(t)
      PROVE  wire'[n] = wire[n] \/ CutsOff(t, n)
  <2>1. /\ pc[t] \in Holding /\ (pc[t] = "taken" => CancelWindow)
        /\ wire' = [wire EXCEPT ![Node(t)] = CutLast(@, took[t])]
    BY <1>2 DEF Refused, CancelWaiting, CancelTaken, DropUncommitted, Holding
  <2> QED BY <2>1 DEF TypeOK, CutsOff
<1>3. ASSUME NEW t \in Tasks,
             \/ \E m \in EdgeNodes, k \in Kinds : Call(t, m, k)
             \/ Reserve(t) \/ SendFindsFull(t) \/ Resume(t) \/ CancelAtGate(t)
      PROVE  wire' = wire
  BY <1>3 DEF Call, Reserve, SendFindsFull, Resume, CancelAtGate
<1>4. ASSUME Drain \/ Discard \/ Close \/ UNCHANGED vars
      PROVE  wire' = wire
  BY <1>4 DEF Drain, Discard, Close, vars
<1> QED BY <1>1, <1>2, <1>3, <1>4 DEF Next, TaskStep, Cancel

\* Where a birth stands in its count.
BirthsStartOver ==
    \A n \in EdgeNodes : \A j \in 1 .. Len(wire[n]) :
        wire[n][j].type = "NBIRTH" => wire[n][j].seq = 0

LEMMA BirthsStep ==
    ASSUME IInv, BirthsStartOver, [Next]_vars
    PROVE  BirthsStartOver'
<1> SUFFICES ASSUME NEW n \in EdgeNodes, NEW j \in 1 .. Len(wire'[n]),
                    wire'[n][j].type = "NBIRTH"
             PROVE  wire'[n][j].seq = 0
  BY DEF BirthsStartOver
<1> DEFINE w == wire[n]
<1>1. TypeOK /\ GateInv /\ w \in Seq(Taken)
  BY DEF IInv, TypeOK
<1>2. CASE wire'[n] = w
  BY <1>2 DEF BirthsStartOver
<1>3. ASSUME NEW t \in Tasks, Grows(t, n)
      PROVE  wire'[n][j].seq = 0
  <2> DEFINE e == [type |-> msg[t].type, seq |-> msg[t].seq, kept |-> TRUE]
  <2>1. wire'[n] = Append(w, e)
    BY <1>3 DEF Grows
  <2>2. msg[t].type = "NBIRTH" => msg[t].seq = 0
    <3>1. OnFirstMessage(t) \/ OnSecondMessage(t)
      BY <1>1, <1>3 DEF Grows, GateInv, CallOK, Holding
    <3> QED BY <3>1 DEF OnFirstMessage, OnSecondMessage, Step
  <2>3. e.type = msg[t].type /\ e.seq = msg[t].seq
    OBVIOUS
  <2> HIDE DEF e
  <2>4. j \in 1 .. Len(w) => wire'[n][j] = w[j]
    BY <1>1, <2>1
  <2>5. j \notin 1 .. Len(w) => wire'[n][j] = e
    BY <1>1, <2>1
  <2> QED BY <2>2, <2>3, <2>4, <2>5 DEF BirthsStartOver
<1>4. ASSUME NEW t \in Tasks, CutsOff(t, n)
      PROVE  wire'[n][j].seq = 0
  <2>1. wire'[n] = CutLast(w, took[t])
    BY <1>4 DEF CutsOff
  <2>2. took[t] \in Nat
    <3>1. took \in [Tasks -> 0 .. 2]
      BY <1>1 DEF TypeOK
    <3>2. took[t] \in 0 .. 2
      BY <3>1
    <3> QED BY <3>2
  <2>3. j \in 1 .. Len(w) /\ wire'[n][j].type = w[j].type /\ wire'[n][j].seq = w[j].seq
    BY <1>1, <2>1, <2>2, CutLastType
  <2> QED BY <2>3 DEF BirthsStartOver
<1> QED BY <1>1, <1>2, <1>3, <1>4, WireMoves

\* Behind a message that was kept comes the next number or an NBIRTH.
NoOtherGap ==
    \A n \in EdgeNodes : \A j \in 2 .. Len(wire[n]) :
        (wire[n][j].type # "NBIRTH" /\ wire[n][j - 1].kept)
            => wire[n][j].seq = Successor(wire[n][j - 1].seq)

\* A host application reads a gap only behind a message whose call was cut off
\* after the client took it (Drop for SeqReservation writes the count back, and
\* the message stays sent).
THEOREM GapsOnlyFollowCuts == Spec => []NoOtherGap
<1>1. IInv /\ BirthsStartOver => NoOtherGap
  <2> SUFFICES ASSUME IInv, BirthsStartOver, NEW n \in EdgeNodes,
                      NEW j \in 2 .. Len(wire[n]),
                      wire[n][j].type # "NBIRTH", wire[n][j - 1].kept
               PROVE  wire[n][j].seq = Successor(wire[n][j - 1].seq)
    BY DEF NoOtherGap
  <2> DEFINE w == wire[n]
  <2>1. w \in Seq(Taken) /\ NumbersFollow(w) /\ BirthsPaired(w)
    BY DEF IInv, TypeOK, WireInv, WireOK, BirthPairTogether
  <2>2. j \in 1 .. Len(w) /\ j - 1 \in 1 .. Len(w) /\ w[j] \in Taken
    BY <2>1
  <2>3. CountsOn(w[j], w[j - 1].seq)
    <3>1. LastKeptBefore(w, j - 1, j)
      BY <2>2 DEF LastKeptBefore
    <3> QED BY <2>1, <2>2, <3>1 DEF NumbersFollow
  <2>4. CASE w[j].type = "DATA"
    BY <2>3, <2>4 DEF CountsOn
  <2>5. CASE w[j].type = "DBIRTH"
    <3>1. w[j - 1].seq = 0 /\ w[j].seq = 1
      BY <2>1, <2>2, <2>3, <2>5 DEF BirthsPaired, CountsOn, BirthsStartOver
    <3>2. Successor(0) = 1
      BY SeqModAssumption DEF Successor
    <3> QED BY <3>1, <3>2
  <2> QED BY <2>2, <2>4, <2>5 DEF Taken, Types
<1>2. Init => BirthsStartOver
  BY DEF Init, BirthsStartOver
<1>3. IInv /\ BirthsStartOver /\ [Next]_vars => BirthsStartOver'
  BY BirthsStep
<1> QED BY <1>1, <1>2, <1>3, Invariance, PTL DEF Spec

\* What a publisher keeps while no cancellation meets a message just taken: it
\* has no birth to cut in two, so nothing it sent is ever cut off.
NothingCut ==
    /\ \A t \in Tasks : call[t].kind # "birth"
    /\ \A n \in EdgeNodes : \A i \in 1 .. Len(wire[n]) : wire[n][i].kept

LEMMA NothingCutStep ==
    ASSUME OwnNode = NoNode, CancelWindow = FALSE, IInv, NothingCut, [Next]_vars
    PROVE  NothingCut'
<1>1. TypeOK /\ GateInv
  BY DEF IInv
<1>2. ASSUME NEW n \in EdgeNodes, NEW i \in 1 .. Len(wire'[n])
      PROVE  wire'[n][i].kept
  <2> DEFINE w == wire[n]
  <2>1. w \in Seq(Taken) /\ \A k \in 1 .. Len(w) : w[k].kept
    BY <1>1 DEF TypeOK, NothingCut
  <2>2. CASE wire'[n] = w
    BY <1>2, <2>1, <2>2
  <2>3. ASSUME NEW t \in Tasks, Grows(t, n)
        PROVE  wire'[n][i].kept
    <3> DEFINE e == [type |-> msg[t].type, seq |-> msg[t].seq, kept |-> TRUE]
    <3>1. wire'[n] = Append(w, e) /\ e.kept
      BY <2>3 DEF Grows
    <3> HIDE DEF e
    <3>2. wire'[n][i] = e \/ (i \in 1 .. Len(w) /\ wire'[n][i] = w[i])
      BY <1>2, <2>1, <3>1
    <3> QED BY <2>1, <3>1, <3>2
  <2>4. ASSUME NEW t \in Tasks, CutsOff(t, n)
        PROVE  wire'[n][i].kept
    <3>1. pc[t] \in {"send", "full"} /\ wire'[n] = CutLast(w, took[t])
      BY <2>4 DEF CutsOff, Holding
    <3>2. took[t] = 0
      BY <1>1, <3>1 DEF GateInv, CallOK, Holding, OnFirstMessage, OnSecondMessage,
                        NothingCut
    <3>3. Len(wire'[n]) = Len(w) /\ i + 0 <= Len(w) /\ wire'[n][i].kept = w[i].kept
      BY <1>2, <2>1, <3>1, <3>2, CutLastType
    <3> QED BY <1>2, <2>1, <3>3
  <2> QED BY <1>1, <2>2, <2>3, <2>4, WireMoves
<1>3. ASSUME NEW t \in Tasks
      PROVE  call'[t].kind # "birth"
  <2>1. ASSUME NEW u \in Tasks, NEW n \in EdgeNodes, NEW k \in Kinds, Call(u, n, k)
        PROVE  call'[t].kind # "birth"
    <3>1. k # "birth" /\ call' = [call EXCEPT ![u] = [node |-> n, kind |-> k]]
      BY <2>1, NoNodeAssumption DEF Call
    <3> QED BY <1>1, <3>1 DEF TypeOK, NothingCut
  <2>2. ASSUME NEW u \in Tasks, call' = [call EXCEPT ![u] = NoCall]
        PROVE  call'[t].kind # "birth"
    BY <1>1, <2>2 DEF TypeOK, NothingCut, NoCall
  <2>3. CASE call' = call
    BY <2>3 DEF NothingCut
  <2>4. ASSUME NEW u \in Tasks, TaskStep(u) \/ Cancel(u) \/ Pull(u)
        PROVE  call' = call \/ call' = [call EXCEPT ![u] = NoCall]
    BY <2>4 DEF TaskStep, Cancel, Pull, Reserve, SendWithRoom, SendFindsFull, Refused,
                Resume, CancelAtGate, CancelWaiting, CancelTaken, DropUncommitted,
                Continue, NextMessage, CommitAndDrop, EndCall
  <2>5. ASSUME Drain \/ Discard \/ Close \/ UNCHANGED vars
        PROVE  call' = call
    BY <2>5 DEF Drain, Discard, Close, vars
  <2> QED BY <2>1, <2>2, <2>3, <2>4, <2>5 DEF Next
<1> QED BY <1>2, <1>3 DEF NothingCut

\* A host application reads no gap in what a publisher sends, refused and
\* cancelled publishes included, as long as no cancellation meets a message that
\* the client just took: a birth cut in two and that window are the only ways to
\* the gap (seq.rs:130, publish.rs:38).
THEOREM PublisherLeavesNoGap ==
    ASSUME OwnNode = NoNode, CancelWindow = FALSE
    PROVE  Spec => []HostReadsNoGap
<1>1. Init => NothingCut
  BY DEF Init, NothingCut, NoCall
<1>2. IInv /\ NothingCut /\ [Next]_vars => NothingCut'
  BY NothingCutStep
<1>3. IInv /\ NothingCut /\ NoOtherGap => HostReadsNoGap
  <2> SUFFICES ASSUME IInv, NothingCut, NoOtherGap, NEW n \in EdgeNodes,
                      NEW j \in 2 .. Len(wire[n]), wire[n][j].type # "NBIRTH"
               PROVE  wire[n][j].seq = Successor(wire[n][j - 1].seq)
    BY DEF HostReadsNoGap
  <2>1. wire[n] \in Seq(Taken)
    BY DEF IInv, TypeOK
  <2>2. j - 1 \in 1 .. Len(wire[n])
    BY <2>1
  <2> QED BY <2>2 DEF NothingCut, NoOtherGap
<1>4. Spec => []NoOtherGap
  BY GapsOnlyFollowCuts
<1> QED BY <1>1, <1>2, <1>3, <1>4, Invariance, PTL DEF Spec
=============================================================================
