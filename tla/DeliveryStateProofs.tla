------------------------ MODULE DeliveryStateProofs ------------------------
(***************************************************************************)
(* Lemmas about the methods of the tracker, for the proofs about the       *)
(* modules that call them.                                                 *)
(***************************************************************************)
EXTENDS DeliveryState, TLAPS

\* What each method does to the fields of a State.
LEMMA Fields ==
    ASSUME NEW s \in States, NEW g \in Nat
    PROVE  /\ CountPublish(s) \in States
           /\ CountPublish(s).unacked = s.unacked + 1
           /\ CountPublish(s).lost = s.lost
           /\ CountPublish(s).reported = s.reported
           /\ CountPublish(s).generation = s.generation
           /\ ReleaseOne(s) \in States
           /\ ReleaseOne(s).unacked = IF s.unacked = 0 THEN 0 ELSE s.unacked - 1
           /\ ReleaseOne(s).lost = s.lost
           /\ ReleaseOne(s).reported = s.reported
           /\ ReleaseOne(s).generation = s.generation
           /\ RollBack(s, g) = IF g = s.generation THEN ReleaseOne(s) ELSE s
           /\ LoseOutstanding(s) \in States
           /\ LoseOutstanding(s).unacked = 0
           /\ LoseOutstanding(s).lost = s.lost + s.unacked
           /\ LoseOutstanding(s).reported = s.reported
           /\ LoseOutstanding(s).generation = s.generation + 1
           /\ ReportLost(s) \in States
           /\ ReportLost(s).unacked = s.unacked
           /\ ReportLost(s).lost = 0
           /\ ReportLost(s).reported = s.reported + s.lost
           /\ ReportLost(s).generation = s.generation
<1>1. /\ CountPublish(s) \in States
      /\ CountPublish(s).unacked = s.unacked + 1
      /\ CountPublish(s).lost = s.lost
      /\ CountPublish(s).reported = s.reported
      /\ CountPublish(s).generation = s.generation
  BY DEF States, CountPublish
<1>2. /\ ReleaseOne(s) \in States
      /\ ReleaseOne(s).unacked = IF s.unacked = 0 THEN 0 ELSE s.unacked - 1
      /\ ReleaseOne(s).lost = s.lost
      /\ ReleaseOne(s).reported = s.reported
      /\ ReleaseOne(s).generation = s.generation
  BY DEF States, ReleaseOne
<1>3. RollBack(s, g) = IF g = s.generation THEN ReleaseOne(s) ELSE s
  BY DEF RollBack, TicketIsCurrent
<1>4. /\ LoseOutstanding(s) \in States
      /\ LoseOutstanding(s).unacked = 0
      /\ LoseOutstanding(s).lost = s.lost + s.unacked
      /\ LoseOutstanding(s).reported = s.reported
      /\ LoseOutstanding(s).generation = s.generation + 1
  BY DEF States, LoseOutstanding
<1>5. /\ ReportLost(s) \in States
      /\ ReportLost(s).unacked = s.unacked
      /\ ReportLost(s).lost = 0
      /\ ReportLost(s).reported = s.reported + s.lost
      /\ ReportLost(s).generation = s.generation
  BY DEF States, ReportLost
<1> QED BY <1>1, <1>2, <1>3, <1>4, <1>5

\* A rollback takes one count away, or none.
LEMMA RollBackFields ==
    ASSUME NEW s \in States, NEW g \in Nat
    PROVE  /\ RollBack(s, g) \in States
           /\ RollBack(s, g).lost = s.lost
           /\ RollBack(s, g).reported = s.reported
           /\ RollBack(s, g).generation = s.generation
           /\ g # s.generation => RollBack(s, g) = s
           /\ g = s.generation => RollBack(s, g) = ReleaseOne(s)
BY Fields

\* The tracker starts with nothing counted.
LEMMA NothingIsAState ==
    /\ NothingOutstanding \in States
    /\ NothingOutstanding.unacked = 0 /\ NothingOutstanding.lost = 0
    /\ NothingOutstanding.reported = 0 /\ NothingOutstanding.generation = 0
BY DEF NothingOutstanding, States
=============================================================================
