--------------------------- MODULE DeliveryState ---------------------------
(***************************************************************************)
(* The State of a DeliveryTracker (src/src/sparkplug/delivery.rs) and what *)
(* each method does to it under the tracker's lock. The widths (u32, u64)  *)
(* are not modelled: no run of the program counts that far.                *)
(***************************************************************************)
EXTENDS Naturals

States == [unacked : Nat, lost : Nat, reported : Nat, generation : Nat]

\* State::default()
NothingOutstanding == [unacked |-> 0, lost |-> 0, reported |-> 0, generation |-> 0]

\* record_publish
CountPublish(s) == [s EXCEPT !.unacked = @ + 1]

\* Mutant: u32 subtraction that does not saturate.
ReleasePlain(s) == [s EXCEPT !.unacked = @ - 1]

\* saturating_sub(1), in release_one and record_publish_failed
ReleaseOne(s) == [s EXCEPT !.unacked = IF @ = 0 THEN 0 ELSE @ - 1]

\* Mutant: a rollback that ignores the generation of its ticket.
AnyTicketIsCurrent(s, g) == s.generation >= g

\* Does a ticket of generation g still stand for a count?
TicketIsCurrent(s, g) == g = s.generation

\* record_publish_failed
RollBack(s, g) == IF TicketIsCurrent(s, g) THEN ReleaseOne(s) ELSE s

\* Mutant: a disconnect that clears the count and forgets the loss.
ForgetOutstanding(s) == [s EXCEPT !.unacked = 0, !.generation = @ + 1]

\* record_disconnect
LoseOutstanding(s) ==
    [unacked |-> 0, lost |-> s.lost + s.unacked,
     reported |-> s.reported, generation |-> s.generation + 1]

\* The tail of a flush that drained: reported += take(lost)
ReportLost(s) ==
    [unacked |-> s.unacked, lost |-> 0,
     reported |-> s.reported + s.lost, generation |-> s.generation]
=============================================================================
