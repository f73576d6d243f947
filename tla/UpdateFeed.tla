----------------------------- MODULE UpdateFeed -----------------------------
(***************************************************************************)
(* The in-memory feed of workflow updates.  Writers publish the id of the  *)
(* workflow they stored; the dashboard streams wait for the first update   *)
(* after the last one they have seen.  Only the latest updates are kept.   *)
(* Each operation takes the feed's mutex, so it is one function of the     *)
(* feed's value.                                                           *)
(***************************************************************************)
EXTENDS Naturals, Sequences

CONSTANT Retained      \* retained_events: how many updates are kept

ASSUME RetainedAssumption == Retained \in Nat

KeptEvents == IF Retained > 1 THEN Retained ELSE 1

\* latest is latest_event_id_, events the deque, down is shutting_down_.
EmptyFeed == [latest |-> 0, events |-> << >>, down |-> FALSE]

\* Deliberate fault: nothing is dropped.
Publish_keepsAll(f, w) ==
    [f EXCEPT !.latest = @ + 1,
              !.events = Append(@, [id |-> f.latest + 1, wf |-> w])]

\* The next number goes to the update; beyond the limit the oldest is dropped.
Publish(f, w) ==
    LET all == Append(f.events, [id |-> f.latest + 1, wf |-> w])
    IN [f EXCEPT !.latest = @ + 1,
                 !.events = IF Len(all) > KeptEvents THEN Tail(all) ELSE all]

\* wait_for_update returns before its timeout.
Ready(f, after) == f.down \/ f.latest > after

\* Deliberate fault: the update right after the last one is passed over.
UpdatesAfter_offByOne(f, after) ==
    {i \in 1..Len(f.events) : ~f.down /\ f.events[i].id > after + 1}

\* What it returns then: nothing, or the first kept update after that one.
UpdatesAfter(f, after) ==
    {i \in 1..Len(f.events) : ~f.down /\ f.events[i].id > after}

NextUpdate(f, after) ==
    f.events[CHOOSE i \in UpdatesAfter(f, after) :
                \A j \in UpdatesAfter(f, after) : i <= j]

ShutDown(f) == [f EXCEPT !.down = TRUE]
=============================================================================
