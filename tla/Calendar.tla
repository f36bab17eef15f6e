------------------------------ MODULE Calendar ------------------------------
(***************************************************************************)
(* What the booking system promises, without requests, clocks or pushes:   *)
(* a calendar in which every minute of a service's day is held by at most  *)
(* one visit, and a visit only moves from PENDING through CONFIRMED to     *)
(* CANCELLED.                                                              *)
(***************************************************************************)
CONSTANTS
  Visits,       \* the visits there can be
  Lanes,        \* services on days
  OpenMinutes,  \* the minutes of a day that can be sold
  NULL

VARIABLE entry  \* NULL, or the lane, minutes and status of a visit

Entry == [lane : Lanes, minutes : (SUBSET OpenMinutes) \ {{}},
          status : {"PENDING", "CONFIRMED", "CANCELLED"}]

Held(v) == entry[v] # NULL /\ entry[v].status # "CANCELLED"

Init == entry = [v \in Visits |-> NULL]

\* A visit takes minutes nobody holds.
Book(v) ==
  /\ entry[v] = NULL
  /\ LET new == entry'[v]
     IN  /\ new \in Entry
         /\ new.status = "PENDING"
         /\ \A w \in Visits :
              Held(w) /\ entry[w].lane = new.lane => entry[w].minutes \cap new.minutes = {}
         /\ entry' = [entry EXCEPT ![v] = new]

Confirm(v) ==
  /\ entry[v] # NULL
  /\ entry[v].status = "PENDING"
  /\ entry' = [entry EXCEPT ![v].status = "CONFIRMED"]

Cancel(v) ==
  /\ Held(v)
  /\ entry' = [entry EXCEPT ![v].status = "CANCELLED"]

Next == \E v \in Visits : Book(v) \/ Confirm(v) \/ Cancel(v)

Spec == Init /\ [][Next]_entry

-----------------------------------------------------------------------------
\* What the calendar is for: no minute of a lane is held by two visits.
NoMinuteHeldTwice ==
  \A v, w \in Visits :
    v # w /\ Held(v) /\ Held(w) /\ entry[v].lane = entry[w].lane
      => entry[v].minutes \cap entry[w].minutes = {}
=============================================================================
