------------------------------- MODULE Agenda -------------------------------
(***************************************************************************)
(* The agenda of one service on one day, as one client at a time uses the  *)
(* slot arithmetic: every set of bookings that can be reached by booking   *)
(* starts validateSlot accepts and by cancelling bookings again.           *)
(***************************************************************************)
EXTENDS TimeSlots, FiniteSets

CONSTANTS
  Starts,        \* the start texts clients send
  Durations,     \* service durations, in minutes
  MaxBookings    \* bound: bookings held at once

ASSUME AgendaAssumption ==
  /\ Starts \subseteq Time
  /\ Durations \subseteq Nat \ {0}
  /\ MaxBookings \in Nat

VARIABLE booked  \* ranges of the bookings that are not cancelled

Init == booked = {}

\* create(), lines 110-121: check the start against the bookings, then insert it;
\* a text no clock shows is an Invalid Date.
Book(start, duration) ==
  /\ Cardinality(booked) < MaxBookings
  /\ IsClockTime(start)
  /\ ValidateSlot(start, duration, booked) = "valid"
  /\ booked' = booked \cup {RangeOf(start, duration)}

\* cancel(): the booking no longer counts.
Cancel(range) == booked' = booked \ {range}

Next ==
  \/ \E start \in Starts, duration \in Durations : Book(start, duration)
  \/ \E range \in booked : Cancel(range)

Spec == Init /\ [][Next]_booked

-----------------------------------------------------------------------------
Minutes(range) == ToMinutes(range.startTime) .. (ToMinutes(range.endTime) - 1)

OpenMinutes ==
  (ToMinutes(WORK_START) .. (ToMinutes(WORK_END) - 1))
    \ (ToMinutes(BREAK_START) .. (ToMinutes(BREAK_END) - 1))

HeldMinutes == UNION { Minutes(range) : range \in booked }

\* validateSlot accepts a start exactly when every minute of the visit is a
\* working minute outside the break that no booking holds: its three interval
\* comparisons (hours, break, half-open overlap) together decide that.
AcceptsExactlyFreeMinutes ==
  \A start \in Starts, duration \in Durations :
    (ValidateSlot(start, duration, booked) = "valid")
      <=> Minutes(RangeOf(start, duration)) \subseteq OpenMinutes \ HeldMinutes

\* The starts at whole multiples of the duration after opening, up to the end of a day.
Grid(duration) ==
  { FromMinutes(ToMinutes(WORK_START) + n * duration) : n \in 0 .. ((24 * 60) \div duration) }

\* getAvailableSlots and validateSlot are two implementations of one rule: what
\* is offered is what would be accepted, at the starts the loop visits (multiples
\* of the duration after opening), whatever is booked.
OffersTheAcceptedGrid ==
  \A duration \in Durations :
    GetAvailableSlots(duration, booked) =
      { start \in Grid(duration) : ValidateSlot(start, duration, booked) = "valid" }
=============================================================================
