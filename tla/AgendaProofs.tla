---------------------------- MODULE AgendaProofs ----------------------------
(***************************************************************************)
(* Proofs about the agenda, for all opening hours, start texts, durations  *)
(* and numbers of bookings.                                                *)
(***************************************************************************)
EXTENDS Agenda, TimeSlotsProofs

\* The two ways of writing the minutes of a range agree.
LEMMA MinutesAgree ==
  ASSUME NEW range \in TimeRange
  PROVE  Minutes(range) = MinutesIn(range)
<1>1. ToMinutes(range.startTime) \in Nat /\ ToMinutes(range.endTime) \in Nat
  BY MinutesAreNatural DEF TimeRange
<1> QED BY <1>1 DEF Minutes, MinutesIn

\* So do the two ways of writing what the salon can sell.
LEMMA OpenMinutesAgree == OpenMinutes = MinutesOpen
<1> DEFINE day   == [startTime |-> WORK_START, endTime |-> WORK_END]
           break == [startTime |-> BREAK_START, endTime |-> BREAK_END]
<1>1. day \in TimeRange /\ break \in TimeRange
  BY HoursAssumption DEF TimeRange
<1>2. Minutes(day) = MinutesIn(day) /\ Minutes(break) = MinutesIn(break)
  BY <1>1, MinutesAgree
<1>3. OpenMinutes = Minutes(day) \ Minutes(break)
  BY DEF OpenMinutes, Minutes
<1> QED BY <1>2, <1>3 DEF MinutesOpen

\* A visit has a minute, and its range is a range of times.
LEMMA VisitsHaveMinutes ==
  ASSUME NEW start \in Time, NEW d \in Nat \ {0}
  PROVE  RangeOf(start, d) \in TimeRange /\ MinutesIn(RangeOf(start, d)) # {}
<1>1. CalcEndTime(start, d) \in Time /\ ToMinutes(CalcEndTime(start, d)) = ToMinutes(start) + d
  BY EndOfVisit
<1>2. ToMinutes(start) \in MinutesIn(RangeOf(start, d))
  BY <1>1, MinutesAreNatural DEF MinutesIn, RangeOf
<1> QED BY <1>1, <1>2 DEF RangeOf, TimeRange

-----------------------------------------------------------------------------
\* Every booking is a visit inside the open hours, and no two hold a minute together.
AgendaInv ==
  /\ booked \subseteq TimeRange
  /\ \A x \in booked : MinutesIn(x) # {} /\ MinutesIn(x) \subseteq MinutesOpen
  /\ \A x, y \in booked : x # y => MinutesIn(x) \cap MinutesIn(y) = {}

\* A booking that validateSlot accepts keeps the agenda in order.
LEMMA BookKeepsAgenda ==
  ASSUME AgendaInv, NEW start \in Starts, NEW d \in Durations, Book(start, d)
  PROVE  AgendaInv'
<1> DEFINE new == RangeOf(start, d)
<1>1. start \in Time /\ d \in Nat \ {0}
  BY AgendaAssumption
<1>2. new \in TimeRange /\ MinutesIn(new) # {}
  BY <1>1, VisitsHaveMinutes
<1>3. /\ MinutesIn(new) \subseteq MinutesOpen
      /\ \A x \in booked : MinutesIn(new) \cap MinutesIn(x) = {}
  BY <1>1, ValidMeansFreeMinutes DEF AgendaInv, Book
<1>4. booked' = booked \cup {new}
  BY DEF Book
<1> HIDE DEF new
<1> QED BY <1>2, <1>3, <1>4 DEF AgendaInv

\* The invariant holds throughout: one client at a time, no minute is ever held twice.
THEOREM AgendaInOrder == Spec => []AgendaInv
<1>1. Init => AgendaInv
  BY DEF Init, AgendaInv
<1>2. AgendaInv /\ [Next]_booked => AgendaInv'
  <2> SUFFICES ASSUME AgendaInv, [Next]_booked
               PROVE  AgendaInv'
    OBVIOUS
  <2>1. ASSUME NEW start \in Starts, NEW d \in Durations, Book(start, d)
        PROVE  AgendaInv'
    BY <2>1, BookKeepsAgenda
  <2>2. ASSUME NEW range \in booked, Cancel(range)
        PROVE  AgendaInv'
    BY <2>2 DEF Cancel, AgendaInv
  <2>3. CASE UNCHANGED booked
    BY <2>3 DEF AgendaInv
  <2> QED BY <2>1, <2>2, <2>3 DEF Next
<1> QED BY <1>1, <1>2, PTL DEF Spec

-----------------------------------------------------------------------------
\* Whatever has been booked and cancelled, validateSlot accepts a start exactly when
\* every minute of the visit is open and held by no booking.
THEOREM AcceptedStartsAreFree == Spec => []AcceptsExactlyFreeMinutes
<1>1. AgendaInv => AcceptsExactlyFreeMinutes
  <2> SUFFICES ASSUME AgendaInv, NEW start \in Starts, NEW d \in Durations
               PROVE  ValidateSlot(start, d, booked) = "valid"
                        <=> Minutes(RangeOf(start, d)) \subseteq OpenMinutes \ HeldMinutes
    BY DEF AcceptsExactlyFreeMinutes
  <2>1. start \in Time /\ d \in Nat \ {0}
    BY AgendaAssumption
  <2>2. Minutes(RangeOf(start, d)) = MinutesIn(RangeOf(start, d))
    BY <2>1, VisitsHaveMinutes, MinutesAgree
  <2>3. \A x \in booked : Minutes(x) = MinutesIn(x)
    BY MinutesAgree DEF AgendaInv
  <2>4. ValidateSlot(start, d, booked) = "valid"
          <=> /\ MinutesIn(RangeOf(start, d)) \subseteq MinutesOpen
              /\ \A x \in booked : MinutesIn(RangeOf(start, d)) \cap MinutesIn(x) = {}
    BY <2>1, ValidMeansFreeMinutes DEF AgendaInv
  <2>5. \A n : n \in HeldMinutes <=> \E x \in booked : n \in MinutesIn(x)
    BY <2>3 DEF HeldMinutes
  <2> QED BY <2>2, <2>4, <2>5, OpenMinutesAgree
<1> QED BY <1>1, AgendaInOrder, PTL

\* An accepted start on the multiples of the duration lies within the day's grid.
LEMMA AcceptedStartsAreOnTheGrid ==
  ASSUME NEW d \in Nat \ {0}, NEW ranges, NEW n \in Nat,
         ValidateSlot(FromMinutes(ToMinutes(WORK_START) + n * d), d, ranges) = "valid"
  PROVE  n \in 0 .. ((24 * 60) \div d)
<1> DEFINE open  == ToMinutes(WORK_START)
           start == FromMinutes(open + n * d)
           q     == (24 * 60) \div d
<1>1. open \in Nat /\ ToMinutes(WORK_END) \in Nat /\ ToMinutes(WORK_END) < 24 * 60
  BY HoursAssumption, MinutesAreNatural
<1>2. n * d \in Nat /\ open + n * d \in Nat
  BY <1>1
<1>3. start \in Time /\ ToMinutes(CalcEndTime(start, d)) = open + n * d + d
  BY <1>2, MinutesRoundTrip, EndOfVisit
<1>4. ToMinutes(CalcEndTime(start, d)) <= ToMinutes(WORK_END)
  BY DEF ValidateSlot, WithinWorkingHours, RangeOf
<1>5. n * d < 24 * 60
  <2> HIDE DEF open, start
  <2> QED BY <1>1, <1>2, <1>3, <1>4
<1>6. q \in Nat /\ 24 * 60 < (q + 1) * d
  OBVIOUS
<1> HIDE DEF q
<1>7. ~(q + 1 <= n)
  BY <1>5, <1>6
<1> QED BY <1>6, <1>7 DEF q

\* Whatever has been booked and cancelled, getAvailableSlots offers exactly the
\* accepted starts of its grid.
THEOREM OffersAreAccepted == Spec => []OffersTheAcceptedGrid
<1>1. OffersTheAcceptedGrid
  <2> SUFFICES ASSUME NEW d \in Durations
               PROVE  GetAvailableSlots(d, booked)
                        = { start \in Grid(d) : ValidateSlot(start, d, booked) = "valid" }
    BY DEF OffersTheAcceptedGrid
  <2>1. d \in Nat \ {0}
    BY AgendaAssumption
  <2>2. GetAvailableSlots(d, booked)
          = { start \in { FromMinutes(ToMinutes(WORK_START) + n * d) : n \in Nat } :
                ValidateSlot(start, d, booked) = "valid" }
    BY <2>1, OffersAreTheAcceptedGrid
  <2>3. ASSUME NEW n \in Nat,
               ValidateSlot(FromMinutes(ToMinutes(WORK_START) + n * d), d, booked) = "valid"
        PROVE  FromMinutes(ToMinutes(WORK_START) + n * d) \in Grid(d)
    BY <2>1, <2>3, AcceptedStartsAreOnTheGrid DEF Grid
  <2>4. Grid(d) \subseteq { FromMinutes(ToMinutes(WORK_START) + n * d) : n \in Nat }
    BY <2>1 DEF Grid
  <2> QED BY <2>2, <2>3, <2>4
<1> QED BY <1>1, PTL
=============================================================================
