-------------------------- MODULE TimeSlotsProofs --------------------------
(***************************************************************************)
(* Facts about the slot arithmetic, for all opening hours, durations and   *)
(* bookings.                                                               *)
(***************************************************************************)
EXTENDS TimeSlots, TLAPS

\* Minutes written as a clock text are read back unchanged.
LEMMA MinutesRoundTrip ==
  ASSUME NEW n \in Nat
  PROVE  FromMinutes(n) \in Time /\ ToMinutes(FromMinutes(n)) = n
  BY DEF FromMinutes, ToMinutes, Time

\* Every clock text denotes a number of minutes.
LEMMA MinutesAreNatural ==
  ASSUME NEW t \in Time
  PROVE  ToMinutes(t) \in Nat
  BY DEF ToMinutes, Time

\* The end of a visit is a time, its length after the start.
LEMMA EndOfVisit ==
  ASSUME NEW t \in Time, NEW d \in Nat
  PROVE  /\ CalcEndTime(t, d) \in Time
         /\ ToMinutes(CalcEndTime(t, d)) = ToMinutes(t) + d
  BY MinutesAreNatural, MinutesRoundTrip DEF CalcEndTime

\* The loop of getAvailableSlots stays within the minutes of a day.
LEMMA LoopStartsAreNatural ==
  ASSUME NEW d \in Nat \ {0}, NEW c \in LoopStarts(d)
  PROVE  c \in Nat /\ d \in Nat /\ ToMinutes(WORK_START) <= c
<1>1. d \in Nat
  OBVIOUS
<1>2. ToMinutes(WORK_START) \in Nat
  BY HoursAssumption, MinutesAreNatural
<1>3. PICK n \in 0 .. (ToMinutes(WORK_END) \div d) : c = ToMinutes(WORK_START) + n * d
  BY DEF LoopStarts
<1>4. n \in Nat /\ n * d \in Nat
  BY <1>1, <1>3
<1> QED BY <1>1, <1>2, <1>3, <1>4

\* Slots are times.
LEMMA SlotsAreTimes ==
  ASSUME NEW d \in Nat \ {0}, NEW ranges
  PROVE  GetAvailableSlots(d, ranges) \in SUBSET Time
  BY LoopStartsAreNatural, MinutesRoundTrip DEF GetAvailableSlots

\* getAvailableSlots offers nothing that overlaps a booking it was given.
LEMMA AvailableSlotsAreFree ==
  ASSUME NEW d \in Nat \ {0}, NEW ranges,
         NEW slot \in GetAvailableSlots(d, ranges), NEW booked \in ranges
  PROVE  ~RangesOverlap(RangeOf(slot, d), booked)
<1>1. PICK c \in LoopStarts(d) :
        /\ slot = FromMinutes(c)
        /\ ~RangesOverlap([startTime |-> FromMinutes(c), endTime |-> FromMinutes(c + d)], booked)
  BY DEF GetAvailableSlots
<1>2. c \in Nat
  BY LoopStartsAreNatural
<1>3. CalcEndTime(slot, d) = FromMinutes(c + d)
  BY <1>1, <1>2, MinutesRoundTrip DEF CalcEndTime
<1> QED BY <1>1, <1>3 DEF RangeOf

\* validateSlot accepts nothing that overlaps a booking it was given, and what it
\* accepts beside bookings it would accept on an empty day.
LEMMA ValidSlotsAreFree ==
  ASSUME NEW t, NEW d, NEW ranges, ValidateSlot(t, d, ranges) = "valid"
  PROVE  /\ \A booked \in ranges : ~RangesOverlap(RangeOf(t, d), booked)
         /\ ValidateSlot(t, d, {}) = "valid"
  BY DEF ValidateSlot

\* Overlap does not depend on which range is named first.
LEMMA OverlapSymmetric ==
  ASSUME NEW x \in TimeRange, NEW y \in TimeRange, RangesOverlap(x, y)
  PROVE  RangesOverlap(y, x)
  BY MinutesAreNatural DEF RangesOverlap, TimeRange

\* Everything getAvailableSlots offers, validateSlot accepts, given the same bookings:
\* a customer who picks an offered slot is refused only if the bookings have changed.
THEOREM OfferedSlotsAreAccepted ==
  ASSUME NEW d \in Nat \ {0}, NEW ranges, NEW slot \in GetAvailableSlots(d, ranges)
  PROVE  ValidateSlot(slot, d, ranges) = "valid"
<1>1. PICK c \in LoopStarts(d) :
        /\ slot = FromMinutes(c)
        /\ ~OverlapsBreak(FromMinutes(c), FromMinutes(c + d))
  BY DEF GetAvailableSlots
<1>2. c \in Nat /\ c + d \in Nat /\ d \in Nat
  BY LoopStartsAreNatural
<1>3. ToMinutes(slot) = c /\ ToMinutes(FromMinutes(c + d)) = c + d
  BY <1>1, <1>2, MinutesRoundTrip
<1>4. CalcEndTime(slot, d) = FromMinutes(c + d)
  BY <1>3 DEF CalcEndTime
<1>5. WithinWorkingHours(slot, CalcEndTime(slot, d))
  <2>1. c + d <= ToMinutes(WORK_END)
    BY DEF LoopStarts
  <2>2. ToMinutes(WORK_START) <= c
    BY LoopStartsAreNatural
  <2> QED BY <1>3, <1>4, <2>1, <2>2 DEF WithinWorkingHours
<1>6. ~OverlapsBreak(slot, CalcEndTime(slot, d))
  BY <1>1, <1>4
<1>7. \A booked \in ranges : ~RangesOverlap(RangeOf(slot, d), booked)
  BY AvailableSlotsAreFree
<1> QED BY <1>5, <1>6, <1>7 DEF ValidateSlot, RangeOf

MinutesIn(range) == { n \in Nat : ToMinutes(range.startTime) <= n /\ n < ToMinutes(range.endTime) }

\* The half-open comparison of rangesOverlap decides whether two ranges that are not
\* empty share a minute.
THEOREM OverlapIsSharedMinute ==
  ASSUME NEW x \in TimeRange, NEW y \in TimeRange,
         MinutesIn(x) # {}, MinutesIn(y) # {}
  PROVE  RangesOverlap(x, y) <=> MinutesIn(x) \cap MinutesIn(y) # {}
<1>1. /\ ToMinutes(x.startTime) \in Nat /\ ToMinutes(x.endTime) \in Nat
      /\ ToMinutes(y.startTime) \in Nat /\ ToMinutes(y.endTime) \in Nat
  BY MinutesAreNatural DEF TimeRange
<1>2. /\ ToMinutes(x.startTime) < ToMinutes(x.endTime)
      /\ ToMinutes(y.startTime) < ToMinutes(y.endTime)
  BY <1>1 DEF MinutesIn
<1>3. ASSUME RangesOverlap(x, y)
      PROVE  MinutesIn(x) \cap MinutesIn(y) # {}
  <2>1. CASE ToMinutes(x.startTime) <= ToMinutes(y.startTime)
    <3>1. ToMinutes(y.startTime) \in MinutesIn(x) \cap MinutesIn(y)
      BY <1>1, <1>2, <1>3, <2>1 DEF RangesOverlap, MinutesIn
    <3> QED BY <3>1
  <2>2. CASE ToMinutes(y.startTime) < ToMinutes(x.startTime)
    <3>1. ToMinutes(x.startTime) \in MinutesIn(x) \cap MinutesIn(y)
      BY <1>1, <1>2, <1>3, <2>2 DEF RangesOverlap, MinutesIn
    <3> QED BY <3>1
  <2> QED BY <1>1, <2>1, <2>2
<1>4. ASSUME MinutesIn(x) \cap MinutesIn(y) # {}
      PROVE  RangesOverlap(x, y)
  BY <1>1, <1>4 DEF RangesOverlap, MinutesIn
<1> QED BY <1>3, <1>4

\* The minutes a salon can sell: opening hours without the break.
MinutesOpen ==
  MinutesIn([startTime |-> WORK_START, endTime |-> WORK_END])
    \ MinutesIn([startTime |-> BREAK_START, endTime |-> BREAK_END])

\* The three comparisons of validateSlot (hours, break, overlap) together accept a
\* start exactly when every minute of the visit is open and held by no booking.
THEOREM ValidMeansFreeMinutes ==
  ASSUME NEW t \in Time, NEW d \in Nat \ {0}, NEW ranges \in SUBSET TimeRange,
         \A booked \in ranges : MinutesIn(booked) # {}
  PROVE  ValidateSlot(t, d, ranges) = "valid"
           <=> /\ MinutesIn(RangeOf(t, d)) \subseteq MinutesOpen
               /\ \A booked \in ranges : MinutesIn(RangeOf(t, d)) \cap MinutesIn(booked) = {}
<1> DEFINE s == ToMinutes(t)
           end == CalcEndTime(t, d)
<1>1. /\ s \in Nat /\ d \in Nat /\ d > 0
      /\ end \in Time /\ ToMinutes(end) = s + d
  BY MinutesAreNatural, EndOfVisit
<1>2. /\ ToMinutes(WORK_START) \in Nat /\ ToMinutes(WORK_END) \in Nat
      /\ ToMinutes(BREAK_START) \in Nat /\ ToMinutes(BREAK_END) \in Nat
      /\ ToMinutes(BREAK_START) < ToMinutes(BREAK_END)
  BY HoursAssumption, MinutesAreNatural
<1>3. RangeOf(t, d) \in TimeRange
  BY <1>1 DEF RangeOf, TimeRange
<1>4. MinutesIn(RangeOf(t, d)) = { n \in Nat : s <= n /\ n < s + d }
  BY <1>1 DEF MinutesIn, RangeOf
<1>5. s \in MinutesIn(RangeOf(t, d)) /\ s + d - 1 \in MinutesIn(RangeOf(t, d))
  BY <1>1, <1>4
<1>6. WithinWorkingHours(t, end)
        <=> MinutesIn(RangeOf(t, d))
              \subseteq MinutesIn([startTime |-> WORK_START, endTime |-> WORK_END])
  <2> DEFINE open == MinutesIn([startTime |-> WORK_START, endTime |-> WORK_END])
  <2>1. open = { n \in Nat : ToMinutes(WORK_START) <= n /\ n < ToMinutes(WORK_END) }
    BY DEF MinutesIn
  <2>2. WithinWorkingHours(t, end)
          <=> ToMinutes(WORK_START) <= s /\ s + d <= ToMinutes(WORK_END)
    BY <1>1, <1>2 DEF WithinWorkingHours
  <2> HIDE DEF open, s
  <2>3. ASSUME MinutesIn(RangeOf(t, d)) \subseteq open
        PROVE  ToMinutes(WORK_START) <= s /\ s + d <= ToMinutes(WORK_END)
    <3>1. s \in open /\ s + d - 1 \in open
      BY <1>5, <2>3
    <3> QED BY <1>1, <1>2, <2>1, <3>1
  <2>4. ASSUME ToMinutes(WORK_START) <= s, s + d <= ToMinutes(WORK_END)
        PROVE  MinutesIn(RangeOf(t, d)) \subseteq open
    BY <1>1, <1>2, <1>4, <2>1, <2>4
  <2> QED BY <2>2, <2>3, <2>4 DEF open
<1>7. OverlapsBreak(t, end)
        <=> MinutesIn(RangeOf(t, d))
              \cap MinutesIn([startTime |-> BREAK_START, endTime |-> BREAK_END]) # {}
  <2> DEFINE break == [startTime |-> BREAK_START, endTime |-> BREAK_END]
  <2>1. break \in TimeRange
    BY HoursAssumption DEF TimeRange
  <2>2. ToMinutes(BREAK_START) \in MinutesIn(break)
    BY <1>2 DEF MinutesIn
  <2>3. OverlapsBreak(t, end) <=> RangesOverlap(RangeOf(t, d), break)
    BY DEF OverlapsBreak, RangesOverlap, RangeOf
  <2> QED BY <1>3, <1>5, <2>1, <2>2, <2>3, OverlapIsSharedMinute
<1>8. \A booked \in ranges :
        RangesOverlap(RangeOf(t, d), booked)
          <=> MinutesIn(RangeOf(t, d)) \cap MinutesIn(booked) # {}
  BY <1>3, <1>5, OverlapIsSharedMinute
<1>9. ValidateSlot(t, d, ranges) = "valid"
        <=> /\ WithinWorkingHours(t, end) /\ ~OverlapsBreak(t, end)
            /\ \A booked \in ranges : ~RangesOverlap(RangeOf(t, d), booked)
  BY DEF ValidateSlot, RangeOf
<1> HIDE DEF s, end
<1> QED BY <1>6, <1>7, <1>8, <1>9 DEF MinutesOpen

\* What is offered is what would be accepted, at the starts the loop of
\* getAvailableSlots visits: the whole multiples of the duration after opening.
THEOREM OffersAreTheAcceptedGrid ==
  ASSUME NEW d \in Nat \ {0}, NEW ranges
  PROVE  GetAvailableSlots(d, ranges)
           = { start \in { FromMinutes(ToMinutes(WORK_START) + n * d) : n \in Nat } :
                 ValidateSlot(start, d, ranges) = "valid" }
<1> DEFINE open == ToMinutes(WORK_START)
           close == ToMinutes(WORK_END)
<1>1. open \in Nat /\ close \in Nat /\ d \in Nat /\ d > 0
  BY HoursAssumption, MinutesAreNatural
<1>2. ASSUME NEW slot \in GetAvailableSlots(d, ranges)
      PROVE  \E n \in Nat : slot = FromMinutes(open + n * d)
  <2>1. PICK c \in LoopStarts(d) : slot = FromMinutes(c)
    BY DEF GetAvailableSlots
  <2>2. \E n \in 0 .. (close \div d) : c = open + n * d
    BY DEF LoopStarts
  <2> QED BY <2>1, <2>2
<1>3. ASSUME NEW n \in Nat, ValidateSlot(FromMinutes(open + n * d), d, ranges) = "valid"
      PROVE  FromMinutes(open + n * d) \in GetAvailableSlots(d, ranges)
  <2> DEFINE c == open + n * d
             start == FromMinutes(c)
  <2>1. n * d \in Nat /\ c \in Nat /\ c + d \in Nat
    BY <1>1
  <2> HIDE DEF c
  <2>2. ToMinutes(start) = c /\ CalcEndTime(start, d) = FromMinutes(c + d)
        /\ ToMinutes(FromMinutes(c + d)) = c + d
    BY <2>1, MinutesRoundTrip DEF CalcEndTime
  <2>3. /\ WithinWorkingHours(start, FromMinutes(c + d))
        /\ ~OverlapsBreak(start, FromMinutes(c + d))
        /\ \A booked \in ranges :
             ~RangesOverlap([startTime |-> start, endTime |-> FromMinutes(c + d)], booked)
    BY <1>3, <2>2 DEF ValidateSlot, RangeOf, c
  <2>4. c + d <= close
    BY <2>2, <2>3 DEF WithinWorkingHours
  <2>5. n \in 0 .. (close \div d)
    <3> DEFINE q == close \div d
    <3>1. q \in Nat /\ close < (q + 1) * d
      BY <1>1
    <3> HIDE DEF q, open, close
    <3>2. n * d < (q + 1) * d
      BY <1>1, <2>1, <2>4, <3>1 DEF c
    <3>3. ~(q + 1 <= n)
      BY <1>1, <3>1, <3>2
    <3> QED BY <3>1, <3>3 DEF q
  <2>6. c \in LoopStarts(d)
    BY <2>4, <2>5 DEF LoopStarts, c
  <2> QED BY <2>3, <2>6 DEF GetAvailableSlots, c
<1>4. \A slot \in GetAvailableSlots(d, ranges) : ValidateSlot(slot, d, ranges) = "valid"
  BY OfferedSlotsAreAccepted
<1> QED BY <1>2, <1>3, <1>4
=============================================================================
