----------------------------- MODULE TimeSlots -----------------------------
(***************************************************************************)
(* Slot arithmetic of src/src/common/utils/time-slot.util.ts.  A clock     *)
(* text "HH:MM" is a record [h, m]; the request DTO only demands two       *)
(* digits on each side of the colon, so neither field is bounded by a day. *)
(***************************************************************************)
EXTENDS Integers

CONSTANTS
  WORK_START, WORK_END,      \* opening hours, clock texts
  BREAK_START, BREAK_END     \* the daily break, clock texts

Time == [h : Nat, m : Nat]

TimeRange == [startTime : Time, endTime : Time]

ToMinutes(time) == time.h * 60 + time.m

FromMinutes(minutes) == [h |-> minutes \div 60, m |-> minutes % 60]

ASSUME HoursAssumption ==
  /\ {WORK_START, WORK_END, BREAK_START, BREAK_END} \subseteq Time
  /\ ToMinutes(WORK_START) <= ToMinutes(BREAK_START)
  /\ ToMinutes(BREAK_START) < ToMinutes(BREAK_END)
  /\ ToMinutes(BREAK_END) <= ToMinutes(WORK_END)
  /\ ToMinutes(WORK_END) < 24 * 60

CalcEndTime(startTime, durationMinutes) ==
  FromMinutes(ToMinutes(startTime) + durationMinutes)

\* What `new Date(`1970-01-01T${text}:00Z`)` accepts; anything else is an
\* Invalid Date, which the database client refuses to write.
IsClockTime(time) == time.h <= 23 /\ time.m <= 59

-----------------------------------------------------------------------------
\* Mutant: only the start of the new range is compared.
RangesOverlapByStart(a, b) ==
  /\ ToMinutes(b.startTime) <= ToMinutes(a.startTime)
  /\ ToMinutes(a.startTime) < ToMinutes(b.endTime)

-----------------------------------------------------------------------------
OverlapsBreak(startTime, endTime) ==
  /\ ToMinutes(startTime) < ToMinutes(BREAK_END)
  /\ ToMinutes(endTime) > ToMinutes(BREAK_START)

WithinWorkingHours(startTime, endTime) ==
  /\ ToMinutes(startTime) >= ToMinutes(WORK_START)
  /\ ToMinutes(endTime) <= ToMinutes(WORK_END)

\* Half-open ranges: a range that ends when the other starts does not overlap it.
RangesOverlap(a, b) ==
  /\ ToMinutes(a.startTime) < ToMinutes(b.endTime)
  /\ ToMinutes(a.endTime) > ToMinutes(b.startTime)

RangeOf(startTime, durationMinutes) ==
  [startTime |-> startTime, endTime |-> CalcEndTime(startTime, durationMinutes)]

\* The starts the loop of getAvailableSlots visits: it walks the day in steps of
\* the service's own duration, not of SLOT_INTERVAL_MINUTES.
LoopStarts(durationMinutes) ==
  { c \in { ToMinutes(WORK_START) + n * durationMinutes :
              n \in 0 .. (ToMinutes(WORK_END) \div durationMinutes) } :
      c + durationMinutes <= ToMinutes(WORK_END) }

\* Mutant: the list of offered slots forgets the existing bookings.
GetAvailableSlotsUnchecked(durationMinutes, bookedRanges) ==
  { FromMinutes(current) : current \in
      { c \in LoopStarts(durationMinutes) :
          ~OverlapsBreak(FromMinutes(c), FromMinutes(c + durationMinutes)) } }

\* The starts of the loop that pass both `continue`s.
GetAvailableSlots(durationMinutes, bookedRanges) ==
  { FromMinutes(current) : current \in
      { c \in LoopStarts(durationMinutes) :
          /\ ~OverlapsBreak(FromMinutes(c), FromMinutes(c + durationMinutes))
          /\ \A booked \in bookedRanges :
               ~RangesOverlap([startTime |-> FromMinutes(c),
                               endTime |-> FromMinutes(c + durationMinutes)], booked) } }

\* "valid" stands for the null the code returns, the others for its messages,
\* in the order the code tries them.
ValidateSlot(startTime, durationMinutes, bookedRanges) ==
  LET range == RangeOf(startTime, durationMinutes)
  IN  IF ~WithinWorkingHours(startTime, range.endTime) THEN "outside working hours"
      ELSE IF OverlapsBreak(startTime, range.endTime) THEN "overlaps the break"
      ELSE IF \E booked \in bookedRanges : RangesOverlap(range, booked) THEN "conflict"
      ELSE "valid"
=============================================================================
