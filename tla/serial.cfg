SPECIFICATION Spec
SYMMETRY Symmetry
CONSTANTS
  WORK_START <- MCWorkStart
  WORK_END <- MCWorkEnd
  BREAK_START <- MCBreakStart
  BREAK_END <- MCBreakEnd
  AppointmentIds = {a1, a2}
  MaxStalledCount = 1
  MaxStalls = 0
  MaxStarted = 0
  Requests = {r1}
  Users <- MCUsers
  ServiceIds = {s1}
  DateStrings = {d1, d1Long}
  DayOf <- MCDayOf
  StartTimes <- MCStartTimesSerial
  Durations = {60, 90}
  NULL = NULL
  c1 = c1
  u1 = u1
  d1 = d1
  d1Long = d1Long
  d2 = d2
INVARIANTS
  NoDoubleBooking
  OneJobPerAppointment
  BoardFresh
  RowsAreLegalVisits
PROPERTIES
  StatusFlow
  ImplementsCalendar
CHECK_DEADLOCK FALSE
