SPECIFICATION FairSpec
CONSTANTS
  WORK_START <- MCWorkStart
  WORK_END <- MCWorkEnd
  BREAK_START <- MCBreakStart
  BREAK_END <- MCBreakEnd
  AppointmentIds = {a1, a2}
  MaxStalledCount = 1
  MaxStalls = 2
  MaxStarted = 2
  Requests = {r1}
  Users <- MCStaff
  ServiceIds = {s1}
  DateStrings = {d1}
  DayOf <- MCDayOf
  StartTimes <- MCStartTimesLive
  Durations = {60}
  NULL = NULL
  c1 = c1
  u1 = u1
  d1 = d1
  d1Long = d1Long
  d2 = d2
INVARIANTS
  OneMailPerRun
  CompletedJobsSentMail
  FirstConfirmedFirstMailed
PROPERTIES
  RequestsReturn
  ConfirmationsSettle
CHECK_DEADLOCK FALSE
