SPECIFICATION SalonSpec
SYMMETRY Symmetry
CONSTANTS
  WORK_START <- MCWorkStart
  WORK_END <- MCWorkEnd
  BREAK_START <- MCBreakStart
  BREAK_END <- MCBreakEnd
  AppointmentIds = {a1}
  MaxStalledCount = 1
  MaxStalls = 0
  MaxStarted = 0
  Requests = {r1, r2}
  Users <- MCUsers
  ServiceIds = {s1}
  DateStrings = {d1, d1Long}
  DayOf <- MCDayOf
  StartTimes <- MCStartTimes
  Durations = {60}
  Clients = {w1}
  AuthRequests = {q1}
  Emails = {e1, e2}
  Tokens = {t1, t2}
  NULL = NULL
  u1 = u1
  u2 = u2
  d1 = d1
  d1Long = d1Long
INVARIANTS
  WatchTypeOK
  InformedClients
  BookersAreVerified
CHECK_DEADLOCK FALSE
VIEW View
