SPECIFICATION Spec
CONSTANTS
  WORK_START <- MCWorkStart
  WORK_END <- MCWorkEnd
  BREAK_START <- MCBreakStart
  BREAK_END <- MCBreakEnd
  Starts <- MCStarts
  Durations = {15, 40, 60}
  MaxBookings = 3
INVARIANTS
  AcceptsExactlyFreeMinutes
  OffersTheAcceptedGrid
