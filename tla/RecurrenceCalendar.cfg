\* Every date of 2023 as a start, followed past 29 February 2024.
SPECIFICATION CalendarSpec
CONSTANTS
  FirstYear = 2023
  LastYear = 2025
INVARIANTS NeverPastAnchorDay
PROPERTIES OncePerMonth
CHECK_DEADLOCK FALSE
