\* A non-exempted package; the clock wraps at 16 (Width 5, offset 12).
CONSTANTS
  Width = 5
  ClockOffset = 12
  MaxClock = 8
  INIT_QUOTA = 6
  MIN_ALLOW_QUOTA_TIME = 2
  WATCHDOG_DELAY_TIME = 1
  EXEMPTED_QUOTA = 2
  Exempted = FALSE
  DelayTimes = {3, 8}
  MaxRequests = 4
SPECIFICATION Spec
INVARIANTS
  TypeOK
  NoStrayTimer
PROPERTIES
  QuotaAccountRefined
  ChargedOncePerInterval
