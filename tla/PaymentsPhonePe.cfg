SPECIFICATION Spec
CONSTANTS
  o1 = o1
  o2 = o2
  b1 = b1
  t1 = t1
  t2 = t2
  None = None
  Orders = {o1, o2}
  Bookings = {b1}
  Threads = {t1, t2}
  Amount = 2
  Provider = "phonepe"
  EventTypes <- NoEvents
  CaptureMayFail = FALSE
  MaxRefunds = 2
  MaxFaults = 1
  MaxCrashes = 1
SYMMETRY Symmetry
INVARIANTS RefundsAreReal
PROPERTIES PaidIsKept RetryReopens
CONSTRAINT FewFaults
