SPECIFICATION Spec
CONSTANTS
  o1 = o1
  o2 = o2
  b1 = b1
  t1 = t1
  t2 = t2
  None = None
  Orders = {o1, o2}
  Bookings = {b1}
  Threads = {t1, t2}
  Amount = 1
  Provider = "mock"
  EventTypes <- CaptureEvents
  CaptureMayFail = FALSE
  MaxRefunds = 0
  MaxFaults = 1
  MaxCrashes = 0
SYMMETRY Symmetry
INVARIANTS OneOpenOrder MoneyIsRecorded SingleConfirmation OneLivePayment PaidBookingApproved
