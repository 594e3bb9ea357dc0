SPECIFICATION FairSpec
CONSTANTS
  o1 = o1
  o2 = o2
  b1 = b1
  t1 = t1
  t2 = t2
  None = None
  Orders = {o1}
  Bookings = {b1}
  Threads = {t1, t2}
  Amount = 1
  Provider = "razorpay"
  EventTypes <- AttemptEvents
  CaptureMayFail = FALSE
  MaxRefunds = 0
  MaxFaults = 0
  MaxCrashes = 0
PROPERTIES CapturedSettles
