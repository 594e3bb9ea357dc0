SPECIFICATION Spec
CONSTANTS
  o1 = o1
  o2 = o2
  b1 = b1
  t1 = t1
  t2 = t2
  None = None
  Orders = {o1}
  Bookings = {b1}
  Threads = {t1, t2}
  Amount = 1
  Provider = "razorpay"
  EventTypes <- PaymentEvents
  CaptureMayFail = TRUE
  MaxRefunds = 1
  MaxFaults = 1
  MaxCrashes = 0
SYMMETRY ThreadSymmetry
INVARIANTS TypeOK PaidIsCaptured ExclusiveWebhook
