CONSTANTS
    Customers = {a, b}
    Coupons = {c1}
    Vehicles = {v1}
    Threads = {t1, t2}
    Requests <- Asks
    Periods <- Days
    CouponRows <- Rows
    MaxNow = 4
    MaxId = 2
    MaxRequests = 4
    MaxCrashes = 1
    None = None
SPECIFICATION ReminderSpec
INVARIANTS DiscountIsCounted CancelledHoldsNothing TripsAreReminded
PROPERTIES BookingsKept UsesWithinLimit
SYMMETRY MCSymmetry
CHECK_DEADLOCK FALSE
