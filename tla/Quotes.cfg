CONSTANTS
    GstRate = 5
    k1 = k1
    k2 = k2
    k3 = k3
    Keys = {k1, k2, k3}
    Requesters = {r1, r2}
    Trips <- MCTrips
    Road <- RoadKms
    Estimate <- Estimates
    Cards <- MCCards
    Coupons <- MCCoupons
    Plans <- Percents
    Closings <- Ends
    Listings <- Listed
    LegacyFares <- OldFares
    Ttl = 1
    CacheMax = 2
    MaxNow = 2
    MaxRequests = 4
    None = None
SPECIFICATION Spec
INVARIANTS QuoteSurvivesOutage LongerCostsNoLess AmountsAddUp
SYMMETRY RequesterSymmetry
CHECK_DEADLOCK FALSE
