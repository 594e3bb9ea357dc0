CONSTANTS
    Ips = {ip1}
    Phones = {ph1, ph2}
    Limiters <- Names
    Window <- Windows
    Budget <- Budgets
    OtpTtl = 3
    Cooldown = 2
    OtpAttempts = 2
    MaxEntries = 2
    NonceTtl = 2
    MaxNonces = 2
    Boot = 4
    MaxTime = 8
    MaxRequests = 5
SPECIFICATION Spec
INVARIANTS ShortWindowsHold WorksOnce SendsAreSpaced RecentNoncesKept
SYMMETRY PhoneSymmetry
CHECK_DEADLOCK FALSE
