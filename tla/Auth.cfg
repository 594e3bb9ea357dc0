CONSTANTS
    Threads = {t1, t2}
    Emails = {mail}
    PhoneMail = phoneMail
    Passwords = {p1, p2}
    NoPassword = NoPassword
    NoUser = NoUser
    AutoLink = TRUE
    MaxAttempts = 2
    MaxRequests = 5
SPECIFICATION Spec
INVARIANTS SignedOutEverywhere ExchangedTokenIsDead ResetLinkWorksOnce LockStopsGuessing VerifiedWasProved
SYMMETRY Symmetry
CHECK_DEADLOCK FALSE
