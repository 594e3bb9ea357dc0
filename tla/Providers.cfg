CONSTANTS
    Messages = {m1, m2}
    SmsProviders = {"msg91", "airtel", "twilio"}
    Setups <- MCSetups
    Statuses = {200, 202, 400, 429, 501}
    MaxAttempts = 2
    Tries = 3
    AlertsOn = TRUE
SPECIFICATION Spec
INVARIANTS NeverRepeatedInVain SentWasTaken
PROPERTIES BrokenIsNotReused
SYMMETRY MessageSymmetry
CHECK_DEADLOCK FALSE
