SPECIFICATION FairSpec
CONSTANTS
  k1 = k1
  e1 = e1
  e2 = e2
  w1 = w1
  w2 = w2
  None = None
  Keys = {k1}
  Emissions = {e1}
  KeyOf <- Once
  Channels <- EmailSms
  Unreachable <- NoPhone
  Workers = {w1, w2}
  MaxAttempts = 2
  SlowSends = FALSE
  AnswersLost = TRUE
  ExtraAttempts = {1}
  MaxRetries = 1
  MaxFaults = 1
  MaxCrashes = 1
INVARIANTS TypeOK SentWasAccepted
PROPERTIES EveryRecordSettles
