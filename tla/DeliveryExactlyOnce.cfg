SPECIFICATION Spec
CONSTANTS
  k1 = k1
  e1 = e1
  e2 = e2
  w1 = w1
  w2 = w2
  None = None
  Keys = {k1}
  Emissions = {e1, e2}
  KeyOf <- Twice
  Channels <- EmailSms
  Unreachable = {}
  Workers = {w1, w2}
  MaxAttempts = 3
  SlowSends = TRUE
  AnswersLost = FALSE
  ExtraAttempts = {}
  MaxRetries = 0
  MaxFaults = 0
  MaxCrashes = 0
SYMMETRY WorkerSymmetry
INVARIANTS OneWorkerPerRecord CallsWithinBudget
PROPERTIES ExactlyOnce
