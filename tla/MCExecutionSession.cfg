CONSTANTS
  NoId = NoId
  p1 = p1
  p2 = p2
  m1 = m1
  k1 = k1
  Places = {p1, p2}
  Modifies = {m1}
  Cancels = {k1}
  Contents = {c1}
  Target <- MCTarget
  Terms <- MCTerms
  MaxCrashes = 1
  MaxDisconnects = 1
  MaxHealthLosses = 1
SPECIFICATION Spec
INVARIANTS
    StopsAreSettled
    AtMostOneAttempt
    AttemptsAreOnRecord
    ReadyMeansAgreement
PROPERTIES
    OnlyAuthorizedAttempts
    HardStopIsFinal
    RestartFailsClosed
