CONSTANTS
  NoId = NoId
  MaxQuantity = 3
  Prices = {1}
  UpdateIds = {u1}
  BrokerOrderIds = {b1}
SPECIFICATION Spec
INVARIANTS
    PositionAppliedExactlyOnce
    FilledExactlyWhenComplete
PROPERTIES
    TerminalIsFinal
    AmbiguousSubmissionGate
