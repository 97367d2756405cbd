SPECIFICATION FairBridgeSpec
CONSTANTS
  None = None
  cPay = cPay
  cPoor = cPoor
  cUndated = cUndated
  cFuture = cFuture
  SeedBalance <- MCSeedBalance
  Instructions <- MCInstructions
  InstructionOf <- MCInstructionOf
  MaxStarts = 1
  Hashes = {cPay, cPoor, cFuture, cUndated}
  TtlSeconds = 1
  MaxAgeSeconds = 2
  ClockSkewTolerance = 1
  MaxTime = 4
INVARIANTS
  BridgeTypeOK
  SettledAnswerHasRow
  OnlyTimelySettles
PROPERTIES
  OneSettledAnswer
  ClaimOutlivesWindow
  ClaimsAreEvicted
