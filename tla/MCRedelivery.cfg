SPECIFICATION ServerSpec
CONSTANTS
  None = None
  cPay = cPay
  cPoor = cPoor
  cUndated = cUndated
  cFuture = cFuture
  SeedBalance <- MCSeedBalance
  Instructions <- MCInstructions
  InstructionOf <- MCInstructionOf
  MaxStarts = 1
  Hashes = {cFuture, cPay}
  TtlSeconds = 2
  MaxAgeSeconds = 2
  ClockSkewTolerance = 1
  MaxTime = 6
INVARIANTS
  OnlyFirstDeliverySettles
