SPECIFICATION RestartSpec
CONSTANTS
  None = None
  alice = alice
  bridge = bridge
  cPay = cPay
  cLarge = cLarge
  cNext = cNext
  cWords = cWords
  cLast = cLast
  InWords = InWords
  DeviceOrder <- MCDeviceOrder
  Bridges = {bridge}
  Packets = {cPay, cLarge, cNext}
  Hashes = {cPay, cLarge, cNext, cWords, cLast}
  NaN = NaN
  Ttls = {1}
  SeedBalance <- MCSeedBalance
  Instructions <- MCInstructions
  InstructionOf <- MCInstructionOf
  MaxStarts = 3
  TtlSeconds = 0
  MaxAgeSeconds = 1
  ClockSkewTolerance = 1
  MaxTime = 1
INVARIANTS
  RestartInv
PROPERTIES
  OneLifePerPayment
  ImplementsLives
