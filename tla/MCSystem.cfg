SPECIFICATION FairSystemSpec
CONSTANTS
  None = None
  bridge1 = bridge1
  bridge2 = bridge2
  cPay = cPay
  cSelf = cSelf
  cRespelled = cRespelled
  DeviceOrder <- MCDeviceOrder
  Bridges = {bridge1, bridge2}
  Packets = {cPay, cSelf}
  Hashes = {cPay, cSelf, cRespelled}
  NaN = NaN
  Ttls = {1}
  SeedBalance <- MCSeedBalance
  Instructions <- MCInstructions
  InstructionOf <- MCInstructionOf
  MaxStarts = 1
  TtlSeconds = 0
  MaxAgeSeconds = 1
  ClockSkewTolerance = 1
  MaxTime = 2
INVARIANTS
  SystemTypeOK
  OneBridgePerPacket
  FlushReportsEachUpload
  FlushedPayments
PROPERTIES
  HandlersEnd
